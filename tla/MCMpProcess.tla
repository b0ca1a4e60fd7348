---------------------------- MODULE MCMpProcess -----------------------------
(***************************************************************************)
(* An instance of MpProcess for TLC.                                       *)
(***************************************************************************)
EXTENDS MpProcess

MainThread == {main}
Handler1   == {chld}
OnMain     == [h \in {chld} |-> main]
=============================================================================
