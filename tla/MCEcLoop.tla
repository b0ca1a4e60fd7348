------------------------------ MODULE MCEcLoop ------------------------------
(***************************************************************************)
(* Instances of EcLoop for TLC.                                            *)
(***************************************************************************)
EXTENDS EcLoop, TLC

\* Every thread calls every loop.
AnyGraph == (Loops \cup Externals) \X Loops

\* A loop's thread calls only its own loop, as asyncExample's timers do;
\* external threads call any loop.
SelfGraph == {<<l, l>> : l \in Loops} \cup (Externals \X Loops)

\* Calls between distinct loops only.
CrossGraph == {tl \in Loops \X Loops : tl[1] # tl[2]}

\* The loops are interchangeable in all these graphs (safety runs only).
LoopSymmetry == Permutations(Loops)
=============================================================================
