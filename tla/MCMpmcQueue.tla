---------------------------- MODULE MCMpmcQueue -----------------------------
(***************************************************************************)
(* Instances of MpmcQueue for TLC.  Producers are alike, and so are        *)
(* consumers and values; the properties checked are safety properties and  *)
(* name none of them.                                                      *)
(***************************************************************************)
EXTENDS MpmcQueue, TLC

Alike == Permutations(Producers) \cup Permutations(Consumers) \cup Permutations(Values)
=============================================================================
