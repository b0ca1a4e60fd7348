----------------------------- MODULE MpProcess ------------------------------
(***************************************************************************)
(* ms_process/mp_process.cc: the daemon's main loop forks children and     *)
(* logs; the SIGCHLD handler interrupts it to collect those that exited,   *)
(* and logs too.  Composed with MessageLog: the contexts are main and the  *)
(* handler.  The log of a child is in the child's own memory.              *)
(***************************************************************************)
EXTENDS MessageLog

CONSTANTS
  main, chld,  \* the two contexts
  Forks,       \* rounds of main's loop
  Severity     \* of g_log

ERROR == 1
INFO  == 3

ASSUME MpAssumption ==
  /\ Threads = {main} /\ Handlers = {chld}
  /\ Forks \in Nat /\ Severity \in Nat
  /\ MaxLogs >= 2 * Forks + 1

VARIABLES
  pc,      \* where main is; what it logs is in rec[main]
  handler, \* where sig_chld is, "none" when it is not running
  i,       \* main's loop counter
  child,   \* the children
  pending, \* SIGCHLD is pending
  scount   \* children collected (count and fcount of the source are never assigned)

mpVars == <<pc, handler, i, child, pending, scount>>
vars == <<logVars, mpVars>>

TypeOK ==
  /\ LogTypeOK
  /\ pc \in {"start", "fork", "created", "failed", "sleep"}
  /\ handler \in {"none", "wait", "log"}
  /\ i \in 0..Forks
  /\ child \in [1..Forks -> {"none", "running", "dead", "reaped"}]
  /\ pending \in BOOLEAN
  /\ scount \in 0..Forks

Init ==
  /\ LogInit
  /\ pc = "start" /\ handler = "none" /\ i = 0
  /\ child = [k \in 1..Forks |-> "none"]
  /\ pending = FALSE
  /\ scount = 0
-----------------------------------------------------------------------------
\* IOM_LOG
IomLog(x, level) == IF Severity >= level THEN LogBegin(x) ELSE UNCHANGED logVars

\* main runs when the handler does not, and goes on when its message is out.
MainRuns == handler = "none" /\ ~Logging(main)

Start ==
  /\ MainRuns /\ pc = "start"
  /\ IomLog(main, INFO)
  /\ pc' = "fork"
  /\ UNCHANGED <<handler, i, child, pending, scount>>

Fork ==
  /\ MainRuns /\ pc = "fork" /\ i < Forks
  /\ \/ child' = [child EXCEPT ![i + 1] = "running"] /\ pc' = "created"
     \/ pc' = "failed" /\ UNCHANGED child
  /\ UNCHANGED <<logVars, handler, i, pending, scount>>

Created ==
  /\ MainRuns /\ pc = "created"
  /\ IomLog(main, INFO)
  /\ i' = i + 1 /\ pc' = "fork"
  /\ UNCHANGED <<handler, child, pending, scount>>

\* fork failed, which ends the loop.
Failed ==
  /\ MainRuns /\ pc = "failed"
  /\ IomLog(main, ERROR)
  /\ pc' = "sleep"
  /\ UNCHANGED <<handler, i, child, pending, scount>>

LoopEnds ==
  /\ MainRuns /\ pc = "fork" /\ i = Forks
  /\ pc' = "sleep"
  /\ UNCHANGED <<logVars, handler, i, child, pending, scount>>

MainLogStep ==
  /\ handler = "none"
  /\ LogStep(main)
  /\ UNCHANGED mpVars
-----------------------------------------------------------------------------
\* A child is killed; signals that are pending do not add up.
ChildExits(k) ==
  /\ child[k] = "running"
  /\ child' = [child EXCEPT ![k] = "dead"]
  /\ pending' = TRUE
  /\ UNCHANGED <<logVars, pc, handler, i, scount>>

\* The handler interrupts main, wherever it is.
Signal ==
  /\ pending /\ handler = "none"
  /\ pending' = FALSE
  /\ handler' = "wait"
  /\ UNCHANGED <<logVars, pc, i, child, scount>>

Dead == {k \in 1..Forks : child[k] = "dead"}

\* sig_chld: waitpid for every child that exited, until there is none.
AfterOne  == "none"
AfterEach == "wait"

Reap ==
  /\ handler = "wait"
  /\ \E k \in Dead : child' = [child EXCEPT ![k] = "reaped"]
  /\ IomLog(chld, INFO)
  /\ handler' = "log"
  /\ UNCHANGED <<pc, i, pending, scount>>

HandlerLogStep ==
  /\ LogStep(chld)
  /\ UNCHANGED mpVars

Counted ==
  /\ handler = "log" /\ ~Logging(chld)
  /\ scount' = scount + 1
  /\ handler' = AfterEach
  /\ UNCHANGED <<logVars, pc, i, child, pending>>

HandlerReturns ==
  /\ handler = "wait" /\ Dead = {}
  /\ handler' = "none"
  /\ UNCHANGED <<logVars, pc, i, child, pending, scount>>

Main    == Start \/ Fork \/ Created \/ Failed \/ LoopEnds \/ MainLogStep
Handler == Signal \/ Reap \/ HandlerLogStep \/ Counted \/ HandlerReturns

Next == Main \/ Handler \/ \E k \in 1..Forks : ChildExits(k)

\* The kernel runs the process and delivers the signal; children need not exit.
Spec == Init /\ [][Next]_vars /\ WF_vars(Main) /\ WF_vars(Handler)
-----------------------------------------------------------------------------
\* The handler waits for the mutex of the log, or for the allocator, in which main
\* was when the signal came.
SelfLocked ==
  \/ lock = main /\ (At(chld, "get") \/ At(chld, "put"))
  \/ heap = main /\ At(chld, "new")

\* The handler's comment: children are collected and none stays a zombie, also
\* one that exits while the handler runs, whose signal merges with another's.
\* What can prevent it is that the signal came while main was inside the log.
\* Between handlers scount is the number of children collected.
Reaped ==
  /\ \A k \in 1..Forks : (child[k] = "dead") ~> (child[k] = "reaped" \/ SelfLocked)
  /\ [](/\ TypeOK
       /\ handler = "none" => scount = Cardinality({k \in 1..Forks : child[k] = "reaped"}))
=============================================================================
