----------------------------- MODULE EcThreads ------------------------------
(***************************************************************************)
(* The threads of a TcpServer: listen starts one for the master and one    *)
(* for each slaver (Loop::startThread), stop asks them all to end, from    *)
(* any thread, wait joins them and ~TcpServer deletes the loops.  _thread  *)
(* is written by the owner and by the thread itself, without a lock.       *)
(***************************************************************************)
EXTENDS Naturals

CONSTANT Dispatchers   \* the number of dispatchers: 1 is _master, the others _slavers

ASSUME DispatchersAssumption == Dispatchers \in Nat \ {0}

VARIABLES
  _thread,      \* whether a loop's _thread is not NULL
  runs,         \* its run: "none", "made", "loop", "ending", "over"
  joined,       \* its thread was joined
  isStopping,   \* _isStopping, which nothing resets
  early,        \* run ended before _thread was assigned, or without clearing it
  stopped,      \* dispatchers that TcpServer::stop has reached
  main,         \* where the owner of the server is
  _eventListener,
  waited,       \* wait returned
  wrong         \* what the program ended with

threadVars ==
  <<_thread, runs, joined, isStopping, early, stopped, main, _eventListener, waited, wrong>>

All == 1..Dispatchers
AtRest == [op |-> "idle", at |-> 0, step |-> "none"]
At(op, cur, step) == [op |-> op, at |-> cur, step |-> step]
Is(op, step) == main.op = op /\ main.step = step
cur == main.at

ThreadsTypeOK ==
  /\ _thread \in [All -> BOOLEAN] /\ joined \in [All -> BOOLEAN] /\ isStopping \in [All -> BOOLEAN]
  /\ runs \in [All -> {"none", "made", "loop", "ending", "over"}]
  /\ early \subseteq All /\ stopped \in 0..Dispatchers /\ waited \in BOOLEAN
  /\ main \in [op : {"idle", "listen", "wait", "delete", "gone"}, at : 0..Dispatchers,
              step : {"none", "start", "assign", "test", "join", "loop"}]
  /\ _eventListener \in {"NULL", "set"}
  /\ wrong \in {"nothing", "join_of_NULL", "join_again",
               "delete_of_running", "delete_of_unjoined"}

\* TcpServer, setThreads, Loop
ThreadsInit ==
  /\ _thread = [d \in All |-> FALSE] /\ runs = [d \in All |-> "none"]
  /\ joined = [d \in All |-> FALSE] /\ isStopping = [d \in All |-> FALSE]
  /\ early = {} /\ stopped = 0 /\ main = AtRest
  /\ _eventListener = "NULL" /\ waited = FALSE /\ wrong = "nothing"

\* On to the next dispatcher, or the operation is over.
NextLoop(op, step) == IF cur = Dispatchers THEN AtRest ELSE At(op, cur + 1, step)
Fails(what) ==
  /\ wrong' = what /\ main' = At("gone", 0, "none")
  /\ UNCHANGED <<_thread, runs, joined, isStopping, early, stopped, _eventListener, waited>>
-----------------------------------------------------------------------------
(* listen, when the address can be bound (it changes nothing if not).  An  *)
(* assumption on the caller: listen is not called again once it succeeded  *)
(* (the code does not look; a second one would start the dispatchers that  *)
(* run already).                                                           *)

serverListen ==
  /\ main = AtRest /\ _eventListener = "NULL"
  /\ _eventListener' = "set" /\ main' = At("listen", 1, "start")
  /\ UNCHANGED <<_thread, runs, joined, isStopping, early, stopped, waited, wrong>>

\* onEvent(kEventStart) says no: the master's refusal ends listen, a slaver's
\* is not looked at.
Refuses ==
  /\ Is("listen", "start")
  /\ IF cur = 1 THEN _eventListener' = "NULL" /\ main' = AtRest
     ELSE UNCHANGED _eventListener /\ main' = NextLoop("listen", "start")
  /\ UNCHANGED <<_thread, runs, joined, isStopping, early, stopped, waited, wrong>>

\* startThread: the thread is made, and may run before the pointer to it is
\* assigned.
startThread ==
  /\ Is("listen", "start")
  /\ runs' = [runs EXCEPT ![cur] = "made"]
  /\ main' = At("listen", cur, "assign")
  /\ UNCHANGED <<_thread, joined, isStopping, early, stopped, _eventListener, waited, wrong>>

AssignThread ==
  /\ Is("listen", "assign")
  /\ _thread' = [_thread EXCEPT ![cur] = TRUE]
  /\ early' = IF runs[cur] = "over" THEN early \cup {cur} ELSE early
  /\ main' = NextLoop("listen", "start")
  /\ UNCHANGED <<runs, joined, isStopping, stopped, _eventListener, waited, wrong>>
-----------------------------------------------------------------------------
(* run, on the thread of dispatcher d.                                     *)

runFails(d) ==
  /\ runs[d] = "made"
  /\ runs' = [runs EXCEPT ![d] = "over"] /\ early' = early \cup {d}
  /\ UNCHANGED <<_thread, joined, isStopping, stopped, main, _eventListener, waited, wrong>>

\* Slip: _thread is cleared when the loop begins.
runSlip(d) ==
  /\ runs[d] = "made" /\ runs' = [runs EXCEPT ![d] = "loop"]
  /\ _thread' = [_thread EXCEPT ![d] = FALSE]
  /\ UNCHANGED <<joined, isStopping, early, stopped, main, _eventListener, waited, wrong>>
run(d) ==
  /\ runs[d] = "made" /\ runs' = [runs EXCEPT ![d] = "loop"]
  /\ UNCHANGED <<_thread, joined, isStopping, early, stopped, main, _eventListener, waited, wrong>>

loopExits(d) ==
  /\ runs[d] = "loop" /\ isStopping[d] /\ runs' = [runs EXCEPT ![d] = "ending"]
  /\ UNCHANGED <<_thread, joined, isStopping, early, stopped, main, _eventListener, waited, wrong>>

runEnds(d) ==
  /\ runs[d] = "ending" /\ runs' = [runs EXCEPT ![d] = "over"]
  /\ _thread' = [_thread EXCEPT ![d] = FALSE]
  /\ UNCHANGED <<joined, isStopping, early, stopped, main, _eventListener, waited, wrong>>

\* TcpServer::stop, one dispatcher after the other, on any thread and at any
\* time before the server is deleted.
serverStop ==
  /\ stopped < Dispatchers /\ main.op \notin {"delete", "gone"}
  /\ stopped' = stopped + 1
  /\ isStopping' = [isStopping EXCEPT ![stopped + 1] = TRUE]
  /\ UNCHANGED <<_thread, runs, joined, early, main, _eventListener, waited, wrong>>
-----------------------------------------------------------------------------
(* wait.                                                                   *)

serverWait ==
  /\ main = AtRest
  /\ main' = At("wait", 1, "test")
  /\ UNCHANGED <<_thread, runs, joined, isStopping, early, stopped, _eventListener, waited, wrong>>

waitThread ==
  /\ Is("wait", "test")
  /\ main' = IF _thread[cur] THEN At("wait", cur, "join") ELSE NextLoop("wait", "test")
  /\ waited' = (waited \/ (main' = AtRest /\ _eventListener = "set"))
  /\ UNCHANGED <<_thread, runs, joined, isStopping, early, stopped, _eventListener, wrong>>

\* _thread->join(): the pointer is that of the test, or is read again and may
\* be NULL by now.
JoinNull == Is("wait", "join") /\ ~_thread[cur] /\ Fails("join_of_NULL")
JoinAgain == Is("wait", "join") /\ joined[cur] /\ Fails("join_again")

Join ==
  /\ Is("wait", "join") /\ ~joined[cur] /\ runs[cur] = "over"
  /\ joined' = [joined EXCEPT ![cur] = TRUE]
  /\ main' = NextLoop("wait", "test")
  /\ waited' = (waited \/ main' = AtRest)
  /\ UNCHANGED <<_thread, runs, isStopping, early, stopped, _eventListener, wrong>>
-----------------------------------------------------------------------------
(* ~TcpServer: each ~Loop frees the base and deletes the thread object.    *)

serverDelete ==
  /\ main = AtRest
  /\ main' = At("delete", 1, "loop")
  /\ UNCHANGED <<_thread, runs, joined, isStopping, early, stopped, _eventListener, waited, wrong>>

LoopInUse ==
  Is("delete", "loop") /\ runs[cur] \notin {"none", "over"} /\ Fails("delete_of_running")
Terminates ==
  Is("delete", "loop") /\ _thread[cur] /\ ~joined[cur] /\ Fails("delete_of_unjoined")

LoopDeleted ==
  /\ Is("delete", "loop") /\ runs[cur] \in {"none", "over"} /\ (_thread[cur] => joined[cur])
  /\ main' = IF cur = Dispatchers THEN At("gone", 0, "none") ELSE At("delete", cur + 1, "loop")
  /\ _eventListener' = IF cur = Dispatchers THEN "NULL" ELSE _eventListener
  /\ UNCHANGED <<_thread, runs, joined, isStopping, early, stopped, waited, wrong>>

ThreadsNext ==
  \/ serverListen \/ Refuses \/ startThread \/ AssignThread
  \/ \E d \in All : runFails(d) \/ run(d) \/ loopExits(d) \/ runEnds(d)
  \/ serverStop
  \/ serverWait \/ waitThread \/ JoinNull \/ JoinAgain \/ Join
  \/ serverDelete \/ LoopInUse \/ Terminates \/ LoopDeleted

\* The threads by themselves.
ThreadsSpec == ThreadsInit /\ [][ThreadsNext]_threadVars
-----------------------------------------------------------------------------
\* The variables have their types.
\* When wait has returned, no thread of the server runs any more, whatever the
\* order in which the threads ended and _thread was assigned and cleared, and the
\* server can then be deleted: no loop is freed under its thread and no thread
\* object is deleted unjoined.  A second wait fails only if some thread was over
\* before its _thread was assigned, or failed to run.  (What may always happen is
\* that run clears _thread between waitThread's test and its join.)
WaitJoinsAll ==
  /\ ThreadsTypeOK
  /\ waited => \A d \in All : runs[d] \in {"none", "over"}
  /\ wrong \in {"delete_of_running", "delete_of_unjoined"} => ~waited
  /\ wrong = "join_again" => early # {}
=============================================================================
