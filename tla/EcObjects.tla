----------------------------- MODULE EcObjects -----------------------------
(***************************************************************************)
(* The objects of libeventc++11 that an application uses on a loop or by   *)
(* themselves, side by side: a Timer, TcpClients, the threads of a         *)
(* TcpServer, an HttpServer with its clients, a Date with a Time, and a    *)
(* StreamWriter with a StreamReader.  They share no state, so a behaviour  *)
(* is one of any of them.                                                  *)
(***************************************************************************)
EXTENDS EcTimer, EcTcpClient, EcThreads, HttpServer, EcDate, EcStream

VARIABLE object

vars == <<object, timerVars, clientVars, threadVars, httpVars, dateVars, streamVars>>

\* Only the object chosen has a choice of initial states.
Init ==
  /\ object \in {"timer", "client", "threads", "http", "date", "stream"}
  /\ TimerInit /\ ClientInit /\ ThreadsInit /\ HttpInit /\ StreamInit
  /\ IF object = "date" THEN DateInit
     ELSE /\ zone = 0 /\ tm = localtime(Stamp(0, 0)) /\ tv = Stamp(0, 0)
          /\ last = [op |-> "none"] /\ dateOps = 0

OnTimer(step) ==
  object = "timer" /\ step /\ UNCHANGED <<object, clientVars, threadVars, httpVars, dateVars, streamVars>>

Next ==
  \/ OnTimer(TimerNext)
  \/ object = "client" /\ ClientNext /\ UNCHANGED <<object, timerVars, threadVars, httpVars, dateVars, streamVars>>
  \/ object = "threads" /\ ThreadsNext /\ UNCHANGED <<object, timerVars, clientVars, httpVars, dateVars, streamVars>>
  \/ object = "http" /\ HttpNext /\ UNCHANGED <<object, timerVars, clientVars, threadVars, dateVars, streamVars>>
  \/ object = "date" /\ DateNext /\ UNCHANGED <<object, timerVars, clientVars, threadVars, httpVars, streamVars>>
  \/ object = "stream" /\ StreamNext /\ UNCHANGED <<object, timerVars, clientVars, threadVars, httpVars, dateVars>>

\* The loop of the timer runs: a pending timeout fires, and calls return.
Spec ==
  /\ Init /\ [][Next]_vars
  /\ WF_vars(OnTimer(Fire)) /\ WF_vars(OnTimer(DelayOver)) /\ WF_vars(OnTimer(HandlerReturns))
  /\ WF_vars(OnTimer(StartAdd \/ StartFails)) /\ WF_vars(OnTimer(StartSet))
=============================================================================
