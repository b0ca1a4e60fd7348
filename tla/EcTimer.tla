------------------------------- MODULE EcTimer -------------------------------
(***************************************************************************)
(* ec::Timer (libeventc++11): a libevent timeout event that calls a        *)
(* handler a number of rounds.  One timer, the thread of its loop, which   *)
(* runs eventHandler, and possibly a second thread that starts the timer.  *)
(* Starts are numbered in the order of the calls.                          *)
(***************************************************************************)
EXTENDS Integers, Sequences

CONSTANTS
  Starters,   \* the threads that start the timer: "loop", "other"
  Rounds,     \* the numbers of rounds asked for
  Forever,    \* uint32_t(-1), what startForever asks for
  MaxTimes    \* bound on the starts

ASSUME TimerAssumption ==
  /\ Starters \subseteq {"loop", "other"}
  /\ Rounds \subseteq Nat /\ Forever \in Nat /\ MaxTimes \in Nat

Ids == 1..MaxTimes

\* A handler is the user's, or the lambda of startAfter that starts the rounds.
Handlers    == Ids \X {"user", "delay"}
NoHandler   == <<0, "empty">>  \* a std::function that holds nothing
Start       == [kind : {"rounds", "forever", "after"}, rounds : Rounds \cup {Forever}]
Starting    == [by : {"loop", "other"}, handler : Handlers,
                rounds : Rounds \cup {1, Forever}, step : {"add", "set"}]
NotStarting == [step |-> "none"]
Outside     == <<0, "none">>   \* the loop's thread is in no handler

VARIABLES
  event,     \* _event: "none" is NULL, "new", "pending" in libevent, "spent"
  persist,   \* EV_PERSIST
  round, curRound, handler,
  starting,  \* the call of startRounds in progress
  running,   \* the handler the loop's thread is in; calling NoHandler aborts
  starts,    \* the starts so far
  failed,    \* those that returned false
  calls,     \* how often the user's handler of each was called
  alive      \* the Timer has not been destroyed

timerVars == <<event, persist, round, curRound, handler, starting, running, starts,
          failed, calls, alive>>

TimerTypeOK ==
  /\ event \in {"none", "new", "pending", "spent"}
  /\ persist \in BOOLEAN /\ alive \in BOOLEAN
  /\ round \in Nat /\ curRound \in Nat
  /\ handler \in Handlers \cup {NoHandler}
  /\ starting \in Starting \cup {NotStarting}
  /\ running \in Handlers \cup {Outside, NoHandler}
  /\ starts \in Seq(Start)
  /\ failed \in SUBSET Ids
  /\ calls \in [Ids -> Nat]

TimerInit ==
  /\ event = "none" /\ persist = FALSE
  /\ round = 1 /\ curRound = 0 /\ handler = NoHandler
  /\ starting = NotStarting /\ running = Outside
  /\ starts = <<>> /\ failed = {}
  /\ calls = [k \in Ids |-> 0]
  /\ alive = TRUE
-----------------------------------------------------------------------------
\* startRounds up to event_new.
StartBegin(t, h, r) ==
  /\ event' = "new"
  /\ persist' = (r > 1)
  /\ starting' = [by |-> t, handler |-> h, rounds |-> r, step |-> "add"]

\* The application calls startRounds, startOnce (one round), startForever or
\* startAfter (one round of the lambda).  With an event it returns false.
StartCall(t, kind, r) ==
  /\ alive /\ starting = NotStarting /\ Len(starts) < MaxTimes
  /\ running # NoHandler
  /\ t = "loop" /\ running # Outside => running[2] = "user"
  /\ event = "none"
  /\ starts' = Append(starts, [kind |-> kind, rounds |-> r])
  /\ kind = "forever" <=> r = Forever
  /\ IF kind = "after" THEN StartBegin(t, <<Len(starts) + 1, "delay">>, 1)
                       ELSE StartBegin(t, <<Len(starts) + 1, "user">>, r)
  /\ UNCHANGED <<round, curRound, handler, running, failed, calls, alive>>

\* event_new or event_add fails.
StartFails ==
  /\ running # NoHandler /\ starting # NotStarting /\ starting.step = "add"
  /\ event' = "none"
  /\ failed' = failed \cup {starting.handler[1]}
  /\ starting' = NotStarting
  /\ UNCHANGED <<persist, round, curRound, handler, running, starts, calls, alive>>

StartAdd ==
  /\ running # NoHandler /\ starting # NotStarting /\ starting.step = "add"
  /\ event' = "pending"
  /\ starting' = [starting EXCEPT !.step = "set"]
  /\ UNCHANGED <<persist, round, curRound, handler, running, starts, failed, calls, alive>>

\* The assignments that follow event_add.
KeepRound == UNCHANGED curRound
ClearRound == curRound' = 0

StoreHandler == handler' = starting.handler

StartSet ==
  /\ running # NoHandler /\ starting # NotStarting /\ starting.step = "set"
  /\ round' = starting.rounds /\ ClearRound /\ StoreHandler
  /\ starting' = NotStarting
  /\ UNCHANGED <<event, persist, running, starts, failed, calls, alive>>
-----------------------------------------------------------------------------
\* The timer's last round: the test of eventHandler, with curRound counting
\* the round being run.
OneMore(cur) == cur > round
LastRound(cur) == cur >= round

\* What becomes of the event when libevent runs eventHandler: event_del and
\* reset in the last round, else it stays pending if it is persistent.
UpdateEvent ==
  event' = IF LastRound(curRound + 1) THEN "none" ELSE IF persist THEN "pending" ELSE "spent"

\* The timeout: eventHandler up to the call of the handler it has copied.
Fire ==
  /\ event = "pending"
  /\ running = Outside
  /\ starting # NotStarting => starting.by = "other"
  /\ curRound' = curRound + 1
  /\ UpdateEvent
  /\ running' = handler
  /\ calls' = IF handler[2] = "user" THEN [calls EXCEPT ![handler[1]] = @ + 1]
              ELSE calls
  /\ UNCHANGED <<persist, round, handler, starting, starts, failed, alive>>

\* The lambda of startAfter calls startRounds.
DelayOver ==
  /\ running # Outside /\ running[2] = "delay"
  /\ running' = Outside
  /\ IF event = "none"
     THEN /\ starting = NotStarting
          /\ StartBegin("loop", <<running[1], "user">>, starts[running[1]].rounds)
          /\ UNCHANGED failed
     ELSE /\ failed' = failed \cup {running[1]}
          /\ UNCHANGED <<event, persist, starting>>
  /\ UNCHANGED <<round, curRound, handler, starts, calls, alive>>

\* The user's handler returns.
HandlerReturns ==
  /\ running # Outside /\ running[2] = "user"
  /\ starting # NotStarting => starting.by = "other"
  /\ running' = Outside
  /\ UNCHANGED <<event, persist, round, curRound, handler, starting, starts, failed, calls, alive>>

\* ~Timer, on the loop's thread, the user's handler included.
TimerDestroy ==
  /\ alive /\ starting = NotStarting
  /\ running # Outside => running[2] = "user"
  /\ alive' = FALSE
  /\ event' = "none"
  /\ UNCHANGED <<persist, round, curRound, handler, starting, running, starts, failed, calls>>

TimerNext ==
  \/ \E t \in Starters, kind \in {"rounds", "forever", "after"}, r \in Rounds \cup {Forever} :
       StartCall(t, kind, r)
  \/ StartFails
  \/ StartAdd
  \/ StartSet
  \/ Fire
  \/ DelayOver
  \/ HandlerReturns
  \/ TimerDestroy

\* A timer by itself.
TimerSpec == TimerInit /\ [][TimerNext]_timerVars
-----------------------------------------------------------------------------
Newest == Len(starts)
Due(k) == IF starts[k].rounds = 0 THEN 1 ELSE starts[k].rounds

\* The variables have their types, and a start calls its handler as often as it
\* asked for (once if it asked for none), also when a handler starts the timer
\* again in its last round; so the timeout never calls an empty handler or that of
\* a start that is over; isFinished() is true in the last call and only there.
RoundsExact ==
  /\ TimerTypeOK
  /\ \A k \in 1..Newest :
       /\ calls[k] <= Due(k)
       /\ calls[k] < Due(k) /\ alive /\ k \notin failed => k = Newest
       /\ k = Newest /\ event = "none" /\ alive /\ k \notin failed /\ running = Outside
            => calls[k] = Due(k)
       /\ k = Newest /\ running = <<k, "user">> /\ starting = NotStarting
            => (curRound >= round <=> calls[k] = Due(k))

\* Every start runs to its end, unless it fails or the timer is destroyed.
AllRounds ==
  \A k \in Ids :
    Newest = k ~> (Newest >= k /\ calls[k] = Due(k)) \/ k \in failed \/ ~alive
=============================================================================
