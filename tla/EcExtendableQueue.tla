-------------------------- MODULE EcExtendableQueue --------------------------
(***************************************************************************)
(* ec::ExtendableSingleQueue: a SingleQueue shared by a writer and a       *)
(* reader, and a std::queue behind it that only the writer touches (push   *)
(* and refresh).  The steps on the ring are those of EcSingleQueue; what   *)
(* the writer does to the std::queue is one step with its next access to   *)
(* the ring, since the reader does not look at it.                         *)
(***************************************************************************)
EXTENDS EcSingleQueue

VARIABLES
  extend,     \* _extendQueue
  refreshing  \* the writer is inside refresh()

backlog == <<extend, refreshing>>
extVars == <<vars, backlog>>

ExtInit == Init /\ extend = <<>> /\ refreshing = FALSE

\* What was pushed and not yet popped
Queue == Ring \o extend

\* The writer calls push or refresh.
MayPush == pc["writer"] = "idle" /\ ~refreshing /\ Len(out) + Len(Queue) < MaxItems
-----------------------------------------------------------------------------
\* push(v) with the ring full: to the std::queue.
PushExtend(v) ==
  /\ MayPush
  /\ Full(front, rear)
  /\ extend' = Append(extend, v)
  /\ UNCHANGED <<vars, refreshing>>

\* push(v) with room and nothing in the std::queue: to the ring.
RingHasTurnAlways == TRUE
RingHasTurn == extend = <<>>

PushRing(v) ==
  /\ MayPush
  /\ RingHasTurn
  /\ PushBegin(v)
  /\ UNCHANGED backlog

\* push(v) with room and a backlog: behind the backlog, then refresh().
PushBehind(v) ==
  /\ MayPush
  /\ ~Full(front, rear)
  /\ ~RingHasTurn
  /\ extend' = Append(extend, v)
  /\ refreshing' = TRUE
  /\ UNCHANGED vars

\* The writer calls refresh() itself.
RefreshCall ==
  /\ pc["writer"] = "idle" /\ ~refreshing
  /\ extend # <<>> /\ ~Full(front, rear)
  /\ refreshing' = TRUE
  /\ UNCHANGED <<vars, extend>>

\* One turn of refresh()'s loop pushes the front of the std::queue to the ring ...
MoreNever == FALSE
More == extend # <<>> /\ ~Full(front, rear)

RefreshMove ==
  /\ pc["writer"] = "idle" /\ refreshing
  /\ More
  /\ PushBegin(Head(extend))
  /\ UNCHANGED backlog

RefreshEnd ==
  /\ pc["writer"] = "idle" /\ refreshing
  /\ ~More
  /\ refreshing' = FALSE
  /\ UNCHANGED <<vars, extend>>

\* ... and pops it from the std::queue.
DropMoved == IF refreshing THEN extend' = Tail(extend) ELSE UNCHANGED extend

RingAdvance ==
  /\ PushAdvance
  /\ DropMoved
  /\ UNCHANGED refreshing

ExtWriter ==
  \/ RefreshMove \/ RefreshEnd \/ RingAdvance
  \/ (PushStore \/ CountEnd("writer")) /\ UNCHANGED backlog
ExtReader == Reader /\ UNCHANGED backlog

ExtNext ==
  \/ \E v \in Values : PushExtend(v) \/ PushRing(v) \/ PushBehind(v)
  \/ RefreshCall
  \/ ExtWriter
  \/ ExtReader
  \/ CountBegin("reader") /\ UNCHANGED backlog
  \/ CountBegin("writer") /\ ~refreshing /\ UNCHANGED backlog

\* Both threads run.  The reader polls and the writer calls refresh() again and
\* again, whatever else they call; nothing obliges the writer to push.
ExtSpec ==
  /\ ExtInit /\ [][ExtNext]_extVars
  /\ WF_extVars(ExtWriter) /\ WF_extVars(ExtReader)
  /\ SF_extVars(TakeBegin /\ UNCHANGED backlog) /\ SF_extVars(RefreshCall)
-----------------------------------------------------------------------------
\* The ring with its backlog is one unbounded Fifo: no value overtakes one
\* that waits in the std::queue, none is lost or delivered twice while it
\* moves from the std::queue to the ring.
Whole == INSTANCE Fifo WITH queue <- Queue, Limit <- MaxItems
WholeIsFifo == Whole!Spec

\* Whatever was pushed is taken in the end, if the writer goes on calling
\* refresh(): without that the reader is told that the queue is empty while
\* the std::queue holds the rest.
TakenEventually == Queue # <<>> ~> Queue = <<>>
=============================================================================
