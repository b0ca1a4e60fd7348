------------------------------- MODULE EcLoop -------------------------------
(***************************************************************************)
(* ec::Loop (libeventc++11): event loops on threads of their own that      *)
(* exchange posts, asynchronous requests and their responses through three *)
(* SafeQueues each, drained by frameHandler every 5 ms frame.              *)
(*                                                                         *)
(* A step is what a thread does between two accesses to state another      *)
(* thread can see: a SafeQueue operation, the atomic pending counter, the  *)
(* registry s_loops.  The items (ec::Data of a post, ec::AsyncContext of a *)
(* request) are numbered in the order they are allocated.                  *)
(***************************************************************************)
EXTENDS Integers, Sequences, FiniteSets, Functions

CONSTANTS
  Loops,      \* the Loop objects
  Externals,  \* threads on which no Loop runs (curLoop() is NULL)
  CallGraph,  \* the pairs <<thread, loop>> on which the application calls post/async
  MaxItems,   \* bound on the items the application allocates
  None        \* NULL

ASSUME LoopAssumption ==
  /\ Loops \cap Externals = {}
  /\ None \notin Loops \cup Externals
  /\ CallGraph \subseteq (Loops \cup Externals) \X Loops
  /\ MaxItems \in Nat
  /\ None \notin 1..MaxItems

Threads == Loops \cup Externals
Ids     == 1..MaxItems
Queues  == {"posts", "requests", "responses"}
Kinds   == {"post", "async"}

\* What the thread of a loop is doing: "run" is the kEventRun handler,
\* "dispatch" is event_base_loop between two frames (timers, sockets), a queue
\* name is frameHandler iterating over the list moved from that queue, "frame"
\* is the per-frame handler, "end" is the kEventEnd handler.
Phases == {"new", "run", "dispatch", "frame", "end", "finished"} \cup Queues

\* The life of an item.  "lost": its response was pushed through a pointer to
\* a Loop destroyed after Loop::get returned it.
Stages == {"none", "called", "queued", "serving", "served", "replying",
           "replied", "done", "dropped", "lost"}

\* by: the calling thread; from: AsyncContext::loopId, None standing for 0;
\* to: the loop called; handler: whether the context has a handler.
Item == [kind : Kinds, by : Threads, from : Loops \cup {None}, to : Loops,
         handler : BOOLEAN]

VARIABLES
  phase,       \* phase[l]: see Phases
  exit,        \* event_base_loopexit: "no", "requested", or "last" once the
               \* batch in which it takes effect has run its frame event
  stopping,    \* _isStopping
  registered,  \* s_loops
  q,           \* q[l, "posts"] is _asyncPosts, and so on
  moved,       \* the rest of the list frameHandler is iterating over
  cur,         \* the item in hand in that iteration
  pending,     \* _asyncPendingCount
  calling,     \* the item a thread has allocated and not yet pushed
  item,        \* what was allocated
  stage        \* where each item is in its life

vars == <<phase, exit, stopping, registered, q, moved, cur, pending, calling,
          item, stage>>

TypeOK ==
  /\ phase \in [Loops -> Phases]
  /\ exit \in [Loops -> {"no", "requested", "last"}]
  /\ stopping \in [Loops -> BOOLEAN]
  /\ registered \in SUBSET Loops
  /\ q \in [Loops \X Queues -> Seq(Ids)]
  /\ moved \in [Loops -> Seq(Ids)]
  /\ cur \in [Loops -> Ids \cup {None}]
  /\ pending \in [Loops -> Int]
  /\ calling \in [Threads -> Ids \cup {None}]
  /\ item \in [Ids -> Item \cup {None}]
  /\ stage \in [Ids -> Stages]

Init ==
  /\ phase = [l \in Loops |-> "new"]
  /\ exit = [l \in Loops |-> "no"]
  /\ stopping = [l \in Loops |-> FALSE]
  /\ registered = Loops
  /\ q = [lk \in Loops \X Queues |-> <<>>]
  /\ moved = [l \in Loops |-> <<>>]
  /\ cur = [l \in Loops |-> None]
  /\ pending = [l \in Loops |-> 0]
  /\ calling = [t \in Threads |-> None]
  /\ item = [i \in Ids |-> None]
  /\ stage = [i \in Ids |-> "none"]
-----------------------------------------------------------------------------
\* Plausible slips, which the properties below must notice, stand before the
\* definition they vary and are named for what goes wrong.
\* SafeQueue::push and SafeQueue::moveAll, each under the queue's mutex.
PushFront(l, k, i) == q' = [q EXCEPT ![<<l, k>>] = <<i>> \o @]
Push(l, k, i) == q' = [q EXCEPT ![<<l, k>>] = Append(@, i)]

CopyAll(l, k) ==
  /\ moved' = [moved EXCEPT ![l] = q[<<l, k>>]]
  /\ UNCHANGED q

MoveNothing(l, k) == UNCHANGED <<moved, q>>

MoveAll(l, k) ==
  /\ moved' = [moved EXCEPT ![l] = q[<<l, k>>]]
  /\ q' = [q EXCEPT ![<<l, k>>] = <<>>]

\* A thread is in application code: an external thread always is, a loop's
\* thread is inside a handler or inside some libevent callback.
UserCode(t) ==
  /\ calling[t] = None
  /\ t \in Loops =>
       \/ phase[t] \in {"run", "dispatch", "frame", "end"}
       \/ phase[t] \in Queues /\ cur[t] # None /\ stage[cur[t]] \in {"serving", "replied"}

\* Loop::curLoop on thread t
CurLoop(t) == IF t \in Loops THEN t ELSE None

\* Whether Loop::async, called on thread t, counts the call as pending.
CountsAll(t, kind, handler) == kind = "async" /\ CurLoop(t) # None
Counts(t, kind, handler) == kind = "async" /\ handler /\ CurLoop(t) # None

\* Loop::async and Loop::post up to the push: the item is allocated and, for
\* a request made on a loop's thread with a handler, the pending counter of
\* the loop that is CALLED is incremented.
Call(t, l, kind, handler) ==
  /\ UserCode(t)
  /\ <<t, l>> \in CallGraph
  /\ l \in registered
  /\ kind = "post" => ~handler
  /\ \E i \in Ids :
       /\ stage[i] = "none"
       /\ \A j \in 1..(i-1) : stage[j] # "none"
       /\ item' = [item EXCEPT ![i] = [kind |-> kind, by |-> t, from |-> CurLoop(t),
                                       to |-> l, handler |-> handler]]
       /\ stage' = [stage EXCEPT ![i] = "called"]
       /\ calling' = [calling EXCEPT ![t] = i]
  /\ pending' = IF Counts(t, kind, handler) THEN [pending EXCEPT ![l] = @ + 1] ELSE pending
  /\ UNCHANGED <<phase, exit, stopping, registered, q, moved, cur>>

\* The push that ends Loop::async or Loop::post.
PushCall(t) ==
  /\ calling[t] # None
  /\ LET i == calling[t] IN
       /\ Push(item[i].to, IF item[i].kind = "post" THEN "posts" ELSE "requests", i)
       /\ stage' = [stage EXCEPT ![i] = "queued"]
  /\ calling' = [calling EXCEPT ![t] = None]
  /\ UNCHANGED <<phase, exit, stopping, registered, moved, cur, pending, item>>

\* Loop::stop(true): the frame handler decides when to exit.
StopPending(t, l) ==
  /\ UserCode(t)
  /\ l \in registered
  /\ ~stopping[l]
  /\ stopping' = [stopping EXCEPT ![l] = TRUE]
  /\ UNCHANGED <<phase, exit, registered, q, moved, cur, pending, calling, item, stage>>

\* event_base_loopexit(_base, NULL)
LoopExit(l) == exit' = [exit EXCEPT ![l] = IF @ = "no" THEN "requested" ELSE @]

\* Loop::stop(false)
StopNow(t, l) ==
  /\ UserCode(t)
  /\ l \in registered
  /\ exit[l] = "no"
  /\ LoopExit(l)
  /\ UNCHANGED <<phase, stopping, registered, q, moved, cur, pending, calling, item, stage>>
-----------------------------------------------------------------------------
\* Loop::start / startThread, and run up to the call of event_base_loop.  A
\* loop that has finished may be started again; _isStopping is not reset.
Start(l) ==
  /\ l \in registered
  /\ phase[l] \in {"new", "finished"}
  /\ phase' = [phase EXCEPT ![l] = "run"]
  /\ UNCHANGED <<exit, stopping, registered, q, moved, cur, pending, calling, item, stage>>

EnterLoop(l) ==
  /\ phase[l] = "run"
  /\ calling[l] = None
  /\ phase' = [phase EXCEPT ![l] = "dispatch"]
  /\ UNCHANGED <<exit, stopping, registered, q, moved, cur, pending, calling, item, stage>>

\* The frame event fires: frameHandler takes the posts.  Of the events that
\* are active when a loopexit takes effect the frame event may still be one.
FrameBegin(l) ==
  /\ phase[l] = "dispatch"
  /\ calling[l] = None
  /\ exit[l] # "last"
  /\ exit' = [exit EXCEPT ![l] = IF @ = "requested" THEN "last" ELSE @]
  /\ phase' = [phase EXCEPT ![l] = "posts"]
  /\ MoveAll(l, "posts")
  /\ UNCHANGED <<stopping, registered, cur, pending, calling, item, stage>>

\* One turn of the for loop over posts or requests: the handler is called.
Serve(l) ==
  /\ phase[l] \in {"posts", "requests"}
  /\ cur[l] = None
  /\ moved[l] # <<>>
  /\ cur' = [cur EXCEPT ![l] = Head(moved[l])]
  /\ moved' = [moved EXCEPT ![l] = Tail(@)]
  /\ stage' = [stage EXCEPT ![Head(moved[l])] = "serving"]
  /\ UNCHANGED <<phase, exit, stopping, registered, q, pending, calling, item>>

\* The post's handler has returned or thrown; the data is deleted.
PostDone(l) ==
  /\ phase[l] = "posts"
  /\ cur[l] # None
  /\ calling[l] = None
  /\ stage' = [stage EXCEPT ![cur[l]] = "done"]
  /\ cur' = [cur EXCEPT ![l] = None]
  /\ UNCHANGED <<phase, exit, stopping, registered, q, moved, pending, calling, item>>

\* The request's handler has returned or thrown; Loop::get looks the caller up.
\* Without a handler the context is done; without a caller it is dropped.
RequestDone(l) ==
  /\ phase[l] = "requests"
  /\ cur[l] # None
  /\ stage[cur[l]] = "serving"
  /\ calling[l] = None
  /\ LET c == item[cur[l]]
         respond == c.from \in registered /\ c.handler
     IN
       /\ stage' = [stage EXCEPT ![cur[l]] =
                      IF respond THEN "served"
                      ELSE IF c.handler /\ c.from # None THEN "dropped" ELSE "done"]
       /\ cur' = IF respond THEN cur ELSE [cur EXCEPT ![l] = None]
  /\ UNCHANGED <<phase, exit, stopping, registered, q, moved, pending, calling, item>>

\* fromLoop->_asyncResponses.push(context)
PushResponse(l) ==
  /\ phase[l] = "requests"
  /\ cur[l] # None
  /\ stage[cur[l]] = "served"
  /\ LET from == item[cur[l]].from IN
       IF from \in registered
       THEN /\ Push(from, "responses", cur[l])
            /\ stage' = [stage EXCEPT ![cur[l]] = "replying"]
       ELSE /\ stage' = [stage EXCEPT ![cur[l]] = "lost"]
            /\ UNCHANGED q
  /\ cur' = [cur EXCEPT ![l] = None]
  /\ UNCHANGED <<phase, exit, stopping, registered, moved, pending, calling, item>>

\* One turn of the loop over responses: the pending counter of THIS loop is
\* decremented, the context's handler is called.
Reply(l) ==
  /\ phase[l] = "responses"
  /\ cur[l] = None
  /\ moved[l] # <<>>
  /\ cur' = [cur EXCEPT ![l] = Head(moved[l])]
  /\ moved' = [moved EXCEPT ![l] = Tail(@)]
  /\ stage' = [stage EXCEPT ![Head(moved[l])] = "replied"]
  /\ pending' = [pending EXCEPT ![l] = @ - 1]
  /\ UNCHANGED <<phase, exit, stopping, registered, q, calling, item>>

ReplyDone(l) ==
  /\ phase[l] = "responses"
  /\ cur[l] # None
  /\ calling[l] = None
  /\ stage' = [stage EXCEPT ![cur[l]] = "done"]
  /\ cur' = [cur EXCEPT ![l] = None]
  /\ UNCHANGED <<phase, exit, stopping, registered, q, moved, pending, calling, item>>

\* A list is used up: frameHandler takes the next one.
NextQueue(l, k, next) ==
  /\ phase[l] = k
  /\ cur[l] = None
  /\ moved[l] = <<>>
  /\ phase' = [phase EXCEPT ![l] = next]
  /\ MoveAll(l, next)
  /\ UNCHANGED <<exit, stopping, registered, cur, pending, calling, item, stage>>

\* All three lists are used up: the per-frame handler runs.
FrameHandlers(l) ==
  /\ phase[l] = "responses"
  /\ cur[l] = None
  /\ moved[l] = <<>>
  /\ phase' = [phase EXCEPT ![l] = "frame"]
  /\ UNCHANGED <<exit, stopping, registered, q, moved, cur, pending, calling, item, stage>>

\* The end of frameHandler: a pending stop exits once the counter is zero.
ExitAtOnce(l) == stopping[l]
MayExit(l) == stopping[l] /\ pending[l] = 0

FrameEnd(l) ==
  /\ phase[l] = "frame"
  /\ calling[l] = None
  /\ phase' = [phase EXCEPT ![l] = "dispatch"]
  /\ IF MayExit(l) THEN LoopExit(l) ELSE UNCHANGED exit
  /\ UNCHANGED <<stopping, registered, q, moved, cur, pending, calling, item, stage>>

\* event_base_loop returns, the kEventEnd handler runs; then run returns.
LeaveLoop(l) ==
  /\ phase[l] = "dispatch"
  /\ calling[l] = None
  /\ exit[l] # "no"
  /\ phase' = [phase EXCEPT ![l] = "end"]
  /\ exit' = [exit EXCEPT ![l] = "no"]
  /\ UNCHANGED <<stopping, registered, q, moved, cur, pending, calling, item, stage>>

Finish(l) ==
  /\ phase[l] = "end"
  /\ calling[l] = None
  /\ phase' = [phase EXCEPT ![l] = "finished"]
  /\ UNCHANGED <<exit, stopping, registered, q, moved, cur, pending, calling, item, stage>>

\* Loop::~Loop.  The application destroys a loop that is not running and
\* inside no call of post or async; what its queues hold is never freed.
Destroy(l) ==
  /\ l \in registered
  /\ phase[l] \in {"new", "finished"}
  /\ \A t \in Threads : calling[t] # None => item[calling[t]].to # l
  /\ registered' = registered \ {l}
  /\ UNCHANGED <<phase, exit, stopping, q, moved, cur, pending, calling, item, stage>>
-----------------------------------------------------------------------------
\* The steps of a loop's own thread once it runs.
LoopStep(l) ==
  \/ EnterLoop(l)
  \/ FrameBegin(l)
  \/ Serve(l)
  \/ PostDone(l)
  \/ NextQueue(l, "posts", "requests")
  \/ RequestDone(l)
  \/ PushResponse(l)
  \/ NextQueue(l, "requests", "responses")
  \/ Reply(l)
  \/ ReplyDone(l)
  \/ FrameHandlers(l)
  \/ FrameEnd(l)
  \/ LeaveLoop(l)
  \/ Finish(l)

\* What the application does, on any thread.
AppStep ==
  \/ \E t \in Threads, l \in Loops :
       \/ \E kind \in Kinds, handler \in BOOLEAN : Call(t, l, kind, handler)
       \/ StopPending(t, l)
       \/ StopNow(t, l)
  \/ \E l \in Loops : Start(l) \/ Destroy(l)

Next ==
  \/ \E l \in Loops : LoopStep(l)
  \/ \E t \in Threads : PushCall(t)
  \/ AppStep

Spec == Init /\ [][Next]_vars

\* The operating system schedules every thread: a loop's thread keeps running
\* and a call of post or async returns.  Nothing obliges the application.
Fairness ==
  /\ \A l \in Loops : WF_vars(LoopStep(l))
  /\ \A t \in Threads : WF_vars(PushCall(t))

FairSpec == Spec /\ Fairness
-----------------------------------------------------------------------------
\* What is in a queue of a loop, or in the list moved from it, belongs there.
Belongs(l, k, i) ==
  \/ k = "posts"     /\ stage[i] = "queued" /\ item[i].kind = "post" /\ item[i].to = l
  \/ k = "requests"  /\ stage[i] = "queued" /\ item[i].kind = "async" /\ item[i].to = l
  \/ k = "responses" /\ stage[i] = "replying" /\ item[i].handler /\ item[i].from = l

\* The items in a queue are addressed to its loop and are in it once.
QueueCustody(l, k) ==
  /\ IsInjective(q[<<l, k>>])
  /\ \A i \in Range(q[<<l, k>>]) : Belongs(l, k, i)

\* So are those of the list being iterated over, and they left the queue.
MovedCustody(l) ==
  /\ IsInjective(moved[l])
  /\ phase[l] \notin Queues => moved[l] = <<>>
  /\ phase[l] \in Queues =>
       \A i \in Range(moved[l]) : Belongs(l, phase[l], i) /\ i \notin Range(q[<<l, phase[l]>>])

\* The item in hand is being served, or is being answered to its caller.
CurCustody(l) ==
  cur[l] # None =>
    LET i == cur[l] IN
      \/ /\ phase[l] = "posts"
         /\ item[i].kind = "post" /\ item[i].to = l
         /\ stage[i] = "serving"
      \/ /\ phase[l] = "requests"
         /\ item[i].kind = "async" /\ item[i].to = l
         /\ \/ stage[i] = "serving"
            \/ stage[i] = "served" /\ item[i].handler /\ item[i].from \in Loops
      \/ /\ phase[l] = "responses"
         /\ item[i].handler /\ item[i].from = l
         /\ stage[i] = "replied"

CallCustody(t) ==
  calling[t] # None => stage[calling[t]] = "called" /\ item[calling[t]].by = t

\* A post has no handler to answer to.
Allocated ==
  \A i \in Ids : stage[i] # "none" =>
    item[i] \in Item /\ (item[i].kind = "post" => ~item[i].handler)

\* Every raw pointer has one holder: whatever the queues, the lists moved out of
\* them and the threads hold is at the stage the holder takes it to be at, on
\* the loop it is addressed to, and is held once.  So frameHandler deletes no
\* context twice and answers no call on the wrong loop, however the frames of
\* the loops interleave.
Custody ==
  /\ \A l \in Loops, k \in Queues : QueueCustody(l, k)
  /\ \A l \in Loops : MovedCustody(l) /\ CurCustody(l)
  /\ \A t \in Threads : CallCustody(t)
  /\ Allocated

Sent(i)     == stage[i] # "none"
Reached(i)  == stage[i] \notin {"none", "called", "queued"}
Answered(i) == stage[i] \in {"replied", "done"}

\* Held by a thread, by a queue, or by a list frameHandler is iterating over.
Held(i) ==
  \/ \E t \in Threads : calling[t] = i
  \/ \E l \in Loops :
       \/ cur[l] = i
       \/ i \in Range(moved[l])
       \/ \E k \in Queues : i \in Range(q[<<l, k>>])

\* The variables have their types.
\* No item is mislaid: one that is neither finished nor given up is held.  What
\* one thread sends to one loop through one queue is handled in the order it was
\* sent, and its answers come back in that order.
InOrder ==
  /\ TypeOK
  /\ \A i \in Ids :
       stage[i] \in {"called", "queued", "serving", "served", "replying", "replied"} => Held(i)
  /\ \A i, j \in Ids :
       /\ i < j
       /\ Sent(i) /\ Sent(j)
       /\ item[i].by = item[j].by /\ item[i].to = item[j].to /\ item[i].kind = item[j].kind
       => /\ Reached(j) => Reached(i)
          /\ item[i].handler /\ item[j].handler /\ Answered(j) =>
               Answered(i) \/ stage[i] \in {"dropped", "lost"}

\* The calls that Loop::async counts, and the answers frameHandler counts.
CountedTo(l)  == {i \in Ids : Sent(i) /\ item[i].to = l /\ item[i].handler /\ item[i].from # None}
AnsweredOn(l) == {i \in Ids : Answered(i) /\ item[i].handler /\ item[i].from = l}

\* What _asyncPendingCount really counts: the calls made TO the loop by other
\* loops or itself, less the answers to the calls made BY it.
PendingExact ==
  \A l \in Loops : pending[l] = Cardinality(CountedTo(l)) - Cardinality(AnsweredOn(l))

\* The unfinished calls of a loop: made on its thread, with a handler that has
\* not been called.
Unfinished(l) ==
  {i \in Ids : /\ stage[i] \in {"called", "queued", "serving", "served", "replying"}
               /\ item[i].handler
               /\ item[i].from = l}

\* _asyncPendingCount is the number of unfinished asynchronous requests.
PendingIsUnfinished == \A l \in Loops : pending[l] = Cardinality(Unfinished(l))

\* stop(true) waits for what is outstanding: the end of a frame turns it into
\* an exit only when every call made on the loop has been answered.
StopWaits ==
  [][\A l \in Loops :
       phase[l] = "frame" /\ phase'[l] = "dispatch" /\ exit[l] = "no" /\ exit'[l] # "no"
         => Unfinished(l) = {}]_vars

Running(l) == phase[l] \notin {"new", "finished"}

\* stop(true) stops the loop: a running loop that was told to stop finishes.
StopEventually == \A l \in Loops : stopping[l] /\ Running(l) ~> phase[l] = "finished"

\* An item in a queue of a loop is taken out of it, unless that loop ends.
HandledEventually ==
  \A i \in Ids :
    /\ stage[i] = "queued" ~> (stage[i] # "queued" \/ ~Running(item[i].to))
    /\ stage[i] = "replying" ~> (stage[i] # "replying" \/ ~Running(item[i].from))
=============================================================================
