------------------------------ MODULE AsyncLog -------------------------------
(***************************************************************************)
(* spdlog's async_log_helper: clients push messages into a bounded queue,  *)
(* a worker thread pops them and gives them to the sink, and the           *)
(* destructor sends the worker a terminate message and joins it.  The      *)
(* queue is the Fifo that MpmcQueue implements, a cell of which is free    *)
(* again only when the worker has emptied it.                              *)
(***************************************************************************)
EXTENDS Naturals, Sequences, Functions

CONSTANTS
  Clients,
  Size,      \* of the queue
  MaxMsgs    \* bound on the calls of log; flush may be called for ever

ASSUME AsyncAssumption ==
  /\ Size \in Nat /\ Size >= 2
  /\ MaxMsgs \in Nat

VARIABLES
  discard,  \* the policy is discard_log_msg, otherwise block_retry
  interval, \* flush_interval_ms is not zero
  queue,    \* _q
  hand,     \* what the worker has claimed from the queue
  worker,   \* the worker thread
  ex,       \* _last_workerthread_ex is set
  flushReq, termReq,
  client,   \* what each client is pushing
  owner,    \* the life of the helper, up to its destructor
  calls,    \* calls of log
  sent,     \* log messages enqueued, in order
  written,  \* what the sink was given
  flushed   \* how much of it was flushed

options == <<discard, interval>>
vars == <<options, queue, hand, worker, ex, flushReq, termReq, client, owner, calls, sent, written, flushed>>

LogMsgs   == {"log"} \X (1..MaxMsgs)
Flush     == <<"flush", 0>>
Terminate == <<"terminate", 0>>
None      == <<"none", 0>>

TypeOK ==
  /\ Len(queue) <= Size /\ Range(queue) \subseteq LogMsgs \cup {Flush, Terminate}
  /\ hand \in LogMsgs \cup {Flush, Terminate, None}
  /\ worker \in {"runs", "ended", "threw"}
  /\ {discard, interval, ex, flushReq, termReq} \subseteq BOOLEAN
  /\ client \in [Clients -> LogMsgs \cup {Flush, None}]
  /\ owner \in {"alive", "closing", "joining", "destroyed", "crashed"}
  /\ calls \in 0..MaxMsgs
  /\ Range(written) \subseteq Range(sent) /\ flushed \in 0..Len(written)

Init ==
  /\ discard \in BOOLEAN /\ interval \in BOOLEAN
  /\ queue = <<>> /\ hand = None /\ worker = "runs" /\ ex = FALSE
  /\ flushReq = FALSE /\ termReq = FALSE
  /\ client = [c \in Clients |-> None]
  /\ owner = "alive" /\ calls = 0
  /\ sent = <<>> /\ written = <<>> /\ flushed = 0
-----------------------------------------------------------------------------
\* log and flush, up to throw_if_bad_worker: the exception is taken and thrown.
Call(c, m) ==
  /\ owner = "alive" /\ client[c] = None
  /\ calls' = IF m = Flush THEN calls ELSE calls + 1
  /\ ex' = FALSE
  /\ client' = [client EXCEPT ![c] = IF ex THEN None ELSE m]
  /\ UNCHANGED <<options, queue, hand, worker, flushReq, termReq, owner, sent, written, flushed>>

HasRoom   == Len(queue) + (IF hand = None THEN 0 ELSE 1) < Size
Logged(m) == IF m = Flush THEN sent ELSE Append(sent, m)

Push(c) ==
  /\ client[c] # None /\ HasRoom
  /\ queue' = Append(queue, client[c])
  /\ sent' = Logged(client[c])
  /\ client' = [client EXCEPT ![c] = None]
  /\ UNCHANGED <<options, hand, worker, ex, flushReq, termReq, owner, calls, written, flushed>>

\* enqueue refused: the message is dropped, or tried again, which changes nothing.
PushRefused(c) ==
  /\ client[c] # None /\ ~HasRoom /\ discard
  /\ client' = [client EXCEPT ![c] = None]
  /\ UNCHANGED <<options, queue, hand, worker, ex, flushReq, termReq, owner, calls, sent, written, flushed>>

\* ~async_log_helper, when no client is in a call.  An exception of
\* throw_if_bad_worker is caught, but then the thread is not joined, and the
\* destructor of a joinable std::thread ends the program.
Close ==
  /\ owner = "alive" /\ \A c \in Clients : client[c] = None
  /\ owner' = IF ex THEN "crashed" ELSE "closing"
  /\ ex' = FALSE
  /\ UNCHANGED <<options, queue, hand, worker, flushReq, termReq, client, calls, sent, written, flushed>>

PushTerminate ==
  /\ owner = "closing"
  /\ \/ HasRoom /\ queue' = Append(queue, Terminate)
     \/ ~HasRoom /\ discard /\ UNCHANGED queue
  /\ owner' = "joining"
  /\ UNCHANGED <<options, hand, worker, ex, flushReq, termReq, client, calls, sent, written, flushed>>

Join ==
  /\ owner = "joining" /\ worker # "runs"
  /\ owner' = "destroyed"
  /\ UNCHANGED <<options, queue, hand, worker, ex, flushReq, termReq, client, calls, sent, written, flushed>>
-----------------------------------------------------------------------------
\* process_next_msg: dequeue claims a cell and empties it.
Claim ==
  /\ worker = "runs" /\ hand = None /\ queue # <<>>
  /\ hand' = Head(queue) /\ queue' = Tail(queue)
  /\ UNCHANGED <<options, worker, ex, flushReq, termReq, client, owner, calls, sent, written, flushed>>

Got(kind) == worker = "runs" /\ hand \in kind /\ hand' = None

PopLog ==
  /\ Got(LogMsgs)
  /\ written' = Append(written, hand)
  /\ UNCHANGED <<options, queue, worker, ex, flushReq, termReq, client, owner, calls, sent, flushed>>

NoRequest == FALSE
Request   == TRUE

PopFlush ==
  /\ Got({Flush})
  /\ flushReq' = Request
  /\ UNCHANGED <<options, queue, worker, ex, termReq, client, owner, calls, sent, written, flushed>>

EndAtOnce ==
  /\ Got({Terminate})
  /\ worker' = "ended"
  /\ UNCHANGED <<options, queue, ex, flushReq, termReq, client, owner, calls, sent, written, flushed>>

PopTerminate ==
  /\ Got({Terminate})
  /\ flushReq' = TRUE /\ termReq' = TRUE
  /\ UNCHANGED <<options, queue, worker, ex, client, owner, calls, sent, written, flushed>>

Idle == worker = "runs" /\ hand = None /\ queue = <<>>

\* A sink throws: worker_loop keeps the exception and the thread ends.
SinkThrows ==
  /\ \/ Got(LogMsgs)
     \/ Idle /\ (flushReq \/ interval) /\ UNCHANGED hand
  /\ worker' = "threw" /\ ex' = TRUE
  /\ UNCHANGED <<options, queue, flushReq, termReq, client, owner, calls, sent, written, flushed>>

\* The queue is empty: flush on request or after the interval, then end or go on.
AfterOneTry == IF flushReq THEN "ended" ELSE "runs"
AfterEmpty == IF termReq THEN "ended" ELSE "runs"

Empty ==
  /\ Idle
  /\ \/ (flushReq \/ interval) /\ flushed' = Len(written) /\ flushReq' = FALSE
     \/ ~flushReq /\ UNCHANGED <<flushed, flushReq>>
  /\ worker' = AfterEmpty
  /\ UNCHANGED <<options, queue, hand, ex, termReq, client, owner, calls, sent, written>>

Worker == Claim \/ PopLog \/ PopFlush \/ PopTerminate \/ SinkThrows \/ Empty

Next ==
  \/ \E c \in Clients : Call(c, Flush) \/ (calls < MaxMsgs /\ Call(c, <<"log", calls + 1>>))
  \/ \E c \in Clients : Push(c) \/ PushRefused(c)
  \/ Close \/ PushTerminate \/ Join
  \/ Worker

\* The worker and the threads in a call go on; nobody has to log, and nobody has
\* to destroy the helper.
Spec ==
  /\ Init /\ [][Next]_vars
  /\ WF_vars(Worker)
  /\ \A c \in Clients : WF_vars(Push(c) \/ PushRefused(c))
  /\ WF_vars(PushTerminate) /\ WF_vars(Join)
-----------------------------------------------------------------------------
\* The sink is given the messages in the order in which they were enqueued, none
\* left out, also by a worker that ends with an exception; and when the destructor
\* returns after a worker that did not, it has all of them, flushed.
Drained ==
  /\ TypeOK
  /\ Len(written) <= Len(sent) /\ written = SubSeq(sent, 1, Len(written))
  /\ owner = "destroyed" /\ worker = "ended" => written = sent /\ flushed = Len(sent)

\* The policy is to retry, a sink threw and nobody is left to make room.
Hopeless == ~discard /\ worker = "threw" /\ ~HasRoom

\* The policy discarded the terminate message.
Unheard ==
  /\ owner = "joining" /\ worker = "runs"
  /\ Terminate \notin Range(queue) \cup {hand} /\ ~termReq

\* No thread but c, if any, is in a call of log or flush.
Quiet(c) == \A d \in Clients \ {c} : client[d] = None

\* log and flush return, also when the queue is full, unless it is hopeless.  To
\* discard is always possible; a call that retries competes with the others for
\* the room the worker makes and may lose to them for ever, so it is sure to
\* return only if the others leave off in the end.  The destructor sends the
\* terminate message and waits for the worker to end: it returns, unless the
\* message could not be pushed; then it waits for ever, in push_msg or, when the
\* message was discarded, in join.
CallsReturn ==
  /\ \A c \in Clients :
       discard \/ <>[]Quiet(c) => ((client[c] # None) ~> (client[c] = None \/ Hopeless))
  /\ (owner = "closing") ~> (owner = "destroyed" \/ Hopeless \/ (discard /\ Unheard))

\* A flush request is carried out: once it is in the queue, what was enqueued
\* before it is flushed in the end, unless a sink throws.  The worker flushes only
\* when it finds the queue empty, which callers that keep it filled put off for
\* ever: the promise is for callers that leave off in the end.
FlushReaches ==
  \A n \in 1..MaxMsgs :
    <>[](\A c \in Clients : client[c] = None) =>
      ((Len(sent) >= n /\ queue # <<>> /\ queue[Len(queue)] = Flush) ~> (flushed >= n \/ worker = "threw"))
=============================================================================
