------------------------------ MODULE MpmcQueue ------------------------------
(***************************************************************************)
(* spdlog's mpmc_bounded_queue: a bounded ring without locks.  A cell's    *)
(* sequence number says for which position it is free or filled; a thread  *)
(* claims a position by compare-and-exchange and then owns its cell until  *)
(* it stores the next sequence number.  Every access to shared memory is a *)
(* step.  A load, relaxed or acquire, may return any value the location    *)
(* has had; a compare-and-exchange sees the latest, and the weak one may   *)
(* fail for no reason.  Positions are 64 bits wide and do not wrap here.   *)
(***************************************************************************)
EXTENDS Naturals, Sequences

CONSTANTS
  Producers, Consumers,
  Values,
  Size,     \* cells, a power of two of at least 2
  MaxItems, \* bound on the values enqueued
  None

ASSUME MpmcAssumption ==
  /\ Size \in Nat /\ Size >= 2
  /\ MaxItems \in Nat
  /\ None \notin Values
  /\ Producers \cap Consumers = {}

Threads == Producers \cup Consumers
Cells   == 0..(Size - 1)
Cell(pos) == pos % Size

VARIABLES
  seqs,  \* per cell, the values sequence_ has had; the largest is the latest
  data,  \* data_ of the cells
  enq, deq,  \* enqueue_pos_, dequeue_pos_
  pc, pos,   \* per thread
  val,   \* what a producer enqueues; what a consumer has dequeued
  log    \* the values enqueued, by position

vars == <<seqs, data, enq, deq, pc, pos, val, log>>

TypeOK ==
  /\ seqs \in [Cells -> SUBSET Nat]
  /\ data \in [Cells -> Values \cup {None}]
  /\ enq \in 0..MaxItems /\ deq \in 0..MaxItems
  /\ pc \in [Threads -> {"idle", "load", "seq", "cas", "data", "publish"}]
  /\ pos \in [Threads -> 0..MaxItems]
  /\ val \in [Threads -> Values \cup {None}]
  /\ log \in Seq(Values)

Init ==
  /\ seqs = [c \in Cells |-> {c}]
  /\ data = [c \in Cells |-> None]
  /\ enq = 0 /\ deq = 0
  /\ pc = [t \in Threads |-> "idle"]
  /\ pos = [t \in Threads |-> 0]
  /\ val = [t \in Threads |-> None]
  /\ log = <<>>
-----------------------------------------------------------------------------
At(t, step) == pc[t] = step
Goto(t, step) == pc' = [pc EXCEPT ![t] = step]

\* pos and data are local to a call.
Return(t) ==
  /\ Goto(t, "idle")
  /\ pos' = [pos EXCEPT ![t] = 0]
  /\ val' = [val EXCEPT ![t] = None]

EnqueueCall(p, v) ==
  /\ At(p, "idle")
  /\ val' = [val EXCEPT ![p] = v]
  /\ Goto(p, "load")
  /\ UNCHANGED <<seqs, data, enq, deq, pos, log>>

DequeueCall(c) ==
  /\ At(c, "idle")
  /\ Goto(c, "load")
  /\ UNCHANGED <<seqs, data, enq, deq, pos, val, log>>

\* enqueue_pos_ or dequeue_pos_, from 0 on
Counter(t) == IF t \in Producers THEN enq ELSE deq

LoadPos(t) ==
  /\ At(t, "load")
  /\ \E k \in 0..Counter(t) : pos' = [pos EXCEPT ![t] = k]
  /\ Goto(t, "seq")
  /\ UNCHANGED <<seqs, data, enq, deq, val, log>>

\* The sequence number at which thread t may claim position k: dif == 0.
Awaited(t, k) == IF t \in Producers THEN k ELSE k + 1

LoadSeq(t) ==
  /\ At(t, "seq")
  /\ \E s \in seqs[Cell(pos[t])] :
       \/ s < Awaited(t, pos[t]) /\ Return(t)
       \/ s = Awaited(t, pos[t]) /\ Goto(t, "cas") /\ UNCHANGED <<pos, val>>
       \/ s > Awaited(t, pos[t]) /\ Goto(t, "load") /\ UNCHANGED <<pos, val>>
  /\ UNCHANGED <<seqs, data, enq, deq, log>>

CasFails(t) ==
  /\ At(t, "cas")
  /\ pos' = [pos EXCEPT ![t] = Counter(t)]
  /\ Goto(t, "seq")
  /\ UNCHANGED <<seqs, data, enq, deq, val, log>>

AnyPos(t) == TRUE
Current(t) == pos[t] = Counter(t)

EnqueueCas(p) ==
  /\ At(p, "cas") /\ Current(p) /\ enq < MaxItems
  /\ enq' = pos[p] + 1
  /\ log' = Append(log, val[p])
  /\ Goto(p, "data")
  /\ UNCHANGED <<seqs, data, deq, pos, val>>

DequeueCas(c) ==
  /\ At(c, "cas") /\ Current(c)
  /\ deq' = pos[c] + 1
  /\ Goto(c, "data")
  /\ UNCHANGED <<seqs, data, enq, pos, val, log>>

EnqueueData(p) ==
  /\ At(p, "data")
  /\ data' = [data EXCEPT ![Cell(pos[p])] = val[p]]
  /\ Goto(p, "publish")
  /\ UNCHANGED <<seqs, enq, deq, pos, val, log>>

DequeueData(c) ==
  /\ At(c, "data")
  /\ val' = [val EXCEPT ![c] = data[Cell(pos[c])]]
  /\ Goto(c, "publish")
  /\ UNCHANGED <<seqs, data, enq, deq, pos, log>>

\* The cell is filled for this position, or free for the one a round later.
NextSeq(t) == IF t \in Producers THEN pos[t] + 1 ELSE pos[t] + Size

Publish(t) ==
  /\ At(t, "publish")
  /\ seqs' = [seqs EXCEPT ![Cell(pos[t])] = @ \cup {NextSeq(t)}]
  /\ Return(t)
  /\ UNCHANGED <<data, enq, deq, log>>

Next ==
  \/ \E p \in Producers : \/ \E v \in Values : EnqueueCall(p, v)
                          \/ EnqueueCas(p) \/ EnqueueData(p)
  \/ \E c \in Consumers : DequeueCall(c) \/ DequeueCas(c) \/ DequeueData(c)
  \/ \E t \in Threads : LoadPos(t) \/ LoadSeq(t) \/ CasFails(t) \/ Publish(t)

Spec == Init /\ [][Next]_vars
-----------------------------------------------------------------------------
Owns(t) == pc[t] \in {"data", "publish"}

\* The variables have their types.
\* Between its compare-and-exchange and its store of the sequence number a
\* thread is alone with its cell, though every load may have been stale; so a
\* dequeue that claimed a position returns the value enqueued for it, whole.
CellIsOwned ==
  /\ TypeOK
  /\ \A t, u \in Threads : t # u /\ Owns(t) /\ Owns(u) => Cell(pos[t]) # Cell(pos[u])
  /\ \A c \in Consumers : At(c, "publish") => pos[c] < Len(log) /\ val[c] = log[pos[c] + 1]

\* Producers and consumers together see a bounded Fifo: an enqueue takes effect
\* when enqueue_pos_ moves and a dequeue when dequeue_pos_ does.
Abstract == INSTANCE Fifo WITH
  queue <- SubSeq(log, deq + 1, Len(log)), out <- SubSeq(log, 1, deq), Limit <- Size
IsFifo == Abstract!Spec
=============================================================================
