---------------------------- MODULE EcSingleQueue ----------------------------
(***************************************************************************)
(* ec::SingleQueue shared, without a lock, by one thread that writes and   *)
(* one that reads: the writer pushes when full() says there is room, the   *)
(* reader takes front() and pops when empty() says there is something.     *)
(* Each read or write of a volatile position, and each access to a slot,   *)
(* is a step of its own; the stores of one thread become visible in        *)
(* program order.  Either thread may also ask for count().                 *)
(***************************************************************************)
EXTENDS EcRing

CONSTANTS
  Values,   \* what is pushed
  Unset,    \* what a slot holds before its first push
  Word,     \* 2^32: uint32_t arithmetic is modulo this
  MaxItems  \* bound on the pushes

ASSUME QueueAssumption ==
  /\ Unset \notin Values
  /\ Word \in Nat /\ Size < Word
  /\ MaxItems \in Nat

Threads == {"writer", "reader"}

VARIABLES
  elements, front, rear,
  pc,       \* pc[t]: what thread t is doing
  held,     \* the value the writer is pushing; the value the reader has read
  counted,  \* what a thread's last call of count() returned
  out       \* the values the reader has taken

vars == <<elements, front, rear, pc, held, counted, out>>

TypeOK ==
  /\ elements \in [Slots -> Values \cup {Unset}]
  /\ front \in Slots /\ rear \in Slots
  /\ pc \in [Threads -> {"idle", "store", "load", "advance", "straight", "wrapped"}]
  /\ held \in [Threads -> Values \cup {Unset}]
  /\ counted \in [Threads -> 0..(Word - 1)]
  /\ out \in Seq(Values)

Init ==
  /\ elements = [s \in Slots |-> Unset]
  /\ front = 0 /\ rear = 0
  /\ pc = [t \in Threads |-> "idle"]
  /\ held = [t \in Threads |-> Unset]
  /\ counted = [t \in Threads |-> 0]
  /\ out = <<>>
-----------------------------------------------------------------------------
\* The writer calls full() and, finding room, enters push(v).
PushBegin(v) ==
  /\ pc["writer"] = "idle"
  /\ ~Full(front, rear)
  /\ Len(out) + CountOf(front, rear) < MaxItems
  /\ held' = [held EXCEPT !["writer"] = v]
  /\ pc' = [pc EXCEPT !["writer"] = "store"]
  /\ UNCHANGED <<elements, front, rear, counted, out>>

\* The two assignments of push, in the order of the code.
PushStore ==
  /\ pc["writer"] = "store"
  /\ elements' = [elements EXCEPT ![rear] = held["writer"]]
  /\ pc' = [pc EXCEPT !["writer"] = "advance"]
  /\ UNCHANGED <<front, rear, held, counted, out>>

AdvanceTwice ==
  /\ pc["writer"] = "advance"
  /\ rear' = After(After(rear))
  /\ pc' = [pc EXCEPT !["writer"] = "idle"]
  /\ UNCHANGED <<elements, front, held, counted, out>>

PushAdvance ==
  /\ pc["writer"] = "advance"
  /\ rear' = After(rear)
  /\ pc' = [pc EXCEPT !["writer"] = "idle"]
  /\ UNCHANGED <<elements, front, held, counted, out>>

\* The reader calls empty() and, finding an element, copies front().
TakeBegin ==
  /\ pc["reader"] = "idle"
  /\ ~Empty(front, rear)
  /\ pc' = [pc EXCEPT !["reader"] = "load"]
  /\ UNCHANGED <<elements, front, rear, held, counted, out>>

TakeLoad ==
  /\ pc["reader"] = "load"
  /\ held' = [held EXCEPT !["reader"] = elements[front]]
  /\ pc' = [pc EXCEPT !["reader"] = "advance"]
  /\ UNCHANGED <<elements, front, rear, counted, out>>

\* pop()
PopAdvance ==
  /\ pc["reader"] = "advance"
  /\ front' = After(front)
  /\ out' = Append(out, held["reader"])
  /\ pc' = [pc EXCEPT !["reader"] = "idle"]
  /\ UNCHANGED <<elements, rear, held, counted>>

\* count(): the comparison chooses the branch, which reads the positions again.
CountBegin(t) ==
  /\ pc[t] = "idle"
  /\ pc' = [pc EXCEPT ![t] = IF front <= rear THEN "straight" ELSE "wrapped"]
  /\ UNCHANGED <<elements, front, rear, held, counted, out>>

CountEnd(t) ==
  /\ pc[t] \in {"straight", "wrapped"}
  /\ counted' = [counted EXCEPT ![t] =
       (IF pc[t] = "straight" THEN Straight(front, rear) ELSE Wrapped(front, rear)) % Word]
  /\ pc' = [pc EXCEPT ![t] = "idle"]
  /\ UNCHANGED <<elements, front, rear, held, out>>

Reader == TakeBegin \/ TakeLoad \/ PopAdvance \/ CountEnd("reader")
Writer == PushStore \/ PushAdvance \/ CountEnd("writer")

Next ==
  \/ \E v \in Values : PushBegin(v)
  \/ Writer
  \/ Reader
  \/ \E t \in Threads : CountBegin(t)

Spec == Init /\ [][Next]_vars
-----------------------------------------------------------------------------
Ring == Contents(elements, front, rear)

\* SingleQueue is a bounded Fifo: a push takes effect when _rearPos moves, a
\* pop when _frontPos does, whatever the two threads' steps in between.
Abstract == INSTANCE Fifo WITH queue <- Ring, Limit <- Capacity
IsFifo == Abstract!Spec

\* Every slot in use was written by a push, and rear() is the youngest of them.
SlotsWritten ==
  /\ \A n \in DOMAIN Ring : Ring[n] \in Values
  /\ CountOf(front, rear) <= Capacity
  /\ CountOf(front, rear) > 0 => elements[RearSlot(rear)] = Ring[CountOf(front, rear)]

\* While the writer is inside push there is room for its element, and while
\* the reader is inside front or pop the element is there.
AnswersStay ==
  /\ pc["writer"] \in {"store", "advance"} =>
       CountOf(front, rear) < Capacity /\ held["writer"] \in Values
  /\ pc["writer"] = "advance" => elements[rear] = held["writer"]
  /\ pc["reader"] \in {"load", "advance"} => CountOf(front, rear) > 0
  /\ pc["reader"] = "advance" => held["reader"] = elements[front]

\* The answers of full() and empty() do not go stale while a caller acts on
\* them, because only the other thread could make them so and it moves its
\* position the other way; and what is in the ring, rear() included, was pushed.
AnswersKeep == AnswersStay /\ SlotsWritten
=============================================================================
