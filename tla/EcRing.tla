------------------------------- MODULE EcRing -------------------------------
(***************************************************************************)
(* The index arithmetic of ec::SingleQueue (libeventc++11), a ring in an   *)
(* array of one slot more than the capacity asked for.  f and r stand for  *)
(* _frontPos and _rearPos, e for _elements.                                *)
(***************************************************************************)
EXTENDS Integers, Sequences

CONSTANT Capacity  \* the constructor's argument

ASSUME RingAssumption == Capacity \in Nat

Size  == Capacity + 1  \* _capacity
Slots == 0..(Size - 1)

\* The position after p: push and pop move to it.
After(p) == (p + 1) % Size

\* count(), in integers that do not wrap: the two branches of the code
Straight(f, r) == r - f
Wrapped(f, r) == Size + (r - f)
CountOf(f, r) == IF f <= r THEN Straight(f, r) ELSE Wrapped(f, r)

\* empty() and full()
Empty(f, r) == f = r
FullLate(f, r) == CountOf(f, r) > Capacity
Full(f, r) == After(r) = f

\* The slot rear() reads
RearSlotNoWrap(r) == IF r = 0 THEN 0 ELSE r - 1
RearSlot(r) == IF r = 0 THEN Size - 1 ELSE r - 1

\* The n-th slot in use, and the elements in the ring, oldest first
SlotAt(f, n) == IF f + n - 1 < Size THEN f + n - 1 ELSE f + n - 1 - Size
Contents(e, f, r) == [n \in 1..CountOf(f, r) |-> e[SlotAt(f, n)]]
=============================================================================
