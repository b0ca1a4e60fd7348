-------------------------------- MODULE Fifo --------------------------------
(***************************************************************************)
(* What the queues of libeventc++11 and spdlog promise: readers take the   *)
(* values writers put, all of them, once, in the order in which they were  *)
(* put.  Limit bounds what the queue holds.                                *)
(***************************************************************************)
EXTENDS Naturals, Sequences

CONSTANTS Values, Limit

VARIABLES
  queue,  \* put and not yet taken
  out     \* taken, oldest first

Init == queue = <<>> /\ out = <<>>

Put(v) ==
  /\ Len(queue) < Limit
  /\ queue' = Append(queue, v)
  /\ UNCHANGED out

Take ==
  /\ queue # <<>>
  /\ queue' = Tail(queue)
  /\ out' = Append(out, Head(queue))

Next == Take \/ \E v \in Values : Put(v)

Spec == Init /\ [][Next]_<<queue, out>>
=============================================================================
