-------------------------- MODULE EcLoopOrderProofs --------------------------
(***************************************************************************)
(* The loops of EcLoop serve in order, for any loops, external threads,    *)
(* call graph and number of items: what one thread sends to one loop is    *)
(* handled, and answered, in the order in which it was sent.               *)
(***************************************************************************)
EXTENDS EcLoopProofs

\* Two items that one thread sends to one loop through one queue.
Alike(f, i, j) == f[i].by = f[j].by /\ f[i].to = f[j].to /\ f[i].kind = f[j].kind

\* In a queue or a list such items stand in the order in which they were sent.
Sorted(f, s) == \A m, n \in DOMAIN s : m < n /\ Alike(f, s[m], s[n]) => s[m] < s[n]

\* In a queue of a loop, or in the list that was moved from that queue.
InLine(l, k, i) == i \in Range(q[<<l, k>>]) \/ (phase[l] = k /\ i \in Range(moved[l]))

Lined(l) ==
  /\ \A k \in Queues : Sorted(item, q[<<l, k>>])
  /\ Sorted(item, moved[l])
  /\ phase[l] \in Queues =>
       \A i \in Range(moved[l]), j \in Range(q[<<l, phase[l]>>]) : Alike(item, i, j) => i < j

\* The converse of Custody: an item at some stage is with the holder of that stage.
Kept(i) ==
  /\ stage[i] = "called" => calling[item[i].by] = i
  /\ stage[i] = "queued" =>
       InLine(item[i].to, IF item[i].kind = "post" THEN "posts" ELSE "requests", i)
  /\ stage[i] \in {"serving", "served"} => cur[item[i].to] = i
  /\ stage[i] = "replying" => item[i].from \in Loops /\ InLine(item[i].from, "responses", i)
  /\ stage[i] = "replied" => item[i].from \in Loops /\ cur[item[i].from] = i

\* An earlier item has been pushed when a later one has, its handler has returned
\* when that of the later one is called, and so has left the responses when the
\* later one does.
Past(i) == stage[i] \in {"replying", "replied", "done", "dropped", "lost"}
Ahead(i, j) ==
  /\ stage[j] # "called" => stage[i] # "called"
  /\ Reached(j) => Past(i)
  /\ item[i].handler /\ item[j].handler /\ Answered(j) => stage[i] # "replying"

OrderInv ==
  /\ \A i \in Ids : Sent(i) => Kept(i) /\ item[i].from = CurLoop(item[i].by)
  /\ \A l \in Loops : Lined(l)
  /\ \A i, j \in Ids : i < j /\ Sent(j) => Sent(i) /\ (Alike(item, i, j) => Ahead(i, j))
-----------------------------------------------------------------------------
\* A sequence in order stays so when a later item is appended,
LEMMA SortedAppend ==
  ASSUME NEW f, NEW s \in Seq(Ids), NEW i \in Ids, Sorted(f, s),
         \A j \in Range(s) : Alike(f, j, i) => j < i
  PROVE  Sorted(f, Append(s, i))
<1>1. /\ DOMAIN s = 1..Len(s) /\ Len(s) \in Nat
      /\ DOMAIN Append(s, i) = 1..(Len(s) + 1)
      /\ \A n \in 1..Len(s) : Append(s, i)[n] = s[n]
      /\ Append(s, i)[Len(s) + 1] = i
  BY AppendProperties, LenProperties
<1>2. ASSUME NEW m \in 1..(Len(s) + 1), NEW n \in 1..(Len(s) + 1), m < n,
             Alike(f, Append(s, i)[m], Append(s, i)[n])
      PROVE  Append(s, i)[m] < Append(s, i)[n]
  <2>1. m \in 1..Len(s) /\ Append(s, i)[m] = s[m] /\ s[m] \in Range(s)
    BY <1>1, <1>2 DEF Range
  <2>2. CASE n \in 1..Len(s)
    BY <1>1, <1>2, <2>1, <2>2 DEF Sorted
  <2>3. CASE n = Len(s) + 1
    BY <1>1, <1>2, <2>1, <2>3
  <2> QED BY <1>1, <2>2, <2>3
<1> QED BY Zenon, <1>1, <1>2 DEF Sorted

\* and when its first, which is earlier than the rest, is taken;
LEMMA SortedTail ==
  ASSUME NEW f, NEW s \in Seq(Ids), s # <<>>, Sorted(f, s)
  PROVE  /\ Sorted(f, Tail(s))
         /\ \A j \in Range(Tail(s)) : Alike(f, Head(s), j) => Head(s) < j
<1>1. /\ DOMAIN s = 1..Len(s) /\ Len(s) \in Nat \ {0}
      /\ DOMAIN Tail(s) = 1..(Len(s) - 1)
      /\ \A n \in 1..(Len(s) - 1) : Tail(s)[n] = s[n + 1]
      /\ Head(s) = s[1]
  BY HeadTailProperties, LenProperties, EmptySeq
<1>2. ASSUME NEW m \in 1..(Len(s) - 1), NEW n \in 1..(Len(s) - 1), m < n,
             Alike(f, Tail(s)[m], Tail(s)[n])
      PROVE  Tail(s)[m] < Tail(s)[n]
  <2>1. m + 1 \in DOMAIN s /\ n + 1 \in DOMAIN s /\ m + 1 < n + 1
    BY <1>1, <1>2
  <2> QED BY Zenon, <1>1, <1>2, <2>1 DEF Sorted
<1>3. ASSUME NEW j \in Range(Tail(s)), Alike(f, Head(s), j) PROVE Head(s) < j
  <2>1. PICK n \in 1..(Len(s) - 1) : j = s[n + 1]
    BY <1>1 DEF Range
  <2>2. 1 \in DOMAIN s /\ n + 1 \in DOMAIN s /\ 1 < n + 1
    BY <1>1, <2>1
  <2> QED BY Zenon, <1>1, <1>3, <2>1, <2>2 DEF Sorted
<1> QED BY Zenon, <1>1, <1>2, <1>3 DEF Sorted

\* the empty one is in order.
LEMMA SortedEmpty == ASSUME NEW f PROVE Sorted(f, <<>>)
  BY DEF Sorted

\* Whether a sequence is in order depends on what its own items are.
LEMMA SortedSame ==
  ASSUME NEW f, NEW g, NEW s, \A j \in Range(s) : g[j] = f[j], Sorted(f, s)
  PROVE  Sorted(g, s)
<1>1. \A m \in DOMAIN s : s[m] \in Range(s)
  BY DEF Range
<1> QED BY Zenon, <1>1 DEF Sorted, Alike

\* What is in a line was sent.
LEMMA LineIsSent ==
  ASSUME TypeOK, Custody, NEW l \in Loops, NEW k \in Queues, NEW i, InLine(l, k, i)
  PROVE  i \in Ids /\ Belongs(l, k, i)
<1>1. i \in Ids
  BY RangeType DEF InLine
<1>2. CASE i \in Range(q[<<l, k>>])
  BY Zenon, <1>1, <1>2 DEF Custody, QueueCustody
<1>3. CASE phase[l] = k /\ i \in Range(moved[l])
  <2>1. MovedCustody(l)
    BY DEF Custody
  <2>2. Belongs(l, phase[l], i)
    BY Zenon, <1>3, <2>1 DEF MovedCustody
  <2> QED BY <1>1, <1>3, <2>2
<1> QED BY <1>1, <1>2, <1>3 DEF InLine

\* The first of the list is the earliest in the line.
LEMMA FirstInLine ==
  ASSUME TypeOK, Custody, OrderInv, NEW l \in Loops, NEW k \in Queues, phase[l] = k,
         moved[l] # <<>>, NEW i \in Ids, i = Head(moved[l]),
         NEW j \in Ids, j # i, InLine(l, k, j), Alike(item, i, j)
  PROVE  i < j
<1>1. moved[l] \in Seq(Ids) /\ Lined(l)
  BY DEF TypeOK, OrderInv
<1>2. Range(moved[l]) = Range(Tail(moved[l])) \cup {i}
  BY <1>1, RangeTail
<1>3. CASE j \in Range(moved[l])
  BY Zenon, <1>1, <1>2, <1>3, SortedTail DEF Lined
<1>4. CASE j \in Range(q[<<l, k>>])
  BY Zenon, <1>1, <1>2, <1>4 DEF Lined
<1> QED BY <1>3, <1>4 DEF InLine

\* An item that a step does not touch stays with its holder.
LEMMA KeptFrame ==
  ASSUME NEW j \in Ids, Kept(j), item[j] \in Item, stage'[j] = stage[j], item'[j] = item[j],
         \A l \in Loops, k \in Queues : InLine(l, k, j) => InLine(l, k, j)',
         \A t \in Threads : calling[t] = j => calling'[t] = j,
         \A l \in Loops : cur[l] = j => cur'[l] = j
  PROVE  Kept(j)'
<1>1. PICK to \in Loops, k \in Queues, by \in Threads :
        /\ to = item[j].to /\ by = item[j].by
        /\ k = IF item[j].kind = "post" THEN "posts" ELSE "requests"
  BY DEF Item, Queues
<1>2. stage[j] = "queued" => InLine(to, k, j)'
  BY Zenon, <1>1 DEF Kept
<1>3. stage[j] = "called" => calling'[by] = j
  BY Zenon, <1>1 DEF Kept
<1>4. stage[j] \in {"serving", "served"} => cur'[to] = j
  BY Zenon, <1>1 DEF Kept
<1>5. "responses" \in Queues
  BY DEF Queues
<1>6. stage[j] = "replying" => item[j].from \in Loops /\ InLine(item[j].from, "responses", j)'
  <2>1. SUFFICES ASSUME stage[j] = "replying"
                 PROVE  item[j].from \in Loops /\ InLine(item[j].from, "responses", j)'
    OBVIOUS
  <2>2. PICK from \in Loops : from = item[j].from
    BY <2>1 DEF Kept
  <2>3. InLine(from, "responses", j)'
    BY Zenon, <1>5, <2>1, <2>2 DEF Kept
  <2>4. item'[j].from = from
    BY <2>2
  <2> QED BY Zenon, <2>2, <2>3, <2>4 DEF InLine
<1>7. stage[j] = "replied" => item[j].from \in Loops /\ cur'[item[j].from] = j
  BY Zenon DEF Kept
<1> QED BY Zenon, <1>1, <1>2, <1>3, <1>4, <1>6, <1>7 DEF Kept, InLine

\* A step that neither moves nor renames what is in line keeps the lines.
LEMMA LinesStay ==
  ASSUME TypeOK, Custody, OrderInv, UNCHANGED <<phase, q, moved>>,
         \A j \in Ids : stage[j] \in {"queued", "replying"} => item'[j] = item[j],
         NEW l \in Loops
  PROVE  Lined(l)'
<1>1. ASSUME NEW k \in Queues, NEW j, InLine(l, k, j) PROVE item'[j] = item[j]
  BY <1>1, LineIsSent DEF Belongs
<1>2. Lined(l)
  BY DEF OrderInv
<1>3. ASSUME NEW k \in Queues PROVE Sorted(item', q[<<l, k>>])
  <2>1. \A j \in Range(q[<<l, k>>]) : item'[j] = item[j]
    BY <1>1 DEF InLine
  <2> QED BY Zenon, <1>2, <2>1, SortedSame DEF Lined
<1>4. CASE phase[l] \in Queues
  <2>1. \A j \in Range(moved[l]) : item'[j] = item[j]
    BY Zenon, <1>1, <1>4 DEF InLine
  <2>2. \A j \in Range(q[<<l, phase[l]>>]) : item'[j] = item[j]
    BY <1>1, <1>4 DEF InLine
  <2>3. Sorted(item', moved[l])
    BY Zenon, <1>2, <2>1, SortedSame DEF Lined
  <2>4. ASSUME NEW a \in Range(moved[l]), NEW b \in Range(q[<<l, phase[l]>>]), Alike(item', a, b)
        PROVE  a < b
    <3>1. Alike(item, a, b)
      BY Zenon, <2>1, <2>2, <2>4 DEF Alike
    <3> QED BY Zenon, <1>2, <1>4, <3>1 DEF Lined
  <2> QED BY Zenon, <1>3, <1>4, <2>3, <2>4 DEF Lined
<1>5. CASE phase[l] \notin Queues
  <2>1. moved[l] = <<>>
    BY Zenon, <1>5, IdleHands
  <2> QED BY Zenon, <1>3, <1>5, <2>1, SortedEmpty DEF Lined
<1> QED BY <1>4, <1>5

\* The order of the items, when one of them goes from a stage to another.
LEMMA StageKeepsAhead ==
  ASSUME TypeOK, OrderInv, UNCHANGED item, NEW i \in Ids, NEW s,
         stage' = [stage EXCEPT ![i] = s], stage[i] # "none", s \notin {"none", "called"},
         \A x \in Ids : x < i /\ Alike(item, x, i) =>
           /\ stage[x] # "called"
           /\ s # "queued" => Past(x)
           /\ item[x].handler /\ item[i].handler /\ s \in {"replied", "done"} => stage[x] # "replying",
         \A y \in Ids : i < y /\ Alike(item, i, y) /\ Sent(y) =>
           /\ Reached(y) => s \in {"replying", "replied", "done", "dropped", "lost"}
           /\ item[i].handler /\ item[y].handler /\ Answered(y) => s # "replying",
         NEW x \in Ids, NEW y \in Ids, x < y, Sent(y)'
  PROVE  Sent(x)' /\ (Alike(item, x, y)' => Ahead(x, y)')
<1>1. stage'[i] = s /\ \A j \in Ids \ {i} : stage'[j] = stage[j]
  BY DEF TypeOK
<1>2. Sent(y) /\ Sent(x) /\ (Alike(item, x, y) => Ahead(x, y)) /\ ~(x = y) /\ Sent(x)'
  <2>1. ~(x = y)
    BY DEF Ids
  <2>2. Sent(y)
    BY <1>1 DEF Sent
  <2>3. Sent(x)
    BY <2>2 DEF OrderInv
  <2> QED BY <1>1, <2>1, <2>2, <2>3 DEF Sent, OrderInv
<1>3. SUFFICES ASSUME Alike(item, x, y) PROVE Ahead(x, y)'
  BY <1>2 DEF Alike
<1>4. CASE x = i
  BY <1>1, <1>2, <1>3, <1>4 DEF Ahead, Past, Reached, Answered
<1>5. CASE y = i
  BY <1>1, <1>2, <1>3, <1>5 DEF Ahead, Past, Reached, Answered
<1>6. CASE x # i /\ y # i
  BY <1>1, <1>2, <1>3, <1>6 DEF Ahead, Past, Reached, Answered
<1> QED BY <1>4, <1>5, <1>6

\* A call starts with an item later than all others.
LEMMA CallKeepsOrder ==
  ASSUME TypeOK, Custody, OrderInv, NEW t \in Threads, NEW l \in Loops, NEW kind \in Kinds,
         NEW handler \in BOOLEAN, Call(t, l, kind, handler)
  PROVE  OrderInv'
<1>1. PICK i \in Ids :
        /\ stage[i] = "none"
        /\ \A j \in 1..(i-1) : stage[j] # "none"
        /\ item' = [item EXCEPT ![i] = [kind |-> kind, by |-> t, from |-> CurLoop(t),
                                        to |-> l, handler |-> handler]]
        /\ stage' = [stage EXCEPT ![i] = "called"]
        /\ calling' = [calling EXCEPT ![t] = i]
  BY Zenon DEF Call
<1>2. UNCHANGED <<phase, q, moved, cur>> /\ calling[t] = None
  BY DEF Call, UserCode
<1>3. \A j \in Ids \ {i} : stage'[j] = stage[j] /\ item'[j] = item[j]
  BY <1>1 DEF TypeOK
<1>4. stage'[i] = "called" /\ item'[i].by = t /\ item'[i].from = CurLoop(t)
      /\ calling'[t] = i /\ \A u \in Threads \ {t} : calling'[u] = calling[u]
  BY <1>1 DEF TypeOK
<1>5. Kept(i)' /\ (item[i].from = CurLoop(item[i].by))'
  BY <1>4 DEF Kept, CurLoop
<1>6. ASSUME NEW j \in Ids, j # i, Sent(j)' PROVE Kept(j)' /\ (item[j].from = CurLoop(item[j].by))'
  <2>1. stage'[j] = stage[j] /\ item'[j] = item[j] /\ Sent(j)
    BY <1>3, <1>6 DEF Sent
  <2>2. Kept(j) /\ item[j].from = CurLoop(item[j].by) /\ item[j] \in Item
    BY Zenon, <2>1 DEF OrderInv, Custody, Allocated, Sent
  <2>3. j # None
    BY LoopAssumption DEF Ids
  <2>4. \A u \in Threads : calling[u] = j => calling'[u] = j
    BY <1>2, <1>4, <2>3
  <2>5. \A l2 \in Loops, k \in Queues : InLine(l2, k, j) => InLine(l2, k, j)'
    BY Zenon, <1>2 DEF InLine
  <2>6. \A l2 \in Loops : cur[l2] = j => cur'[l2] = j
    BY <1>2
  <2> QED BY Zenon, <2>1, <2>2, <2>4, <2>5, <2>6, KeptFrame DEF CurLoop
<1>7. ASSUME NEW l2 \in Loops PROVE Lined(l2)'
  <2>1. \A j \in Ids : stage[j] \in {"queued", "replying"} => item'[j] = item[j]
    BY <1>1, <1>3
  <2> QED BY Zenon, <1>2, <2>1, LinesStay
<1>8. ASSUME NEW x \in Ids, NEW y \in Ids, x < y, Sent(y)'
      PROVE  Sent(x)' /\ (Alike(item, x, y)' => Ahead(x, y)')
  <2>1. CASE y = i
    <3>1. x \in 1..(i - 1) /\ x # i
      BY <1>8, <2>1 DEF Ids
    <3> QED BY <1>1, <1>3, <1>4, <2>1, <3>1 DEF Sent, Ahead, Reached, Answered
  <2>2. CASE y # i
    <3>1. Sent(y) /\ Sent(x) /\ x # i
      BY <1>1, <1>3, <1>8, <2>2 DEF Sent, OrderInv
    <3>2. Alike(item, x, y) => Ahead(x, y)
      BY <1>8, <3>1 DEF OrderInv
    <3>3. stage'[x] = stage[x] /\ stage'[y] = stage[y] /\ item'[x] = item[x] /\ item'[y] = item[y]
      BY <1>3, <2>2, <3>1
    <3> QED BY <3>1, <3>2, <3>3 DEF Sent, Alike, Ahead, Past, Reached, Answered
  <2> QED BY <2>1, <2>2
<1> QED BY Zenon, <1>5, <1>6, <1>7, <1>8 DEF OrderInv

\* A push at the end of a line in which all alike are earlier.
LEMMA PushKeepsLines ==
  ASSUME TypeOK, Custody, OrderInv, UNCHANGED <<phase, moved, item>>,
         NEW to \in Loops, NEW into \in Queues, NEW i \in Ids,
         q' = [q EXCEPT ![<<to, into>>] = Append(@, i)],
         \A j \in Ids : InLine(to, into, j) /\ Alike(item, j, i) => j < i,
         NEW l \in Loops
  PROVE  /\ Lined(l)'
         /\ \A k \in Queues, j \in Ids : InLine(l, k, j) => InLine(l, k, j)'
         /\ l = to => InLine(l, into, i)'
<1>1. ASSUME NEW k \in Queues
      PROVE  /\ Sorted(item, q'[<<l, k>>])
             /\ Range(q[<<l, k>>]) \subseteq Range(q'[<<l, k>>])
             /\ l = to /\ k = into => Range(q'[<<l, k>>]) = Range(q[<<l, k>>]) \cup {i}
             /\ ~(l = to /\ k = into) => q'[<<l, k>>] = q[<<l, k>>]
  <2>1. q[<<l, k>>] \in Seq(Ids) /\ Sorted(item, q[<<l, k>>]) /\ Range(q[<<l, k>>]) \subseteq Ids
    BY Zenon, RangeType DEF TypeOK, OrderInv, Lined
  <2>2. CASE l = to /\ k = into
    <3>1. q'[<<l, k>>] = Append(q[<<l, k>>], i)
      <4>1. <<to, into>> \in DOMAIN q
        BY DEF TypeOK
      <4> QED BY <2>2, <4>1
    <3>2. \A j \in Range(q[<<l, k>>]) : Alike(item, j, i) => j < i
      BY Zenon, <2>1, <2>2 DEF InLine
    <3>3. Sorted(item, Append(q[<<l, k>>], i))
      BY <2>1, <3>2, SortedAppend
    <3>4. Range(Append(q[<<l, k>>], i)) = Range(q[<<l, k>>]) \cup {i}
      BY <2>1, RangeAppend
    <3> QED BY Zenon, <2>2, <3>1, <3>3, <3>4
  <2>3. CASE ~(l = to /\ k = into)
    <3>1. q'[<<l, k>>] = q[<<l, k>>]
      BY <2>3 DEF TypeOK
    <3> QED BY Zenon, <2>1, <2>3, <3>1
  <2> QED BY Zenon, <2>2, <2>3
<1>2. ASSUME phase[l] \in Queues, NEW m \in Range(moved[l]), NEW j \in Range(q'[<<l, phase[l]>>]),
             Alike(item, m, j)
      PROVE  m < j
  <2>1. PICK k \in Queues : k = phase[l]
    BY <1>2
  <2>2. m \in Ids /\ InLine(l, k, m)
    BY Zenon, <1>2, <2>1, RangeType DEF InLine
  <2>3. CASE j \in Range(q[<<l, k>>])
    BY Zenon, <1>2, <2>1, <2>3 DEF OrderInv, Lined
  <2>4. CASE j \notin Range(q[<<l, k>>])
    <3>1. j \in Range(q'[<<l, k>>])
      BY Zenon, <1>2, <2>1
    <3>2. l = to /\ k = into
      BY Zenon, <1>1, <2>4, <3>1
    <3>3. Range(q'[<<l, k>>]) = Range(q[<<l, k>>]) \cup {i}
      BY Zenon, <1>1, <3>2
    <3>4. j = i
      BY Zenon, <2>4, <3>1, <3>3
    <3> QED BY Zenon, <1>2, <2>2, <3>2, <3>4
  <2> QED BY <2>3, <2>4
<1>3. Lined(l)'
  <2>1. Sorted(item, moved[l])
    BY Zenon DEF OrderInv, Lined
  <2> QED BY Zenon, <1>1, <1>2, <2>1 DEF Lined
<1>4. ASSUME NEW k \in Queues, NEW j \in Ids, InLine(l, k, j) PROVE InLine(l, k, j)'
  BY Zenon, <1>1, <1>4 DEF InLine
<1>5. l = to => InLine(l, into, i)'
  BY Zenon, <1>1 DEF InLine
<1> QED BY Zenon, <1>3, <1>4, <1>5

\* A thread that pushes has pushed what it sent before.
LEMMA PushCallKeepsOrder ==
  ASSUME TypeOK, Custody, OrderInv, NEW t \in Threads, PushCall(t)
  PROVE  OrderInv'
<1>1. PICK i \in Ids : i = calling[t]
  BY DEF TypeOK, PushCall
<1>2. stage[i] = "called" /\ item[i].by = t /\ item[i] \in Item
  BY <1>1, LoopAssumption DEF Custody, CallCustody, Allocated, Ids
<1>3. PICK to \in Loops, into \in Queues :
        /\ to = item[i].to
        /\ into = IF item[i].kind = "post" THEN "posts" ELSE "requests"
  BY <1>2 DEF Item, Queues
<1>4. /\ q' = [q EXCEPT ![<<to, into>>] = Append(@, i)]
      /\ stage' = [stage EXCEPT ![i] = "queued"]
      /\ calling' = [calling EXCEPT ![t] = None]
      /\ UNCHANGED <<phase, moved, cur, item>>
  BY <1>1, <1>3 DEF PushCall, Push
<1>5. /\ stage'[i] = "queued" /\ \A j \in Ids \ {i} : stage'[j] = stage[j]
      /\ \A u \in Threads \ {t} : calling'[u] = calling[u]
  BY <1>4 DEF TypeOK
<1>6. ASSUME NEW j \in Ids, Alike(item, j, i), stage[j] \in {"queued", "replying"} PROVE j < i
  <2>1. Sent(j) /\ stage[j] # "called" /\ j # i
    BY <1>2, <1>6 DEF Sent
  <2>2. ~(i < j)
    <3>1. Alike(item, i, j)
      BY <1>6 DEF Alike
    <3> QED BY Zenon, <1>2, <2>1, <3>1 DEF OrderInv, Ahead
  <2> QED BY <2>1, <2>2 DEF Ids
<1>7. \A j \in Ids : InLine(to, into, j) /\ Alike(item, j, i) => j < i
  BY <1>6, LineIsSent DEF Belongs
<1>8. ASSUME NEW l \in Loops
      PROVE  /\ Lined(l)'
             /\ \A k \in Queues, j \in Ids : InLine(l, k, j) => InLine(l, k, j)'
             /\ l = to => InLine(l, into, i)'
  BY Zenon, <1>4, <1>7, PushKeepsLines
<1>9. ASSUME NEW j \in Ids, Sent(j)' PROVE Kept(j)' /\ (item[j].from = CurLoop(item[j].by))'
  <2>1. Sent(j) /\ item'[j] = item[j]
    BY <1>2, <1>4, <1>5, <1>9 DEF Sent
  <2>2. Kept(j) /\ item[j].from = CurLoop(item[j].by) /\ item[j] \in Item
    BY Zenon, <2>1 DEF OrderInv, Custody, Allocated, Sent
  <2>3. (item[j].from = CurLoop(item[j].by))'
    BY <2>1, <2>2 DEF CurLoop
  <2>4. CASE j = i
    <3>1. InLine(to, into, i)'
      BY Zenon, <1>8
    <3>2. stage'[j] = "queued" /\ item'[j].to = to
          /\ into = IF item'[j].kind = "post" THEN "posts" ELSE "requests"
      BY <1>3, <1>5, <2>1, <2>4
    <3>3. Kept(j)'
      BY Zenon, <2>4, <3>1, <3>2 DEF Kept, InLine
    <3> QED BY <2>3, <3>3
  <2>5. CASE j # i
    <3>1. \A u \in Threads : calling[u] = j => calling'[u] = j
      BY <1>1, <1>5, <2>5
    <3>2. stage'[j] = stage[j] /\ \A l \in Loops : cur[l] = j => cur'[l] = j
      BY <1>4, <1>5, <2>5
    <3>3. Kept(j)'
      BY Zenon, <1>8, <2>1, <2>2, <3>1, <3>2, KeptFrame
    <3> QED BY <2>3, <3>3
  <2> QED BY <2>4, <2>5
<1>10. ASSUME NEW x \in Ids, x < i, Alike(item, x, i) PROVE stage[x] # "called"
  <2>1. SUFFICES ASSUME stage[x] = "called" PROVE FALSE
    OBVIOUS
  <2>2. calling[t] = x
    BY Zenon, <1>2, <1>10, <2>1 DEF OrderInv, Kept, Sent, Alike
  <2> QED BY <1>1, <1>10, <2>2 DEF Ids
<1>11. ASSUME NEW y \in Ids, i < y, Alike(item, i, y), Sent(y) PROVE ~Reached(y) /\ ~Answered(y)
  <2>1. Ahead(i, y)
    BY <1>11 DEF OrderInv
  <2> QED BY <1>2, <2>1 DEF Ahead, Past, Reached, Answered
<1>12. ASSUME NEW x \in Ids, NEW y \in Ids, x < y, Sent(y)'
       PROVE  Sent(x)' /\ (Alike(item, x, y)' => Ahead(x, y)')
  BY ZenonT(60), <1>2, <1>4, <1>10, <1>11, <1>12, StageKeepsAhead
<1> QED BY Zenon, <1>8, <1>9, <1>12 DEF OrderInv

\* The end of a handler: what is in hand was the latest of its kind to be served.
LEMMA DoneKeepsOrder ==
  ASSUME TypeOK, Custody, OrderInv, NEW l \in Loops, cur[l] # None,
         NEW s \in {"served", "done", "dropped", "lost"},
         UNCHANGED <<phase, q, moved, calling, item>>,
         stage' = [stage EXCEPT ![cur[l]] = s],
         IF s = "served" THEN cur' = cur /\ phase[l] = "requests"
                         ELSE cur' = [cur EXCEPT ![l] = None],
         phase[l] = "responses" => s = "done",
         s = "done" /\ item[cur[l]].handler /\ item[cur[l]].from \in Loops => phase[l] = "responses"
  PROVE  OrderInv'
<1>1. PICK i \in Ids : i = cur[l]
  BY DEF TypeOK
<1>2. /\ stage[i] \in {"serving", "served", "replied"}
      /\ stage[i] = "replied" <=> phase[l] = "responses"
      /\ stage[i] # "replied" => item[i].to = l
  BY <1>1 DEF Custody, CurCustody
<1>3. /\ stage'[i] = s /\ \A j \in Ids \ {i} : stage'[j] = stage[j]
      /\ \A l2 \in Loops \ {l} : cur'[l2] = cur[l2]
      /\ s = "served" => cur'[l] = i
  BY <1>1 DEF TypeOK
<1>4. ASSUME NEW j \in Ids, Sent(j)' PROVE Kept(j)' /\ (item[j].from = CurLoop(item[j].by))'
  <2>1. Sent(j) /\ item'[j] = item[j]
    BY <1>2, <1>3, <1>4 DEF Sent
  <2>2. Kept(j) /\ item[j].from = CurLoop(item[j].by) /\ item[j] \in Item
    BY Zenon, <2>1 DEF OrderInv, Custody, Allocated, Sent
  <2>3. (item[j].from = CurLoop(item[j].by))'
    BY <2>1, <2>2 DEF CurLoop
  <2>4. CASE j = i
    <3>1. CASE s = "served"
      BY <1>2, <1>3, <2>1, <2>3, <2>4, <3>1 DEF Kept
    <3>2. CASE s # "served"
      BY <1>3, <2>3, <2>4, <3>2 DEF Kept
    <3> QED BY <3>1, <3>2
  <2>5. CASE j # i
    <3>1. stage'[j] = stage[j] /\ \A l2 \in Loops : cur[l2] = j => cur'[l2] = j
      BY <1>1, <1>3, <2>5
    <3>2. \A l2 \in Loops, k \in Queues : InLine(l2, k, j) => InLine(l2, k, j)'
      BY Zenon DEF InLine
    <3>3. Kept(j)'
      BY Zenon, <2>1, <2>2, <3>1, <3>2, KeptFrame
    <3> QED BY <2>3, <3>3
  <2> QED BY <2>4, <2>5
<1>5. ASSUME NEW l2 \in Loops PROVE Lined(l2)'
  BY Zenon, LinesStay
<1>6. ASSUME NEW x \in Ids, x < i, Alike(item, x, i)
      PROVE  /\ stage[x] # "called"
             /\ Past(x)
             /\ item[x].handler /\ item[i].handler /\ s \in {"replied", "done"} => stage[x] # "replying"
  <2>1. Sent(x) /\ Ahead(x, i) /\ Reached(i) /\ Sent(i)
    BY <1>2, <1>6 DEF OrderInv, Sent, Reached
  <2>2. Past(x) /\ stage[x] # "called"
    BY <2>1 DEF Ahead, Past
  <2>3. ASSUME item[x].handler, item[i].handler, s = "done", stage[x] = "replying" PROVE FALSE
    <3>1. item[x].from \in Loops /\ item[x].from = item[i].from
      <4>1. item[x].from = CurLoop(item[x].by) /\ item[i].from = CurLoop(item[i].by) /\ Kept(x)
        BY Zenon, <2>1 DEF OrderInv
      <4> QED BY Zenon, <1>6, <2>3, <4>1 DEF Kept, Alike
    <3>2. Answered(i)
      BY <1>1, <1>2, <2>3, <3>1 DEF Answered
    <3> QED BY <2>1, <2>3, <3>2 DEF Ahead
  <2> QED BY <2>2, <2>3
<1>7. ASSUME NEW y \in Ids, i < y, Alike(item, i, y), Sent(y)
      PROVE  /\ Reached(y) => s \in {"replying", "replied", "done", "dropped", "lost"}
             /\ item[i].handler /\ item[y].handler /\ Answered(y) => s # "replying"
  <2>1. Ahead(i, y)
    BY <1>7 DEF OrderInv
  <2> QED BY <1>2, <2>1 DEF Ahead, Past
<1>8. ASSUME NEW x \in Ids, NEW y \in Ids, x < y, Sent(y)'
      PROVE  Sent(x)' /\ (Alike(item, x, y)' => Ahead(x, y)')
  <2>1. stage' = [stage EXCEPT ![i] = s] /\ stage[i] # "none" /\ s \notin {"none", "called"}
    BY <1>1, <1>2
  <2> QED BY Zenon, <1>6, <1>7, <1>8, <2>1, StageKeepsAhead
<1> QED BY Zenon, <1>4, <1>5, <1>8 DEF OrderInv

\* A response is pushed behind those to the calls before it.
LEMMA PushResponseKeepsOrder ==
  ASSUME TypeOK, Custody, OrderInv, NEW l \in Loops, PushResponse(l)
  PROVE  OrderInv'
<1>1. PICK i \in Ids : i = cur[l]
  BY ZenonT(60) DEF TypeOK, PushResponse
<1>2. /\ stage[i] = "served" /\ item[i].from \in Loops /\ phase[l] = "requests"
      /\ cur' = [cur EXCEPT ![l] = None] /\ cur[l] # None
  BY <1>1 DEF PushResponse, Custody, CurCustody
<1>3. CASE item[i].from \notin registered
  <2>1. /\ stage' = [stage EXCEPT ![cur[l]] = "lost"]
        /\ UNCHANGED <<phase, q, moved, calling, item>>
    BY <1>1, <1>3 DEF PushResponse
  <2> QED BY Zenon, <1>2, <2>1, DoneKeepsOrder
<1>4. CASE item[i].from \in registered
  <2>1. PICK to \in Loops : to = item[i].from
    BY <1>2
  <2>2. /\ q' = [q EXCEPT ![<<to, "responses">>] = Append(@, i)]
        /\ stage' = [stage EXCEPT ![i] = "replying"]
        /\ UNCHANGED <<phase, moved, calling, item>>
    BY ZenonT(60), <1>1, <1>4, <2>1 DEF PushResponse, Push
  <2>3. /\ stage'[i] = "replying" /\ \A j \in Ids \ {i} : stage'[j] = stage[j]
        /\ \A l2 \in Loops \ {l} : cur'[l2] = cur[l2]
    BY <1>2, <2>2 DEF TypeOK
  <2>4. "responses" \in Queues
    BY DEF Queues
  <2>5. ASSUME NEW j \in Ids, Alike(item, j, i), stage[j] = "replying" PROVE j < i
    <3>1. Sent(j) /\ Reached(j) /\ j # i
      BY <1>2, <2>5 DEF Sent, Reached
    <3>2. ~(i < j)
      <4>1. Alike(item, i, j) /\ ~Past(i)
        BY <1>2, <2>5 DEF Alike, Past
      <4> QED BY Zenon, <3>1, <4>1 DEF OrderInv, Ahead
    <3> QED BY <3>1, <3>2 DEF Ids
  <2>6. \A j \in Ids : InLine(to, "responses", j) /\ Alike(item, j, i) => j < i
    BY <2>4, <2>5, LineIsSent DEF Belongs
  <2>7. ASSUME NEW l2 \in Loops
        PROVE  /\ Lined(l2)'
               /\ \A k \in Queues, j \in Ids : InLine(l2, k, j) => InLine(l2, k, j)'
               /\ l2 = to => InLine(l2, "responses", i)'
    BY Zenon, <2>2, <2>4, <2>6, PushKeepsLines
  <2>8. ASSUME NEW j \in Ids, Sent(j)' PROVE Kept(j)' /\ (item[j].from = CurLoop(item[j].by))'
    <3>1. Sent(j) /\ item'[j] = item[j]
      BY <1>2, <2>2, <2>3, <2>8 DEF Sent
    <3>2. Kept(j) /\ item[j].from = CurLoop(item[j].by) /\ item[j] \in Item
      BY Zenon, <3>1 DEF OrderInv, Custody, Allocated, Sent
    <3>3. (item[j].from = CurLoop(item[j].by))'
      BY <3>1, <3>2 DEF CurLoop
    <3>4. CASE j = i
      <4>1. InLine(to, "responses", i)'
        BY Zenon, <2>7
      <4>2. stage'[j] = "replying" /\ item'[j].from = to
        BY <2>1, <2>3, <3>1, <3>4
      <4>3. Kept(j)'
        BY Zenon, <3>4, <4>1, <4>2 DEF Kept, InLine
      <4> QED BY <3>3, <4>3
    <3>5. CASE j # i
      <4>1. stage'[j] = stage[j] /\ \A l2 \in Loops : cur[l2] = j => cur'[l2] = j
        BY <1>1, <2>3, <3>5
      <4>2. \A u \in Threads : calling[u] = j => calling'[u] = j
        BY <2>2
      <4>3. Kept(j)'
        BY Zenon, <2>7, <3>1, <3>2, <4>1, <4>2, KeptFrame
      <4> QED BY <3>3, <4>3
    <3> QED BY <3>4, <3>5
  <2>9. ASSUME NEW x \in Ids, x < i, Alike(item, x, i) PROVE stage[x] # "called" /\ Past(x)
    <3>1. Ahead(x, i) /\ Reached(i)
      BY <1>2, <2>9 DEF OrderInv, Sent, Reached
    <3> QED BY <3>1 DEF Ahead, Past
  <2>10. ASSUME NEW y \in Ids, i < y, Alike(item, i, y), Sent(y) PROVE ~Reached(y) /\ ~Answered(y)
    <3>1. Ahead(i, y)
      BY <2>10 DEF OrderInv
    <3> QED BY <1>2, <3>1 DEF Ahead, Past, Reached, Answered
  <2>11. ASSUME NEW x \in Ids, NEW y \in Ids, x < y, Sent(y)'
         PROVE  Sent(x)' /\ (Alike(item, x, y)' => Ahead(x, y)')
    <3>1. PICK s \in {"replying"} : stage' = [stage EXCEPT ![i] = s]
      BY <2>2
    <3>2. stage[i] # "none" /\ s \notin {"none", "called"} /\ s \notin {"replied", "done"}
          /\ s \in {"replying", "replied", "done", "dropped", "lost"}
      BY <1>2, <3>1
    <3> QED BY Zenon, <2>2, <2>9, <2>10, <2>11, <3>1, <3>2, StageKeepsAhead
  <2> QED BY Zenon, <2>7, <2>8, <2>11 DEF OrderInv
<1> QED BY <1>3, <1>4

\* frameHandler takes the earliest of its list into its hands, which are empty.
LEMMA TakeKeepsOrder ==
  ASSUME TypeOK, Custody, OrderInv, NEW l \in Loops, NEW k \in Queues, phase[l] = k,
         cur[l] = None, moved[l] # <<>>, NEW s,
         IF k = "responses" THEN s = "replied" ELSE s = "serving",
         cur' = [cur EXCEPT ![l] = Head(moved[l])],
         moved' = [moved EXCEPT ![l] = Tail(@)],
         stage' = [stage EXCEPT ![Head(moved[l])] = s],
         UNCHANGED <<phase, q, calling, item>>
  PROVE  OrderInv'
<1>1. moved[l] \in Seq(Ids) /\ Lined(l)
  BY DEF TypeOK, OrderInv
<1>2. PICK i \in Ids : i = Head(moved[l])
  BY Zenon, <1>1, HeadTailProperties
<1>3. /\ Range(moved[l]) = Range(Tail(moved[l])) \cup {i}
      /\ Sorted(item, Tail(moved[l]))
  BY Zenon, <1>1, <1>2, RangeTail, SortedTail DEF Lined
<1>4. InLine(l, k, i) /\ Belongs(l, k, i)
  BY Zenon, <1>3, LineIsSent DEF InLine
<1>5. /\ stage'[i] = s /\ \A j \in Ids \ {i} : stage'[j] = stage[j]
      /\ cur'[l] = i /\ \A l2 \in Loops \ {l} : cur'[l2] = cur[l2]
      /\ moved'[l] = Tail(moved[l]) /\ \A l2 \in Loops \ {l} : moved'[l2] = moved[l2]
      /\ stage' = [stage EXCEPT ![i] = s]
  BY <1>2 DEF TypeOK
<1>6. /\ Sent(i) /\ s \in {"serving", "replied"}
      /\ k = "responses" => stage[i] = "replying" /\ item[i].from = l /\ s = "replied"
      /\ k # "responses" => /\ stage[i] = "queued" /\ item[i].to = l /\ s = "serving"
                            /\ k = IF item[i].kind = "post" THEN "posts" ELSE "requests"
  BY <1>4 DEF Belongs, Sent
<1>7. ASSUME NEW j \in Ids, Sent(j)' PROVE Kept(j)' /\ (item[j].from = CurLoop(item[j].by))'
  <2>1. Sent(j) /\ item'[j] = item[j]
    BY <1>5, <1>6, <1>7 DEF Sent
  <2>2. Kept(j) /\ item[j].from = CurLoop(item[j].by) /\ item[j] \in Item
    BY Zenon, <2>1 DEF OrderInv, Custody, Allocated, Sent
  <2>3. (item[j].from = CurLoop(item[j].by))'
    BY <2>1, <2>2 DEF CurLoop
  <2>4. CASE j = i
    <3>1. Kept(j)'
      BY <1>5, <1>6, <2>1, <2>4 DEF Kept
    <3> QED BY <2>3, <3>1
  <2>5. CASE j # i
    <3>1. j # None
      BY LoopAssumption DEF Ids
    <3>2. stage'[j] = stage[j] /\ \A l2 \in Loops : cur[l2] = j => cur'[l2] = j
      BY <1>5, <2>5, <3>1
    <3>3. ASSUME NEW l2 \in Loops, NEW k2 \in Queues, InLine(l2, k2, j) PROVE InLine(l2, k2, j)'
      <4>1. j \in Range(moved[l2]) => j \in Range(moved'[l2])
        BY Zenon, <1>3, <1>5, <2>5
      <4> QED BY Zenon, <3>3, <4>1 DEF InLine
    <3>4. \A u \in Threads : calling[u] = j => calling'[u] = j
      OBVIOUS
    <3>5. Kept(j)'
      BY Zenon, <2>1, <2>2, <3>2, <3>3, <3>4, KeptFrame
    <3> QED BY <2>3, <3>5
  <2> QED BY <2>4, <2>5
<1>8. ASSUME NEW l2 \in Loops PROVE Lined(l2)'
  <2>1. Lined(l2)
    BY DEF OrderInv
  <2>2. Sorted(item, moved'[l2]) /\ Range(moved'[l2]) \subseteq Range(moved[l2])
    <3>1. CASE l2 = l
      BY Zenon, <1>3, <1>5, <3>1
    <3>2. CASE l2 # l
      BY Zenon, <1>5, <2>1, <3>2 DEF Lined
    <3> QED BY <3>1, <3>2
  <2> QED BY Zenon, <2>1, <2>2 DEF Lined
<1>9. ASSUME NEW x \in Ids, x < i, Alike(item, x, i)
      PROVE  /\ stage[x] # "called"
             /\ Past(x)
             /\ item[x].handler /\ item[i].handler /\ s \in {"replied", "done"} => stage[x] # "replying"
  <2>1. Sent(x) /\ Ahead(x, i) /\ x # i /\ Kept(x) /\ Alike(item, i, x)
    BY <1>6, <1>9 DEF OrderInv, Alike, Ids
  <2>2. /\ item[x].from = item[i].from /\ item[x].to = item[i].to /\ item[x].kind = item[i].kind
        /\ item[x] \in Item
    <3>1. item[x].from = CurLoop(item[x].by) /\ item[i].from = CurLoop(item[i].by)
      BY Zenon, <1>6, <2>1 DEF OrderInv
    <3> QED BY Zenon, <1>9, <2>1, <3>1 DEF Alike, Custody, Allocated, Sent
  <2>3. ~InLine(l, k, x)
    <3>1. InLine(l, k, x) => i < x
      BY Zenon, <1>2, <2>1, FirstInLine
    <3> QED BY <1>9, <3>1 DEF Ids
  <2>4. stage[x] # "called"
    BY <1>6, <2>1 DEF Ahead
  <2>5. CASE k = "responses"
    <3>1. Past(x)
      BY <1>6, <2>1, <2>5 DEF Ahead, Reached
    <3>2. stage[x] # "replying"
      BY Zenon, <1>6, <2>1, <2>2, <2>3, <2>5 DEF Kept
    <3> QED BY <2>4, <3>1, <3>2
  <2>6. CASE k # "responses"
    <3>1. stage[x] # "queued"
      BY Zenon, <1>6, <2>1, <2>2, <2>3, <2>6 DEF Kept
    <3>2. stage[x] \notin {"serving", "served"}
      <4>1. x # None
        BY LoopAssumption DEF Ids
      <4> QED BY Zenon, <1>6, <2>1, <2>2, <2>6, <4>1 DEF Kept
    <3>3. Past(x)
      BY <2>1, <2>4, <3>1, <3>2 DEF Past, Sent, TypeOK, Stages
    <3> QED BY <1>6, <2>4, <2>6, <3>3
  <2> QED BY <2>5, <2>6
<1>10. ASSUME NEW y \in Ids, i < y, Alike(item, i, y), Sent(y)
       PROVE  /\ Reached(y) => s \in {"replying", "replied", "done", "dropped", "lost"}
              /\ item[i].handler /\ item[y].handler /\ Answered(y) => s # "replying"
  <2>1. Ahead(i, y)
    BY <1>10 DEF OrderInv
  <2> QED BY <1>6, <2>1 DEF Ahead, Past
<1>11. ASSUME NEW x \in Ids, NEW y \in Ids, x < y, Sent(y)'
       PROVE  Sent(x)' /\ (Alike(item, x, y)' => Ahead(x, y)')
  <2>1. stage[i] # "none" /\ s \notin {"none", "called"}
    BY <1>6 DEF Sent
  <2>2. stage' = [stage EXCEPT ![i] = s]
    BY <1>2
  <2> QED BY ZenonT(60), <1>9, <1>10, <1>11, <2>1, <2>2, StageKeepsAhead
<1> QED BY Zenon, <1>7, <1>8, <1>11 DEF OrderInv

\* The steps that change no item's stage: the order is kept if the lines are.
LEMMA MoveKeepsOrder ==
  ASSUME TypeOK, Custody, OrderInv, UNCHANGED <<cur, calling, item, stage>>,
         \A l \in Loops : Lined(l)',
         \A l \in Loops, k \in Queues, j \in Ids : InLine(l, k, j) => InLine(l, k, j)'
  PROVE  OrderInv'
<1>1. ASSUME NEW j \in Ids, Sent(j)' PROVE Kept(j)' /\ (item[j].from = CurLoop(item[j].by))'
  <2>1. Sent(j)
    BY <1>1 DEF Sent
  <2>2. Kept(j) /\ item[j].from = CurLoop(item[j].by) /\ item[j] \in Item
    BY Zenon, <2>1 DEF OrderInv, Custody, Allocated, Sent
  <2>3. (item[j].from = CurLoop(item[j].by))'
    BY <2>2 DEF CurLoop
  <2>4. Kept(j)'
    BY Zenon, <2>2, KeptFrame
  <2> QED BY <2>3, <2>4
<1>2. ASSUME NEW x \in Ids, NEW y \in Ids, x < y, Sent(y)'
      PROVE  Sent(x)' /\ (Alike(item, x, y)' => Ahead(x, y)')
  <2>1. Sent(y) /\ Sent(x) /\ (Alike(item, x, y) => Ahead(x, y))
    BY Zenon, <1>2 DEF OrderInv, Sent
  <2> QED BY Zenon, <2>1 DEF Sent, Alike, Ahead, Past, Reached, Answered
<1> QED BY Zenon, <1>1, <1>2 DEF OrderInv

\* frameHandler takes a whole queue, in its order.
LEMMA MoveAllKeepsOrder ==
  ASSUME TypeOK, Custody, OrderInv, NEW l \in Loops, NEW k \in Queues, MoveAll(l, k),
         phase' = [phase EXCEPT ![l] = k], moved[l] = <<>>,
         UNCHANGED <<cur, calling, item, stage>>
  PROVE  OrderInv'
<1>1. /\ q'[<<l, k>>] = <<>> /\ moved'[l] = q[<<l, k>>] /\ phase'[l] = k
      /\ \A l2 \in Loops \ {l} : moved'[l2] = moved[l2] /\ phase'[l2] = phase[l2]
      /\ \A l2 \in Loops, k2 \in Queues : l2 # l \/ k2 # k => q'[<<l2, k2>>] = q[<<l2, k2>>]
  BY DEF TypeOK, MoveAll
<1>2. ASSUME NEW l2 \in Loops PROVE Lined(l2)'
  <2>1. Lined(l2)
    BY DEF OrderInv
  <2>2. ASSUME NEW k2 \in Queues PROVE Sorted(item, q'[<<l2, k2>>])
    <3>1. CASE l2 = l /\ k2 = k
      BY Zenon, <1>1, <3>1, SortedEmpty
    <3>2. CASE l2 # l \/ k2 # k
      BY Zenon, <1>1, <2>1, <3>2 DEF Lined
    <3> QED BY <3>1, <3>2
  <2>3. CASE l2 = l
    <3>1. Sorted(item, moved'[l2])
      BY Zenon, <1>1, <2>1, <2>3 DEF Lined
    <3>2. Range(q'[<<l2, phase'[l2]>>]) = {}
      BY Zenon, <1>1, <2>3, EmptyRange
    <3> QED BY Zenon, <2>2, <3>1, <3>2 DEF Lined
  <2>4. CASE l2 # l
    <3>1. moved'[l2] = moved[l2] /\ phase'[l2] = phase[l2]
      BY <1>1, <2>4
    <3>2. phase[l2] \in Queues => q'[<<l2, phase[l2]>>] = q[<<l2, phase[l2]>>]
      BY Zenon, <1>1, <2>4
    <3> QED BY Zenon, <2>1, <2>2, <3>1, <3>2 DEF Lined
  <2> QED BY <2>3, <2>4
<1>3. ASSUME NEW l2 \in Loops, NEW k2 \in Queues, NEW j \in Ids, InLine(l2, k2, j)
      PROVE  InLine(l2, k2, j)'
  <2>1. CASE l2 = l
    <3>1. j \in Range(q[<<l, k2>>])
      BY Zenon, <1>3, <2>1, EmptyRange DEF InLine
    <3>2. CASE k2 = k
      BY Zenon, <1>1, <2>1, <3>1, <3>2 DEF InLine
    <3>3. CASE k2 # k
      BY Zenon, <1>1, <2>1, <3>1, <3>3 DEF InLine
    <3> QED BY <3>2, <3>3
  <2>2. CASE l2 # l
    BY Zenon, <1>1, <1>3, <2>2 DEF InLine
  <2> QED BY <2>1, <2>2
<1> QED BY Zenon, <1>2, <1>3, MoveKeepsOrder

\* A step that moves no item, by threads whose hands are empty.
LEMMA QuietKeepsOrder ==
  ASSUME TypeOK, Custody, OrderInv, UNCHANGED <<q, moved, cur, calling, item, stage>>,
         \A l \in Loops :
           \/ phase'[l] = phase[l]
           \/ moved[l] = <<>> /\ phase'[l] \notin Queues
  PROVE  OrderInv'
<1>1. ASSUME NEW l \in Loops PROVE Lined(l)'
  <2>1. Lined(l)
    BY DEF OrderInv
  <2>2. CASE phase'[l] = phase[l]
    BY Zenon, <2>1, <2>2 DEF Lined
  <2>3. CASE moved[l] = <<>> /\ phase'[l] \notin Queues
    BY Zenon, <2>1, <2>3 DEF Lined
  <2> QED BY <2>2, <2>3
<1>2. ASSUME NEW l \in Loops, NEW k \in Queues, NEW j \in Ids, InLine(l, k, j)
      PROVE  InLine(l, k, j)'
  BY Zenon, <1>2, EmptyRange DEF InLine
<1> QED BY Zenon, <1>1, <1>2, MoveKeepsOrder

\* The items are in order in every reachable state.
LEMMA OrderInvHolds == Spec => []OrderInv
<1>1. Init => OrderInv
  <2> SUFFICES ASSUME Init PROVE OrderInv
    OBVIOUS
  <2>1. \A i \in Ids : ~Sent(i)
    BY DEF Init, Sent
  <2>2. \A l \in Loops : Lined(l)
    BY EmptyRange, SortedEmpty DEF Init, Lined, Queues
  <2> QED BY Zenon, <2>1, <2>2 DEF OrderInv
<1>2. TypeOK /\ Custody /\ OrderInv /\ [Next]_vars => OrderInv'
  <2> SUFFICES ASSUME TypeOK, Custody, OrderInv, [Next]_vars PROVE OrderInv'
    OBVIOUS
  <2>1. ASSUME NEW t \in Threads, NEW l \in Loops, NEW kind \in Kinds,
               NEW handler \in BOOLEAN, Call(t, l, kind, handler)
        PROVE  OrderInv'
    BY <2>1, CallKeepsOrder
  <2>2. ASSUME NEW t \in Threads, PushCall(t) PROVE OrderInv'
    BY <2>2, PushCallKeepsOrder
  <2>3. ASSUME NEW t \in Threads, NEW l \in Loops, StopPending(t, l) \/ StopNow(t, l)
        PROVE  OrderInv'
    BY <2>3, QuietKeepsOrder DEF StopPending, StopNow
  <2>4. ASSUME NEW l \in Loops,
               \/ Start(l) \/ Destroy(l) \/ EnterLoop(l) \/ LeaveLoop(l) \/ Finish(l)
               \/ FrameHandlers(l) \/ FrameEnd(l)
        PROVE  OrderInv'
    <3>1. UNCHANGED <<q, moved, cur, calling, item, stage>>
      BY ZenonT(60), <2>4 DEF Start, Destroy, EnterLoop, LeaveLoop, Finish, FrameHandlers, FrameEnd
    <3>2. \/ UNCHANGED phase
          \/ /\ \A k \in Loops \ {l} : phase'[k] = phase[k]
             /\ phase'[l] \notin Queues
             /\ phase[l] \in Queues => moved[l] = <<>> /\ cur[l] = None
      BY <2>4 DEF TypeOK, Queues, Start, Destroy, EnterLoop, LeaveLoop, Finish,
                  FrameHandlers, FrameEnd
    <3> QED BY Zenon, <3>1, <3>2, IdleHands, QuietKeepsOrder
  <2>5. ASSUME NEW l \in Loops, FrameBegin(l) PROVE OrderInv'
    <3>1. moved[l] = <<>> /\ "posts" \in Queues
      BY <2>5, IdleHands DEF FrameBegin, Queues
    <3> QED BY Zenon, <2>5, <3>1, MoveAllKeepsOrder DEF FrameBegin
  <2>6. ASSUME NEW l \in Loops, Serve(l) \/ Reply(l) PROVE OrderInv'
    <3>1. PICK k \in Queues : k = phase[l]
      BY <2>6 DEF Serve, Reply, Queues
    <3>2. CASE Serve(l)
      <4>1. k # "responses"
        BY <3>1, <3>2 DEF Serve
      <4> QED BY Zenon, <3>1, <3>2, <4>1, TakeKeepsOrder DEF Serve
    <3>3. CASE Reply(l)
      <4>1. k = "responses"
        BY <3>1, <3>3 DEF Reply
      <4> QED BY Zenon, <3>1, <3>3, <4>1, TakeKeepsOrder DEF Reply
    <3> QED BY <2>6, <3>2, <3>3
  <2>7. ASSUME NEW l \in Loops, PostDone(l) PROVE OrderInv'
    <3>1. cur[l] \in Ids /\ stage[cur[l]] = "serving" /\ item[cur[l]].kind = "post"
      <4>1. cur[l] \in Ids /\ phase[l] = "posts" /\ cur[l] # None
        BY <2>7 DEF PostDone, TypeOK
      <4>2. CurCustody(l)
        BY DEF Custody
      <4> QED BY <4>1, <4>2 DEF CurCustody
    <3>2. ~item[cur[l]].handler
      BY <3>1 DEF Custody, Allocated
    <3>3. phase[l] # "responses" /\ "done" # "served"
      BY <2>7 DEF PostDone
    <3> QED BY Zenon, <2>7, <3>2, <3>3, DoneKeepsOrder DEF PostDone
  <2>8. ASSUME NEW l \in Loops, ReplyDone(l) PROVE OrderInv'
    BY Zenon, <2>8, DoneKeepsOrder DEF ReplyDone
  <2>9. ASSUME NEW l \in Loops, RequestDone(l) PROVE OrderInv'
    <3> DEFINE c == item[cur[l]]
               respond == c.from \in registered /\ c.handler
    <3>1. PICK s \in {"served", "dropped", "done"} :
            /\ s = IF respond THEN "served"
                   ELSE IF c.handler /\ c.from # None THEN "dropped" ELSE "done"
            /\ stage' = [stage EXCEPT ![cur[l]] = s]
            /\ cur' = IF respond THEN cur ELSE [cur EXCEPT ![l] = None]
      BY Zenon, <2>9 DEF RequestDone
    <3>2. UNCHANGED <<phase, q, moved, calling, item>> /\ cur[l] # None /\ phase[l] = "requests"
      BY <2>9 DEF RequestDone
    <3>3. s = "done" => ~(c.handler /\ c.from \in Loops)
      BY <3>1, LoopAssumption
    <3>4. s = "served" <=> respond
      BY <3>1
    <3>5. phase[l] # "responses"
      BY <3>2
    <3>6. s \in {"served", "done", "dropped", "lost"}
      BY <3>1
    <3> QED BY Zenon, <3>1, <3>2, <3>3, <3>4, <3>5, <3>6, DoneKeepsOrder
  <2>10. ASSUME NEW l \in Loops, PushResponse(l) PROVE OrderInv'
    BY ZenonT(60), <2>10, PushResponseKeepsOrder
  <2>11. ASSUME NEW l \in Loops,
                NextQueue(l, "posts", "requests") \/ NextQueue(l, "requests", "responses")
         PROVE  OrderInv'
    <3>1. "requests" \in Queues /\ "responses" \in Queues
      BY Zenon DEF Queues
    <3> QED BY <2>11, <3>1, MoveAllKeepsOrder DEF NextQueue
  <2>12. CASE UNCHANGED vars
    BY ZenonT(60), <2>12, QuietKeepsOrder DEF vars
  <2> QED
    BY ZenonT(60), <2>1, <2>2, <2>3, <2>4, <2>5, <2>6, <2>7, <2>8, <2>9, <2>10, <2>11, <2>12
       DEF Next, AppStep, LoopStep
<1> QED
  BY <1>1, <1>2, TypeCorrect, CustodyHolds, PTL DEF Spec

\* What is kept is held.
LEMMA KeptIsHeld ==
  ASSUME NEW i \in Ids, Kept(i), item[i] \in Item,
         stage[i] \in {"called", "queued", "serving", "served", "replying", "replied"}
  PROVE  Held(i)
<1>1. PICK to \in Loops, k \in Queues, by \in Threads :
        /\ to = item[i].to /\ by = item[i].by
        /\ k = IF item[i].kind = "post" THEN "posts" ELSE "requests"
  BY DEF Item, Queues
<1>2. ASSUME NEW l \in Loops, NEW k2 \in Queues, InLine(l, k2, i) PROVE Held(i)
  BY Zenon, <1>2 DEF InLine, Held
<1>3. CASE stage[i] = "called"
  BY Zenon, <1>1, <1>3 DEF Kept, Held
<1>4. CASE stage[i] = "queued"
  BY Zenon, <1>1, <1>2, <1>4 DEF Kept
<1>5. CASE stage[i] \in {"serving", "served"}
  BY Zenon, <1>1, <1>5 DEF Kept, Held
<1>6. CASE stage[i] = "replying"
  <2>1. "responses" \in Queues
    BY DEF Queues
  <2> QED BY Zenon, <1>2, <1>6, <2>1 DEF Kept
<1>7. CASE stage[i] = "replied"
  BY Zenon, <1>7 DEF Kept, Held
<1> QED BY <1>3, <1>4, <1>5, <1>6, <1>7

\* No item is mislaid, what a thread sends to a loop through one queue is
\* handled in the order it was sent, and its answers come back in that order:
\* for any loops, threads, call graph and number of items.
THEOREM InOrderHolds == Spec => []InOrder
<1>1. TypeOK /\ Custody /\ OrderInv => InOrder
  <2> SUFFICES ASSUME TypeOK, Custody, OrderInv PROVE InOrder
    OBVIOUS
  <2>1. ASSUME NEW i \in Ids,
               stage[i] \in {"called", "queued", "serving", "served", "replying", "replied"}
        PROVE  Held(i)
    <3>1. Sent(i)
      BY <2>1 DEF Sent
    <3>2. Kept(i) /\ item[i] \in Item
      BY Zenon, <3>1 DEF OrderInv, Custody, Allocated, Sent
    <3> QED BY Zenon, <2>1, <3>2, KeptIsHeld
  <2>2. ASSUME NEW i \in Ids, NEW j \in Ids, i < j, Sent(i), Sent(j),
               item[i].by = item[j].by, item[i].to = item[j].to, item[i].kind = item[j].kind
        PROVE  /\ Reached(j) => Reached(i)
               /\ item[i].handler /\ item[j].handler /\ Answered(j) =>
                    Answered(i) \/ stage[i] \in {"dropped", "lost"}
    <3>1. Ahead(i, j)
      BY Zenon, <2>2 DEF OrderInv, Alike
    <3> QED BY <3>1 DEF Ahead, Past, Reached, Answered
  <2> QED BY Zenon, <2>1, <2>2 DEF InOrder
<1> QED
  BY <1>1, TypeCorrect, CustodyHolds, OrderInvHolds, PTL
=============================================================================
