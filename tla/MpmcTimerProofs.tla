-------------------------- MODULE MpmcTimerProofs ---------------------------
(***************************************************************************)
(* Two parts that have nothing in common but this module.                  *)
(*                                                                         *)
(* mpmc_bounded_queue for any number of producers, consumers and cells     *)
(* and for loads that may all be stale: a thread that claimed a position   *)
(* is alone with its cell, and the whole is a Fifo.                        *)
(*                                                                         *)
(* A timer that only its loop starts, for any starts and rounds: it calls  *)
(* the handler of the latest start, and no more often than asked.          *)
(***************************************************************************)
EXTENDS MpmcQueue, EcTimer, Integers, TLAPS

USE MpmcAssumption

\* What the remainder does to positions: a round later is the same cell, the
\* next position is another, and two positions of one cell are a round apart.
LEMMA CellIsCell ==
  ASSUME NEW a \in Nat
  PROVE  Cell(a) \in Cells
BY Z3 DEF Cell, Cells

LEMMA FirstRound ==
  ASSUME NEW a \in Cells
  PROVE  Cell(a) = a
<1>1. a \in Nat /\ a < Size
  BY DEF Cells
<1>2. a % Size = a
  BY <1>1, Z3
<1> QED
  BY <1>2 DEF Cell

LEMMA MultiplesApart ==
  ASSUME NEW d \in Int
  PROVE  /\ Size * d \in Int
         /\ d >= 1 => Size * d >= Size
         /\ d <= -1 => Size * d <= -Size
<1>1. ASSUME NEW n \in Nat PROVE Size * n >= 0
  BY Z3
<1>2. CASE d >= 1
  <2>1. PICK n \in Nat : d = n + 1
    BY <1>2
  <2>2. Size * (n + 1) = Size * n + Size
    BY Z3
  <2> QED
    BY <1>1, <1>2, <2>1, <2>2
<1>3. CASE d <= -1
  <2>1. PICK n \in Nat : d = -1 - n
    <3>1. -1 - d \in Nat /\ d = -1 - (-1 - d)
      BY <1>3
    <3> QED
      BY <3>1
  <2>2. Size * (-1 - n) = -Size - Size * n
    BY Z3
  <2> QED
    BY <1>1, <1>3, <2>1, <2>2
<1> QED
  BY <1>2, <1>3

LEMMA Division ==
  ASSUME NEW a \in Nat
  PROVE  \E k \in Nat : a = Size * k + Cell(a)
<1>1. /\ a = Size * (a \div Size) + (a % Size)
      /\ a \div Size \in Nat
  BY Z3
<1> QED
  BY Zenon, <1>1 DEF Cell

LEMMA RoundApart ==
  ASSUME NEW a \in Nat, NEW b \in Nat, Cell(a) = Cell(b), a < b
  PROVE  a + Size <= b
<1>1. PICK j \in Nat, k \in Nat : a = Size * j + Cell(a) /\ b = Size * k + Cell(b)
  BY Zenon, Division
<1>2. Size * (k - j) = Size * k - Size * j
  BY Z3
<1>3. Size * j \in Int /\ Size * k \in Int /\ Cell(a) \in Nat
  BY CellIsCell, MultiplesApart DEF Cells
<1>4. b - a = Size * (k - j)
  BY <1>1, <1>2, <1>3
<1>5. k - j >= 1
  <2>1. Size * 0 = 0
    BY Z3
  <2> QED
    BY <1>4, <2>1, MultiplesApart
<1> QED
  BY <1>4, <1>5, MultiplesApart

LEMMA RoundLater ==
  ASSUME NEW a \in Nat
  PROVE  Cell(a + Size) = Cell(a)
<1>0. PICK j \in Nat : a = Size * j + Cell(a)
  BY Zenon, Division
<1>1. PICK k \in Nat : a + Size = Size * k + Cell(a + Size)
  <2>1. a + Size \in Nat
    OBVIOUS
  <2> QED
    BY Zenon, <2>1, Division
<1>2. Size * (k - j - 1) = Size * k - Size * j - Size
  BY Z3
<1>3. /\ Cell(a) \in Nat /\ Cell(a) < Size
      /\ Cell(a + Size) \in Nat /\ Cell(a + Size) < Size
      /\ Size * j \in Int /\ Size * k \in Int
  BY CellIsCell, MultiplesApart DEF Cells
<1>4. Size * (k - j - 1) = Cell(a) - Cell(a + Size)
  BY <1>0, <1>1, <1>2, <1>3
<1>5. k - j - 1 = 0
  BY <1>3, <1>4, MultiplesApart
<1>6. Size * 0 = 0
  BY Z3
<1> QED
  BY <1>3, <1>4, <1>5, <1>6

LEMMA NextCell ==
  ASSUME NEW a \in Nat
  PROVE  Cell(a + 1) # Cell(a)
BY RoundApart
-----------------------------------------------------------------------------
\* The cell was free for position k, and filled for it.
Free(k)   == k \in seqs[Cell(k)]
Filled(k) == k + 1 \in seqs[Cell(k)]

\* The producer that claimed position k, or the consumer, is done with it.
Stored(k)  == k < enq /\ \A p \in Producers : Owns(p) => pos[p] # k
Emptied(k) == k < deq /\ \A c \in Consumers : Owns(c) => pos[c] # k

\* A position was claimed only once its cell was free, or filled, for it.
Claimed ==
  /\ Len(log) = enq /\ deq <= enq
  /\ \A k \in 0..(enq - 1) : Free(k)
  /\ \A k \in 0..(deq - 1) : Filled(k)

\* What each number that sequence_ has had tells.
Meaning ==
  \A c \in Cells : \A s \in seqs[c] :
    \/ Cell(s) = c /\ (s < Size \/ Emptied(s - Size))
    \/ s > 0 /\ Cell(s - 1) = c /\ Stored(s - 1)

\* What a thread relies on, step by step.
Producing(p) ==
  /\ pc[p] # "idle" => val[p] \in Values
  /\ Owns(p) => pos[p] < enq /\ val[p] = log[pos[p] + 1]
  /\ At(p, "publish") => data[Cell(pos[p])] = val[p]

Consuming(c) ==
  /\ Owns(c) => pos[c] < deq
  /\ At(c, "publish") => val[c] = log[pos[c] + 1]

Apart ==
  /\ \A p, q \in Producers : p # q /\ Owns(p) /\ Owns(q) => pos[p] # pos[q]
  /\ \A c, d \in Consumers : c # d /\ Owns(c) /\ Owns(d) => pos[c] # pos[d]

Seen == \A t \in Threads : At(t, "cas") => Awaited(t, pos[t]) \in seqs[Cell(pos[t])]

\* A cell that is filled and not free again holds the value of its position.
Kept == \A k \in 0..(enq - 1) : Filled(k) /\ ~Free(k + Size) => data[Cell(k)] = log[k + 1]

Inv ==
  /\ TypeOK
  /\ Claimed /\ Meaning /\ Apart /\ Seen /\ Kept
  /\ \A p \in Producers : Producing(p)
  /\ \A c \in Consumers : Consuming(c)
-----------------------------------------------------------------------------
LEMMA FilledIsStored ==
  ASSUME Inv, NEW k \in Nat, Filled(k)
  PROVE  Stored(k)
<1>1. Cell(k) \in Cells /\ Cell(k + 1) # Cell(k)
  BY CellIsCell, NextCell
<1>2. k + 1 \in seqs[Cell(k)] /\ k + 1 - 1 = k
  BY DEF Filled
<1> QED
  BY <1>1, <1>2 DEF Inv, Meaning

LEMMA FreeIsEmptied ==
  ASSUME Inv, NEW k \in Nat, Free(k + Size)
  PROVE  Emptied(k)
<1>1. /\ k + Size \in Nat /\ k + Size - Size = k /\ ~(k + Size < Size)
      /\ k + Size - 1 \in Nat /\ (k + Size - 1) + 1 = k + Size
  OBVIOUS
<1>2. Cell(k + Size) \in Cells /\ Cell(k + Size - 1) # Cell(k + Size)
  BY <1>1, CellIsCell, NextCell
<1> QED
  BY <1>1, <1>2 DEF Inv, Meaning, Free

\* A producer that still owns its cell has not filled it, so the position a
\* round later is not claimed; a consumer has not freed it.
LEMMA NotYet ==
  ASSUME Inv
  PROVE  /\ \A p \in Producers : Owns(p) =>
              /\ pos[p] \in Nat /\ pos[p] < enq /\ ~Filled(pos[p])
              /\ pos[p] >= deq /\ enq <= pos[p] + Size
         /\ \A c \in Consumers : Owns(c) =>
              /\ pos[c] \in Nat /\ pos[c] < deq /\ ~Free(pos[c] + Size)
              /\ enq <= pos[c] + Size
<1>1. ASSUME NEW p \in Producers, Owns(p)
      PROVE  /\ pos[p] \in Nat /\ pos[p] < enq /\ ~Filled(pos[p])
             /\ pos[p] >= deq /\ enq <= pos[p] + Size
  <2>1. pos[p] \in Nat /\ pos[p] < enq /\ enq \in Nat /\ deq \in Nat
    BY <1>1 DEF Inv, TypeOK, Threads, Producing
  <2>2. ~Filled(pos[p])
    BY <1>1, <2>1, FilledIsStored DEF Stored
  <2>3. pos[p] >= deq
    BY <2>1, <2>2 DEF Inv, Claimed
  <2>4. ~Free(pos[p] + Size)
    BY <2>1, <2>3, FreeIsEmptied DEF Emptied
  <2>5. enq <= pos[p] + Size
    BY <2>1, <2>4 DEF Inv, Claimed
  <2> QED
    BY <2>1, <2>2, <2>3, <2>5
<1>2. ASSUME NEW c \in Consumers, Owns(c)
      PROVE  /\ pos[c] \in Nat /\ pos[c] < deq /\ ~Free(pos[c] + Size)
             /\ enq <= pos[c] + Size
  <2>1. pos[c] \in Nat /\ pos[c] < deq /\ enq \in Nat
    BY <1>2 DEF Inv, TypeOK, Threads, Consuming
  <2>2. ~Free(pos[c] + Size)
    BY <1>2, <2>1, FreeIsEmptied DEF Emptied
  <2>3. enq <= pos[c] + Size
    BY <2>1, <2>2 DEF Inv, Claimed
  <2> QED
    BY <2>1, <2>2, <2>3
<1> QED
  BY <1>1, <1>2

\* So all cells that are owned are different ones.
LEMMA Alone ==
  ASSUME Inv, NEW t \in Threads, NEW u \in Threads, t # u, Owns(t), Owns(u)
  PROVE  Cell(pos[t]) # Cell(pos[u])
<1>1. /\ pos[t] \in Nat /\ pos[t] < enq /\ enq <= pos[t] + Size
      /\ pos[u] \in Nat /\ pos[u] < enq /\ enq <= pos[u] + Size
      /\ enq \in Nat /\ deq \in Nat
  BY NotYet DEF Threads, Inv, TypeOK, Claimed
<1>2. pos[t] # pos[u]
  <2>1. CASE t \in Producers /\ u \in Producers
    BY <2>1 DEF Inv, Apart
  <2>2. CASE t \in Consumers /\ u \in Consumers
    BY <2>2 DEF Inv, Apart
  <2>3. CASE t \in Producers /\ u \in Consumers
    BY <1>1, <2>3, NotYet
  <2>4. CASE t \in Consumers /\ u \in Producers
    BY <1>1, <2>4, NotYet
  <2> QED
    BY <2>1, <2>2, <2>3, <2>4 DEF Threads
<1>3. CASE pos[t] < pos[u]
  BY <1>1, <1>3, RoundApart
<1>4. CASE pos[u] < pos[t]
  BY <1>1, <1>4, RoundApart
<1> QED
  BY <1>1, <1>2, <1>3, <1>4
-----------------------------------------------------------------------------
\* A step that leaves the ring alone, and that of a thread that owns no cell
\* before it or after it.
LEMMA QuietStep ==
  ASSUME Inv, NEW t \in Threads, ~Owns(t), ~Owns(t)',
         UNCHANGED <<seqs, data, enq, deq, log>>,
         \A u \in Threads \ {t} : pc'[u] = pc[u] /\ pos'[u] = pos[u] /\ val'[u] = val[u],
         TypeOK',
         t \in Producers /\ pc'[t] # "idle" => val'[t] \in Values,
         pc'[t] = "cas" => Awaited(t, pos'[t]) \in seqs[Cell(pos'[t])]
  PROVE  Inv'
<1>1. \A u \in Threads : /\ Owns(u)' <=> Owns(u)
                         /\ Owns(u) => pc'[u] = pc[u] /\ pos'[u] = pos[u] /\ val'[u] = val[u]
  BY DEF Owns
<1>2. \A k : (Stored(k)' <=> Stored(k)) /\ (Emptied(k)' <=> Emptied(k))
  BY <1>1 DEF Stored, Emptied, Threads
<1>3. Claimed' /\ Kept'
  BY DEF Inv, Claimed, Kept, Free, Filled
<1>4. Meaning'
  BY <1>2 DEF Inv, Meaning
<1>5. Apart'
  BY <1>1 DEF Inv, Apart, Threads
<1>6. Seen'
  BY DEF Inv, Seen, At, Awaited
<1>7. ASSUME NEW p \in Producers PROVE Producing(p)'
  <2>1. CASE p = t
    BY <2>1 DEF Producing, Owns, At
  <2>2. CASE p # t
    BY <2>2 DEF Inv, Producing, Owns, At, Threads
  <2> QED
    BY <2>1, <2>2
<1>8. ASSUME NEW c \in Consumers PROVE Consuming(c)'
  <2>1. CASE c = t
    BY <2>1 DEF Consuming, Owns, At
  <2>2. CASE c # t
    BY <2>2 DEF Inv, Consuming, Owns, At, Threads
  <2> QED
    BY <2>1, <2>2
<1> QED
  BY <1>3, <1>4, <1>5, <1>6, <1>7, <1>8 DEF Inv

LEMMA EnqueueCasKeeps ==
  ASSUME Inv, NEW p \in Producers, EnqueueCas(p)
  PROVE  Inv' /\ enq - deq < Size /\ val[p] \in Values
<1>1. /\ pos[p] = enq /\ enq' = enq + 1 /\ enq \in Nat /\ deq \in Nat /\ p \in Threads
      /\ pc[p] = "cas" /\ val[p] \in Values /\ ~Owns(p)
  BY DEF EnqueueCas, Inv, TypeOK, At, Current, Counter, Producing, Owns, Threads
<1>2. Free(enq)
  BY <1>1 DEF Inv, Seen, At, Awaited, Free
<1>3. enq - deq < Size
  <2>1. CASE enq < Size
    BY <1>1, <2>1
  <2>2. CASE enq >= Size
    <3>1. enq - Size \in Nat /\ (enq - Size) + Size = enq
      BY <1>1, <2>2
    <3> QED
      BY <1>1, <1>2, <3>1, FreeIsEmptied DEF Emptied
  <2> QED
    BY <1>1, <2>1, <2>2
<1>4. TypeOK'
  BY <1>1 DEF EnqueueCas, Inv, TypeOK, Goto, Threads
<1>5. /\ Len(log') = enq + 1 /\ log'[enq + 1] = val[p]
      /\ \A i \in 1..enq : log'[i] = log[i]
  BY <1>1 DEF EnqueueCas, Inv, TypeOK, Claimed
<1>6. /\ UNCHANGED <<seqs, data, deq, pos, val>>
      /\ pc'[p] = "data" /\ \A u \in Threads \ {p} : pc'[u] = pc[u]
  BY <1>1 DEF EnqueueCas, Goto, Inv, TypeOK
<1>7. Claimed'
  BY <1>1, <1>2, <1>5, <1>6 DEF Inv, Claimed, Free, Filled
<1>8. Owns(p)' /\ \A u \in Threads \ {p} : Owns(u)' <=> Owns(u)
  BY <1>6 DEF Owns
<1>9. \A j \in Nat : Stored(j) => Stored(j)'
  <2>1. \A j : Stored(j) => j # enq
    BY <1>1 DEF Stored
  <2> QED
    BY <1>1, <1>6, <1>8, <2>1 DEF Stored, Threads
<1>10. \A j : Emptied(j) => Emptied(j)'
  BY <1>6, <1>8 DEF Emptied, Threads
<1>11. Meaning'
  <2> SUFFICES ASSUME NEW c \in Cells, NEW s \in seqs[c]
               PROVE  \/ Cell(s) = c /\ (s < Size \/ Emptied(s - Size)')
                      \/ s > 0 /\ Cell(s - 1) = c /\ Stored(s - 1)'
    BY <1>6 DEF Meaning
  <2>1. s \in Nat /\ (s > 0 => s - 1 \in Nat)
    BY DEF Inv, TypeOK
  <2> QED
    BY <1>9, <1>10, <2>1 DEF Inv, Meaning
<1>12. Apart'
  <2>1. \A q \in Producers : Owns(q) => pos[q] # enq
    BY <1>1, NotYet
  <2> QED
    BY <1>1, <1>6, <1>8, <2>1 DEF Inv, Apart, Threads
<1>13. Seen'
  BY <1>6 DEF Inv, Seen, At, Awaited
<1>14. Kept'
  <2> SUFFICES ASSUME NEW j \in 0..enq, Filled(j), ~Free(j + Size)
               PROVE  data[Cell(j)] = log'[j + 1]
    BY <1>1, <1>6 DEF Kept, Free, Filled
  <2>1. j < enq
    BY <1>1, FilledIsStored DEF Stored
  <2> QED
    BY <1>1, <1>5, <2>1 DEF Inv, Kept
<1>15. ASSUME NEW q \in Producers PROVE Producing(q)'
  <2>1. CASE q = p
    BY <1>1, <1>5, <1>6, <2>1 DEF Producing, At
  <2>2. CASE q # p
    <3>1. pc'[q] = pc[q] /\ (Owns(q)' <=> Owns(q)) /\ pos[q] \in Nat
      BY <1>6, <1>8, <2>2 DEF Threads, Inv, TypeOK
    <3> QED
      BY <1>1, <1>5, <1>6, <3>1 DEF Inv, Producing, At
  <2> QED
    BY <2>1, <2>2
<1>16. ASSUME NEW c \in Consumers PROVE Consuming(c)'
  <2>1. c # p /\ c \in Threads
    BY DEF Threads
  <2>2. pc'[c] = pc[c] /\ (Owns(c)' <=> Owns(c)) /\ pos[c] \in Nat
    BY <1>6, <1>8, <2>1 DEF Inv, TypeOK
  <2>3. pc[c] = "publish" => Owns(c) /\ pos[c] + 1 \in 1..enq
    BY <1>1, <2>2 DEF Inv, Consuming, Claimed, Owns
  <2> QED
    BY <1>5, <1>6, <2>2, <2>3 DEF Inv, Consuming, At
<1> QED
  BY <1>1, <1>3, <1>4, <1>7, <1>11, <1>12, <1>13, <1>14, <1>15, <1>16 DEF Inv

LEMMA DequeueCasKeeps ==
  ASSUME Inv, NEW c \in Consumers, DequeueCas(c)
  PROVE  Inv' /\ deq < enq
<1>1. /\ pos[c] = deq /\ deq' = deq + 1 /\ enq \in 0..MaxItems /\ deq \in Nat /\ c \in Threads
      /\ c \notin Producers /\ pc[c] = "cas" /\ ~Owns(c)
  BY DEF DequeueCas, Inv, TypeOK, At, Current, Counter, Owns, Threads
<1>2. Filled(deq)
  BY <1>1 DEF Inv, Seen, At, Awaited, Filled
<1>3. deq < enq
  BY <1>1, <1>2, FilledIsStored DEF Stored
<1>4. TypeOK'
  BY <1>1, <1>3 DEF DequeueCas, Inv, TypeOK, Goto, Threads
<1>5. /\ UNCHANGED <<seqs, data, enq, pos, val, log>>
      /\ pc'[c] = "data" /\ \A u \in Threads \ {c} : pc'[u] = pc[u]
  BY <1>1 DEF DequeueCas, Goto, Inv, TypeOK
<1>6. Owns(c)' /\ \A u \in Threads \ {c} : Owns(u)' <=> Owns(u)
  BY <1>5 DEF Owns
<1>7. Claimed'
  BY <1>1, <1>2, <1>3, <1>5 DEF Inv, Claimed, Free, Filled
<1>8. \A j : Stored(j) => Stored(j)'
  BY <1>1, <1>5, <1>6 DEF Stored, Threads
<1>9. \A j \in Int : Emptied(j) => Emptied(j)'
  <2>1. \A j : Emptied(j) => j # deq
    BY <1>1 DEF Emptied
  <2> QED
    BY <1>1, <1>5, <1>6, <2>1 DEF Emptied, Threads
<1>10. Meaning'
  <2> SUFFICES ASSUME NEW d \in Cells, NEW s \in seqs[d]
               PROVE  \/ Cell(s) = d /\ (s < Size \/ Emptied(s - Size)')
                      \/ s > 0 /\ Cell(s - 1) = d /\ Stored(s - 1)'
    BY <1>5 DEF Meaning
  <2>1. s - Size \in Int
    BY DEF Inv, TypeOK
  <2> QED
    BY <1>8, <1>9, <2>1 DEF Inv, Meaning
<1>11. Apart'
  <2>1. \A d \in Consumers : Owns(d) => pos[d] # deq
    BY <1>1, NotYet
  <2> QED
    BY <1>1, <1>5, <1>6, <2>1 DEF Inv, Apart, Threads
<1>12. Seen'
  BY <1>5 DEF Inv, Seen, At, Awaited
<1>13. Kept'
  BY <1>5 DEF Inv, Kept, Free, Filled
<1>14. ASSUME NEW p \in Producers PROVE Producing(p)'
  <2>1. p # c /\ p \in Threads
    BY <1>1 DEF Threads
  <2> QED
    BY <1>5, <1>6, <2>1 DEF Inv, Producing, At
<1>15. ASSUME NEW d \in Consumers PROVE Consuming(d)'
  <2>1. CASE d = c
    BY <1>1, <1>5, <2>1 DEF Consuming, At
  <2>2. CASE d # c
    <3>1. pc'[d] = pc[d] /\ (Owns(d)' <=> Owns(d)) /\ pos[d] \in Nat
      BY <1>5, <1>6, <2>2 DEF Threads, Inv, TypeOK
    <3> QED
      BY <1>1, <1>5, <3>1 DEF Inv, Consuming, At
  <2> QED
    BY <2>1, <2>2
<1> QED
  BY <1>3, <1>4, <1>7, <1>10, <1>11, <1>12, <1>13, <1>14, <1>15 DEF Inv

LEMMA EnqueueDataKeeps ==
  ASSUME Inv, NEW p \in Producers, EnqueueData(p)
  PROVE  Inv'
<1>1. /\ p \in Threads /\ pc[p] = "data" /\ Owns(p) /\ pos[p] \in Nat /\ val[p] \in Values
      /\ Cell(pos[p]) \in Cells
  <2>1. p \in Threads /\ pc[p] = "data" /\ pos[p] \in Nat /\ val[p] \in Values
    BY DEF EnqueueData, Inv, TypeOK, At, Producing, Threads
  <2> QED
    BY <2>1, CellIsCell DEF Owns
<1>2. /\ UNCHANGED <<seqs, enq, deq, pos, val, log>>
      /\ pc'[p] = "publish" /\ \A u \in Threads \ {p} : pc'[u] = pc[u]
      /\ data'[Cell(pos[p])] = val[p]
      /\ \A d \in Cells \ {Cell(pos[p])} : data'[d] = data[d]
  BY <1>1 DEF EnqueueData, Goto, Inv, TypeOK
<1>3. \A u \in Threads : Owns(u)' <=> Owns(u)
  BY <1>1, <1>2 DEF Owns
<1>4. TypeOK'
  BY <1>1 DEF EnqueueData, Inv, TypeOK, Goto
<1>5. Claimed'
  BY <1>2 DEF Inv, Claimed, Free, Filled
<1>6. Meaning'
  BY <1>2, <1>3 DEF Inv, Meaning, Stored, Emptied, Threads
<1>7. Apart'
  BY <1>2, <1>3 DEF Inv, Apart, Threads
<1>8. Seen'
  BY <1>2 DEF Inv, Seen, At, Awaited
<1>9. Kept'
  <2> SUFFICES ASSUME NEW k \in 0..(enq - 1), Filled(k), ~Free(k + Size)
               PROVE  data'[Cell(k)] = log[k + 1]
    BY <1>2 DEF Kept, Free, Filled
  <2>1. k \in Nat /\ enq \in Nat
    BY DEF Inv, TypeOK
  <2>2. pos[p] < enq /\ ~Filled(pos[p]) /\ enq <= pos[p] + Size
    BY <1>1, NotYet
  <2>3. Cell(k) # Cell(pos[p])
    <3>1. SUFFICES ASSUME Cell(k) = Cell(pos[p]) PROVE FALSE
      OBVIOUS
    <3>2. k # pos[p]
      BY <2>2
    <3>3. CASE k < pos[p]
      <4>1. k + Size <= pos[p]
        BY <1>1, <2>1, <3>1, <3>3, RoundApart
      <4> QED
        BY <1>1, <2>1, <2>2, <4>1 DEF Inv, Claimed
    <3>4. CASE pos[p] < k
      <4>1. pos[p] + Size <= k
        BY <1>1, <2>1, <3>1, <3>4, RoundApart
      <4> QED
        BY <1>1, <2>1, <2>2, <4>1
    <3> QED
      BY <1>1, <2>1, <3>2, <3>3, <3>4
  <2>4. Cell(k) \in Cells
    BY <2>1, CellIsCell
  <2> QED
    BY <1>2, <2>3, <2>4 DEF Inv, Kept
<1>10. ASSUME NEW q \in Producers PROVE Producing(q)'
  <2>1. CASE q = p
    BY <1>1, <1>2, <2>1 DEF Inv, Producing, At, Owns
  <2>2. CASE q # p
    <3>1. q \in Threads /\ pc'[q] = pc[q] /\ pos[q] \in Nat
      BY <1>2, <2>2 DEF Threads, Inv, TypeOK
    <3>2. Owns(q) => Cell(pos[q]) # Cell(pos[p])
      BY <1>1, <2>2, <3>1, Alone
    <3>3. Cell(pos[q]) \in Cells
      BY <3>1, CellIsCell
    <3>4. At(q, "publish") => data'[Cell(pos[q])] = data[Cell(pos[q])]
      BY <1>2, <3>2, <3>3 DEF At, Owns
    <3> QED
      BY <1>2, <1>3, <3>1, <3>4 DEF Inv, Producing, At
  <2> QED
    BY <2>1, <2>2
<1>11. ASSUME NEW c \in Consumers PROVE Consuming(c)'
  <2>1. c # p /\ c \in Threads
    BY DEF Threads
  <2> QED
    BY <1>2, <1>3, <2>1 DEF Inv, Consuming, At
<1> QED
  BY <1>4, <1>5, <1>6, <1>7, <1>8, <1>9, <1>10, <1>11 DEF Inv

LEMMA DequeueDataKeeps ==
  ASSUME Inv, NEW c \in Consumers, DequeueData(c)
  PROVE  Inv'
<1>1. c \in Threads /\ c \notin Producers /\ pc[c] = "data" /\ Owns(c) /\ pos[c] \in Nat
  BY DEF DequeueData, Inv, TypeOK, At, Owns, Threads
<1>2. /\ UNCHANGED <<seqs, data, enq, deq, pos, log>>
      /\ pc'[c] = "publish" /\ val'[c] = data[Cell(pos[c])]
      /\ \A u \in Threads \ {c} : pc'[u] = pc[u] /\ val'[u] = val[u]
  BY <1>1 DEF DequeueData, Goto, Inv, TypeOK
<1>3. \A u \in Threads : Owns(u)' <=> Owns(u)
  BY <1>1, <1>2 DEF Owns
<1>4. TypeOK'
  <2>1. data[Cell(pos[c])] \in Values \cup {None}
    BY <1>1, CellIsCell DEF Inv, TypeOK
  <2> QED
    BY <1>1, <2>1 DEF DequeueData, Inv, TypeOK, Goto
<1>5. Claimed' /\ Kept'
  BY <1>2 DEF Inv, Claimed, Kept, Free, Filled
<1>6. Meaning'
  BY <1>2, <1>3 DEF Inv, Meaning, Stored, Emptied, Threads
<1>7. Apart'
  BY <1>2, <1>3 DEF Inv, Apart, Threads
<1>8. Seen'
  BY <1>2 DEF Inv, Seen, At, Awaited
<1>9. ASSUME NEW p \in Producers PROVE Producing(p)'
  <2>1. p # c /\ p \in Threads
    BY <1>1 DEF Threads
  <2> QED
    BY <1>2, <1>3, <2>1 DEF Inv, Producing, At
<1>10. ASSUME NEW d \in Consumers PROVE Consuming(d)'
  <2>1. CASE d = c
    <3>1. pos[c] < deq /\ ~Free(pos[c] + Size)
      BY <1>1, NotYet
    <3>2. pos[c] \in 0..(enq - 1) /\ Filled(pos[c])
      BY <1>1, <3>1 DEF Inv, TypeOK, Claimed
    <3>3. data[Cell(pos[c])] = log[pos[c] + 1]
      BY <3>1, <3>2 DEF Inv, Kept
    <3> QED
      BY <1>2, <2>1, <3>1, <3>3 DEF Consuming, At
  <2>2. CASE d # c
    BY <1>2, <1>3, <2>2 DEF Inv, Consuming, At, Threads
  <2> QED
    BY <2>1, <2>2
<1> QED
  BY <1>4, <1>5, <1>6, <1>7, <1>8, <1>9, <1>10 DEF Inv

LEMMA PublishKeeps ==
  ASSUME Inv, NEW t \in Threads, Publish(t)
  PROVE  Inv'
<1>0. PICK k, n : k = pos[t] /\ n = NextSeq(t)
  OBVIOUS
<1>1. /\ k \in Nat /\ n \in Nat /\ Cell(k) \in Cells /\ pc[t] = "publish" /\ Owns(t)
      /\ enq \in Nat /\ deq \in Nat
  <2>1. k \in Nat /\ pc[t] = "publish" /\ enq \in Nat /\ deq \in Nat
    BY <1>0 DEF Publish, Inv, TypeOK, At
  <2> QED
    BY <1>0, <2>1, CellIsCell DEF NextSeq, Owns
<1>2. /\ UNCHANGED <<data, enq, deq, log>>
      /\ pc'[t] = "idle"
      /\ \A u \in Threads \ {t} : pc'[u] = pc[u] /\ pos'[u] = pos[u] /\ val'[u] = val[u]
  BY DEF Publish, Return, Goto, Inv, TypeOK
<1>3. /\ seqs'[Cell(k)] = seqs[Cell(k)] \cup {n}
      /\ \A c \in Cells \ {Cell(k)} : seqs'[c] = seqs[c]
  BY <1>0, <1>1 DEF Publish, Inv, TypeOK
<1>4. \A c \in Cells : seqs[c] \subseteq seqs'[c]
  BY <1>3
<1>5. TypeOK'
  BY <1>0, <1>1 DEF Publish, Return, Goto, Inv, TypeOK
<1>6. ~Owns(t)' /\ \A u \in Threads \ {t} : Owns(u)' <=> Owns(u)
  BY <1>2 DEF Owns
<1>7. Claimed'
  <2>1. \A j \in Nat : (Free(j) => Free(j)') /\ (Filled(j) => Filled(j)')
    BY <1>4, CellIsCell DEF Free, Filled
  <2> QED
    BY <1>1, <1>2, <2>1 DEF Inv, Claimed
<1>8. \A j : (Stored(j) => Stored(j)') /\ (Emptied(j) => Emptied(j)')
  BY <1>2, <1>6 DEF Stored, Emptied, Threads
<1>9. \/ t \in Producers /\ n = k + 1 /\ Stored(k)'
      \/ t \in Consumers /\ n = k + Size /\ Emptied(k)'
  <2>1. CASE t \in Producers
    <3>1. k < enq
      BY <1>0, <1>1, <2>1, NotYet
    <3> QED
      BY <1>0, <1>1, <1>2, <1>6, <2>1, <3>1 DEF Inv, Apart, Stored, NextSeq, Threads
  <2>2. CASE t \in Consumers
    <3>1. k < deq /\ t \notin Producers
      BY <1>0, <1>1, <2>2, NotYet
    <3> QED
      BY <1>0, <1>1, <1>2, <1>6, <2>2, <3>1 DEF Inv, Apart, Emptied, NextSeq, Threads
  <2> QED
    BY <2>1, <2>2 DEF Threads
<1>10. Meaning'
  <2> SUFFICES ASSUME NEW c \in Cells, NEW s \in seqs'[c]
               PROVE  \/ Cell(s) = c /\ (s < Size \/ Emptied(s - Size)')
                      \/ s > 0 /\ Cell(s - 1) = c /\ Stored(s - 1)'
    BY DEF Meaning
  <2>1. CASE s \in seqs[c]
    BY <1>8, <2>1 DEF Inv, Meaning
  <2>2. CASE c = Cell(k) /\ s = n
    <3>1. CASE n = k + 1 /\ Stored(k)'
      <4>1. s > 0 /\ s - 1 = k
        BY <1>1, <2>2, <3>1
      <4> QED
        BY <2>2, <3>1, <4>1
    <3>2. CASE n = k + Size /\ Emptied(k)'
      <4>1. s - Size = k /\ Cell(s) = c
        BY <1>1, <2>2, <3>2, RoundLater
      <4> QED
        BY <2>2, <3>2, <4>1
    <3> QED
      BY <1>9, <3>1, <3>2
  <2> QED
    BY <1>3, <2>1, <2>2
<1>11. Apart'
  BY <1>2, <1>6 DEF Inv, Apart, Threads
<1>12. Seen'
  <2> SUFFICES ASSUME NEW u \in Threads, pc'[u] = "cas"
               PROVE  Awaited(u, pos'[u]) \in seqs'[Cell(pos'[u])]
    BY DEF Seen, At, Awaited
  <2>1. u # t /\ pc[u] = "cas" /\ pos'[u] = pos[u] /\ pos[u] \in Nat
    BY <1>2 DEF Inv, TypeOK
  <2> QED
    BY <1>4, <2>1, CellIsCell DEF Inv, Seen, At
<1>13. Kept'
  <2> SUFFICES ASSUME NEW j \in 0..(enq - 1), Filled(j)', ~Free(j + Size)'
               PROVE  data[Cell(j)] = log[j + 1]
    BY <1>2 DEF Kept
  <2>1. j \in Nat /\ j + Size \in Nat /\ Cell(j) \in Cells /\ Cell(j + Size) \in Cells
    <3>1. j \in Nat /\ j + Size \in Nat
      BY <1>1
    <3> QED
      BY <3>1, CellIsCell
  <2>2. ~Free(j + Size)
    BY <1>4, <2>1 DEF Free
  <2>3. CASE Filled(j)
    BY <2>2, <2>3 DEF Inv, Kept
  <2>4. CASE ~Filled(j)
    <3>1. Cell(j) = Cell(k) /\ j + 1 = n
      BY <1>3, <2>1, <2>4 DEF Filled
    <3>2. n # k + Size
      BY <1>1, <2>1, <3>1, RoundLater, NextCell
    <3>3. t \in Producers /\ j = k
      BY <1>1, <1>9, <2>1, <3>1, <3>2
    <3> QED
      BY <1>0, <1>1, <3>3 DEF Inv, Producing, At, Owns
  <2> QED
    BY <2>3, <2>4
<1>14. ASSUME NEW p \in Producers PROVE Producing(p)'
  <2>1. CASE p = t
    BY <1>2, <2>1 DEF Producing, At, Owns
  <2>2. CASE p # t
    BY <1>2, <1>6, <2>2 DEF Inv, Producing, At, Threads
  <2> QED
    BY <2>1, <2>2
<1>15. ASSUME NEW c \in Consumers PROVE Consuming(c)'
  <2>1. CASE c = t
    BY <1>2, <2>1 DEF Consuming, At, Owns
  <2>2. CASE c # t
    BY <1>2, <1>6, <2>2 DEF Inv, Consuming, At, Threads
  <2> QED
    BY <2>1, <2>2
<1> QED
  BY <1>5, <1>7, <1>10, <1>11, <1>12, <1>13, <1>14, <1>15 DEF Inv

\* The claims, what the sequence numbers tell and what each thread relies on
\* hold in every state: one step per action of the two functions.
LEMMA InvHolds == Spec => []Inv
<1>1. Init => Inv
  <2> SUFFICES ASSUME Init PROVE Inv
    OBVIOUS
  <2>1. TypeOK
    BY DEF Init, TypeOK, Cells, Threads
  <2>2. /\ enq = 0 /\ deq = 0 /\ log = <<>>
        /\ \A t \in Threads : pc[t] = "idle"
        /\ \A c \in Cells : seqs[c] = {c} /\ c \in Nat /\ c < Size
    BY DEF Init, Cells
  <2>3. Claimed /\ Apart /\ Seen /\ Kept
    BY <2>2 DEF Claimed, Apart, Seen, Kept, Owns, At, Threads
  <2>4. Meaning
    BY <2>2, FirstRound DEF Meaning
  <2>5. /\ \A p \in Producers : Producing(p)
        /\ \A c \in Consumers : Consuming(c)
    BY <2>2 DEF Producing, Consuming, Owns, At, Threads
  <2> QED
    BY <2>1, <2>3, <2>4, <2>5 DEF Inv
<1>2. Inv /\ [Next]_vars => Inv'
  <2> SUFFICES ASSUME Inv, [Next]_vars PROVE Inv'
    OBVIOUS
  <2>0. TypeOK
    BY DEF Inv
  <2>1. ASSUME NEW p \in Producers, NEW v \in Values, EnqueueCall(p, v) PROVE Inv'
    <3>1. /\ p \in Threads /\ ~Owns(p) /\ ~Owns(p)' /\ UNCHANGED <<seqs, data, enq, deq, log>>
          /\ pc'[p] = "load" /\ val'[p] = v
          /\ \A u \in Threads \ {p} : pc'[u] = pc[u] /\ pos'[u] = pos[u] /\ val'[u] = val[u]
      BY <2>0, <2>1 DEF EnqueueCall, Goto, At, Owns, Threads, TypeOK
    <3>2. TypeOK'
      BY Zenon, <2>0, <2>1 DEF EnqueueCall, Goto, TypeOK
    <3> QED
      BY <3>1, <3>2, QuietStep
  <2>2. ASSUME NEW c \in Consumers, DequeueCall(c) PROVE Inv'
    <3>1. /\ c \in Threads /\ c \notin Producers
          /\ ~Owns(c) /\ ~Owns(c)' /\ UNCHANGED <<seqs, data, enq, deq, log>>
          /\ pc'[c] = "load"
          /\ \A u \in Threads \ {c} : pc'[u] = pc[u] /\ pos'[u] = pos[u] /\ val'[u] = val[u]
      BY <2>0, <2>2 DEF DequeueCall, Goto, At, Owns, Threads, TypeOK
    <3>2. TypeOK'
      BY Zenon, <2>0, <2>2 DEF DequeueCall, Goto, TypeOK
    <3> QED
      BY <3>1, <3>2, QuietStep
  <2>3. ASSUME NEW t \in Threads, LoadPos(t) PROVE Inv'
    <3>1. /\ ~Owns(t) /\ ~Owns(t)' /\ UNCHANGED <<seqs, data, enq, deq, log>>
          /\ pc'[t] = "seq" /\ pc[t] = "load" /\ val'[t] = val[t]
          /\ \A u \in Threads \ {t} : pc'[u] = pc[u] /\ pos'[u] = pos[u] /\ val'[u] = val[u]
      BY <2>0, <2>3 DEF LoadPos, Goto, At, Owns, TypeOK
    <3>2. TypeOK'
      BY <2>0, <2>3 DEF LoadPos, Goto, TypeOK, Counter
    <3>3. t \in Producers => val[t] \in Values
      BY <3>1 DEF Inv, Producing
    <3> QED
      BY <3>1, <3>2, <3>3, QuietStep
  <2>4. ASSUME NEW t \in Threads, LoadSeq(t) PROVE Inv'
    <3>1. PICK s \in seqs[Cell(pos[t])] :
            \/ s < Awaited(t, pos[t]) /\ Return(t)
            \/ s = Awaited(t, pos[t]) /\ Goto(t, "cas") /\ UNCHANGED <<pos, val>>
            \/ s > Awaited(t, pos[t]) /\ Goto(t, "load") /\ UNCHANGED <<pos, val>>
      BY <2>4 DEF LoadSeq
    <3>2. /\ ~Owns(t) /\ pc[t] = "seq" /\ UNCHANGED <<seqs, data, enq, deq, log>>
      BY <2>4 DEF LoadSeq, At, Owns
    <3>3. t \in Producers => val[t] \in Values
      BY <3>2 DEF Inv, Producing
    <3>4. CASE Return(t)
      <4>1. /\ pc'[t] = "idle" /\ ~Owns(t)'
            /\ \A u \in Threads \ {t} : pc'[u] = pc[u] /\ pos'[u] = pos[u] /\ val'[u] = val[u]
        BY <2>0, <3>4 DEF Return, Goto, Owns, TypeOK
      <4>2. TypeOK'
        BY <2>0, <3>2, <3>4 DEF Return, Goto, TypeOK
      <4> QED
        BY <3>2, <4>1, <4>2, QuietStep
    <3>5. CASE s = Awaited(t, pos[t]) /\ Goto(t, "cas") /\ UNCHANGED <<pos, val>>
      <4>1. /\ pc'[t] = "cas" /\ ~Owns(t)' /\ UNCHANGED <<pos, val>>
            /\ \A u \in Threads \ {t} : pc'[u] = pc[u] /\ pos'[u] = pos[u] /\ val'[u] = val[u]
        BY <2>0, <3>5 DEF Goto, Owns, TypeOK
      <4>2. TypeOK'
        BY <2>0, <3>2, <3>5 DEF Goto, TypeOK
      <4>3. Awaited(t, pos'[t]) \in seqs[Cell(pos'[t])]
        BY <3>5, <4>1
      <4> QED
        BY <3>2, <3>3, <4>1, <4>2, <4>3, QuietStep
    <3>6. CASE Goto(t, "load") /\ UNCHANGED <<pos, val>>
      <4>1. /\ pc'[t] = "load" /\ ~Owns(t)' /\ UNCHANGED <<pos, val>>
            /\ \A u \in Threads \ {t} : pc'[u] = pc[u] /\ pos'[u] = pos[u] /\ val'[u] = val[u]
        BY <2>0, <3>6 DEF Goto, Owns, TypeOK
      <4>2. TypeOK'
        BY <2>0, <3>2, <3>6 DEF Goto, TypeOK
      <4> QED
        BY <3>2, <3>3, <4>1, <4>2, QuietStep
    <3> QED
      BY <3>1, <3>4, <3>5, <3>6
  <2>5. ASSUME NEW t \in Threads, CasFails(t) PROVE Inv'
    <3>1. /\ ~Owns(t) /\ ~Owns(t)' /\ UNCHANGED <<seqs, data, enq, deq, log>>
          /\ pc'[t] = "seq" /\ pc[t] = "cas" /\ val'[t] = val[t]
          /\ \A u \in Threads \ {t} : pc'[u] = pc[u] /\ pos'[u] = pos[u] /\ val'[u] = val[u]
      BY <2>0, <2>5 DEF CasFails, Goto, At, Owns, TypeOK
    <3>2. TypeOK'
      BY <2>0, <2>5 DEF CasFails, Goto, TypeOK, Counter
    <3>3. t \in Producers => val[t] \in Values
      BY <3>1 DEF Inv, Producing
    <3> QED
      BY <3>1, <3>2, <3>3, QuietStep
  <2>6. CASE UNCHANGED vars
    <3>1. UNCHANGED <<seqs, data, enq, deq, pc, pos, val, log>>
      BY Zenon, <2>6 DEF vars
    <3>2. TypeOK'
      BY Zenon, <3>1 DEF Inv, TypeOK
    <3>3. Claimed' /\ Kept'
      BY Zenon, <3>1 DEF Inv, Claimed, Kept, Free, Filled
    <3>4. Meaning'
      BY Zenon, <3>1 DEF Inv, Meaning, Stored, Emptied, Owns, At
    <3>5. Apart' /\ Seen'
      BY Zenon, <3>1 DEF Inv, Apart, Seen, Owns, At
    <3>6. (\A p \in Producers : Producing(p)') /\ (\A c \in Consumers : Consuming(c)')
      BY Zenon, <3>1 DEF Inv, Producing, Consuming, Owns, At
    <3> QED
      BY Zenon, <3>2, <3>3, <3>4, <3>5, <3>6 DEF Inv
  <2> QED
    BY <2>1, <2>2, <2>3, <2>4, <2>5, <2>6,
       EnqueueCasKeeps, DequeueCasKeeps, EnqueueDataKeeps, DequeueDataKeeps, PublishKeeps
    DEF Next
<1> QED
  BY <1>1, <1>2, PTL DEF Spec

\* A thread that claimed a position is alone with its cell until it stores the
\* sequence number, and a dequeue returns the value enqueued for its position,
\* for any number of threads and cells, and whatever the loads returned.
THEOREM CellIsOwnedHolds == Spec => []CellIsOwned
<1>1. Inv => CellIsOwned
  <2> SUFFICES ASSUME Inv PROVE CellIsOwned
    OBVIOUS
  <2>1. TypeOK
    BY DEF Inv
  <2>2. ASSUME NEW c \in Consumers, At(c, "publish")
        PROVE  pos[c] < Len(log) /\ val[c] = log[pos[c] + 1]
    <3>1. Consuming(c) /\ Owns(c) /\ pos[c] \in Nat /\ deq \in Nat /\ enq \in Nat
      BY <2>2 DEF Inv, At, Owns, TypeOK, Threads
    <3> QED
      BY <2>2, <3>1 DEF Consuming, Inv, Claimed
  <2> QED
    BY <2>1, <2>2, Alone DEF CellIsOwned
<1> QED
  BY <1>1, InvHolds, PTL

\* Producers and consumers together see a bounded Fifo: the compare-and-exchange
\* of enqueue_pos_ is a Put, that of dequeue_pos_ a Take, and every other step
\* changes nothing of it.
THEOREM MpmcIsFifo == Spec => IsFifo
<1>1. Init => Abstract!Init
  BY DEF Init, Abstract!Init
<1>2. Inv /\ [Next]_vars => [Abstract!Next]_<<SubSeq(log, deq + 1, Len(log)), SubSeq(log, 1, deq)>>
  <2> SUFFICES ASSUME Inv, [Next]_vars
               PROVE  \/ Abstract!Next
                      \/ UNCHANGED <<SubSeq(log, deq + 1, Len(log)), SubSeq(log, 1, deq)>>
    BY Zenon
  <2>0. /\ log \in Seq(Values) /\ Len(log) = enq /\ deq <= enq
        /\ deq \in Nat /\ enq \in Nat
    BY DEF Inv, TypeOK, Claimed
  <2>1. ASSUME NEW p \in Producers, EnqueueCas(p) PROVE Abstract!Next
    <3>1. /\ enq - deq < Size /\ val[p] \in Values
          /\ log' = Append(log, val[p]) /\ deq' = deq
      BY <2>1, EnqueueCasKeeps DEF EnqueueCas
    <3>2. SubSeq(log', deq' + 1, Len(log')) = Append(SubSeq(log, deq + 1, Len(log)), val[p])
      BY <2>0, <3>1
    <3>3. SubSeq(log', 1, deq') = SubSeq(log, 1, deq)
      BY <2>0, <3>1
    <3>4. Len(SubSeq(log, deq + 1, Len(log))) < Size
      BY <2>0, <3>1
    <3> QED
      BY Zenon, <3>1, <3>2, <3>3, <3>4 DEF Abstract!Next, Abstract!Put
  <2>2. ASSUME NEW c \in Consumers, DequeueCas(c) PROVE Abstract!Next
    <3>1. deq < enq /\ deq' = deq + 1 /\ log' = log
      BY <2>2, DequeueCasKeeps DEF DequeueCas, Current, Counter
    <3>2. /\ SubSeq(log, deq + 1, Len(log)) # <<>>
          /\ Head(SubSeq(log, deq + 1, Len(log))) = log[deq + 1]
      BY <2>0, <3>1
    <3>3. SubSeq(log', deq' + 1, Len(log')) = Tail(SubSeq(log, deq + 1, Len(log)))
      BY <2>0, <3>1
    <3>4. SubSeq(log', 1, deq') = Append(SubSeq(log, 1, deq), log[deq + 1])
      BY <2>0, <3>1
    <3> QED
      BY Zenon, <3>2, <3>3, <3>4 DEF Abstract!Next, Abstract!Take
  <2>3. CASE UNCHANGED <<log, deq>>
    BY <2>3
  <2> QED
    BY Zenon, <2>1, <2>2, <2>3
    DEF Next, vars, EnqueueCall, DequeueCall, EnqueueData, DequeueData, LoadPos, LoadSeq, CasFails, Publish
<1> QED
  BY <1>1, <1>2, InvHolds, PTL DEF Spec, IsFifo, Abstract!Spec
HIDE MpmcAssumption

-----------------------------------------------------------------------------
(* A timer that only its loop starts.                                      *)

LoopStarts == Starters \subseteq {"loop"}

\* The start in progress is the newest, and no handler of it has been called.
StartInv ==
  starting # NotStarting =>
    /\ alive /\ Newest \in Ids /\ starting.by = "loop" /\ starting.handler[1] = Newest
    /\ event = (IF starting.step = "add" THEN "new" ELSE "pending")
    /\ calls[Newest] = 0 /\ Newest \notin failed
    /\ starting.rounds = (IF starting.handler[2] = "user" THEN starts[Newest].rounds ELSE 1)
    /\ persist = (starting.rounds > 1)
    /\ running = Outside \/ (running[2] = "user" /\ running[1] < Newest)

\* A pending event, whose start is complete, has calls to make.
PendingInv ==
  /\ event \in {"none", "new", "pending"} /\ (event = "new" => starting # NotStarting)
  /\ event = "pending" /\ starting = NotStarting =>
       /\ alive /\ Newest \in Ids /\ handler \in Handlers /\ handler[1] = Newest
       /\ Newest \notin failed /\ persist = (round > 1)
       /\ IF handler[2] = "user"
          THEN round = starts[Newest].rounds /\ calls[Newest] = curRound /\ curRound < Due(Newest)
          ELSE round = 1 /\ curRound = 0 /\ calls[Newest] = 0

\* The handler that runs is of a start made, and counted; the lambda of startAfter
\* runs when the event is gone.
RunInv ==
  /\ running # Outside => running \in Handlers /\ running[1] <= Newest
  /\ running # Outside /\ running[2] = "delay" =>
       /\ alive /\ running[1] = Newest /\ event = "none"
       /\ calls[Newest] = 0 /\ Newest \notin failed
  /\ running # Outside /\ running = <<Newest, "user">> /\ starting = NotStarting =>
       round = starts[Newest].rounds /\ calls[Newest] = curRound /\ curRound > 0

\* What the starts have come to.
CallsInv ==
  /\ failed \subseteq 1..Newest
  /\ \A k \in Ids : k > Newest => calls[k] = 0
  /\ \A k \in 1..Newest : calls[k] <= Due(k)
  /\ \A k \in 1..Newest : alive /\ k \notin failed /\ k < Newest => calls[k] = Due(k)
  /\ alive /\ Newest > 0 /\ Newest \notin failed /\ event = "none" /\ running # <<Newest, "delay">>
       => calls[Newest] = Due(Newest)
  /\ ~alive => event = "none" /\ starting = NotStarting

TimerInv ==
  /\ TimerTypeOK /\ Newest <= MaxTimes
  /\ StartInv /\ PendingInv /\ RunInv /\ CallsInv

\* A start in progress is told from none by its step.
LEMMA StartingIs ==
  ASSUME NEW s \in Starting
  PROVE  s # NotStarting /\ s.step \in {"add", "set"} /\ s.handler \in Handlers /\ s.rounds \in Nat
<1>1. s.step \in {"add", "set"} /\ s.handler \in Handlers /\ s.rounds \in Rounds \cup {1, Forever}
  BY DEF Starting
<1>2. NotStarting.step = "none"
  BY DEF NotStarting
<1>3. s.rounds \in Nat
  <2>1. Rounds \subseteq Nat /\ Forever \in Nat /\ 1 \in Nat
    BY TimerAssumption
  <2> QED BY Zenon, <1>1, <2>1
<1> QED BY <1>1, <1>2, <1>3

\* A handler, by its parts.
LEMMA HandlerIs ==
  ASSUME NEW h \in Handlers
  PROVE  /\ h[1] \in Ids /\ h[2] \in {"user", "delay"} /\ h = <<h[1], h[2]>>
         /\ h # Outside /\ h # NoHandler
  BY DEF Handlers, Outside, NoHandler

\* A start has a round to run.
LEMMA DueIs ==
  ASSUME starts \in Seq(Start), NEW k \in 1..Newest
  PROVE  /\ starts[k] \in Start /\ starts[k].rounds \in Nat /\ Due(k) \in Nat \ {0}
         /\ starts[k].rounds # 0 => Due(k) = starts[k].rounds
         /\ starts[k].rounds = 0 => Due(k) = 1
<1>1. starts[k] \in Start
  BY DEF Newest
<1>2. starts[k].rounds \in Nat
  BY Zenon, <1>1, TimerAssumption DEF Start
<1> QED BY <1>1, <1>2 DEF Due

\* A start: the newest is complete, and becomes one of the others.
LEMMA StartCallKeeps ==
  ASSUME LoopStarts, TimerInv, NEW t \in Starters, NEW kind \in {"rounds", "forever", "after"},
         NEW r \in Rounds \cup {Forever}, StartCall(t, kind, r)
  PROVE  TimerInv'
<1> USE TimerAssumption DEF Ids
<1>1. /\ t = "loop" /\ alive /\ starting = NotStarting /\ event = "none"
      /\ running # Outside => running[2] = "user"
      /\ UNCHANGED <<round, curRound, handler, running, failed, calls, alive>>
  BY DEF LoopStarts, StartCall
<1>2. PICK n \in Nat : n = Newest + 1 /\ n \in Ids /\ Newest \in Nat
  BY DEF StartCall, TimerInv, TimerTypeOK, Newest
<1>3. PICK x \in Start : x = [kind |-> kind, rounds |-> r]
  BY Zenon DEF Start
<1>4. /\ starts' \in Seq(Start) /\ Newest' = n
      /\ \A k \in 1..Newest : starts'[k] = starts[k]
      /\ starts'[n].rounds = r
  <2>1. starts' = Append(starts, x) /\ starts \in Seq(Start)
    BY <1>3 DEF StartCall, TimerInv, TimerTypeOK
  <2> QED BY <1>2, <1>3, <2>1 DEF Newest
<1>5. PICK h \in Handlers, q \in Rounds \cup {1, Forever} :
        /\ h[1] = n /\ q = (IF h[2] = "user" THEN r ELSE 1)
        /\ event' = "new" /\ persist' = (q > 1)
        /\ starting' = [by |-> "loop", handler |-> h, rounds |-> q, step |-> "add"]
  <2>1. CASE kind = "after"
    <3>1. <<n, "delay">> \in Handlers /\ <<n, "delay">>[1] = n /\ <<n, "delay">>[2] = "delay"
      BY <1>2 DEF Handlers
    <3>2. StartBegin("loop", <<n, "delay">>, 1)
      BY <1>1, <1>2, <2>1 DEF StartCall, Newest
    <3> QED BY <3>1, <3>2 DEF StartBegin
  <2>2. CASE kind # "after"
    <3>1. <<n, "user">> \in Handlers /\ <<n, "user">>[1] = n /\ <<n, "user">>[2] = "user"
      BY <1>2 DEF Handlers
    <3>2. StartBegin("loop", <<n, "user">>, r)
      BY <1>1, <1>2, <2>2 DEF StartCall, Newest
    <3> QED BY <3>1, <3>2 DEF StartBegin
  <2> QED BY <2>1, <2>2
<1>6. /\ starting' \in Starting /\ starting' # NotStarting /\ starting'.by = "loop"
      /\ starting'.handler = h /\ starting'.rounds = q /\ starting'.step = "add"
  BY <1>5 DEF Starting, NotStarting
<1>7. TimerTypeOK' /\ Newest' <= MaxTimes
  BY <1>1, <1>2, <1>4, <1>5, <1>6 DEF TimerInv, TimerTypeOK
<1>8. calls[n] = 0 /\ n \notin failed
  BY <1>2 DEF TimerInv, CallsInv
<1>9. running # Outside => running \in Handlers /\ running[1] < n /\ running[2] = "user"
  BY <1>1, <1>2, HandlerIs DEF TimerInv, RunInv
<1>10. StartInv'
  BY <1>1, <1>2, <1>4, <1>5, <1>6, <1>8, <1>9 DEF StartInv
<1>11. PendingInv'
  BY <1>5, <1>6 DEF PendingInv
<1>12. RunInv'
  <2>1. running # <<n, "user">>
    BY <1>2, <1>9, HandlerIs DEF Outside
  <2>2. running # Outside => running[1] <= n
    BY <1>2, <1>9, HandlerIs
  <2>3. running' = running /\ Newest' = n
    BY <1>1, <1>4
  <2>4. ~(running # Outside /\ running[2] = "delay")
    BY <1>9
  <2> QED BY <1>9, <2>1, <2>2, <2>3, <2>4 DEF RunInv
<1>13. \A k \in 1..Newest : Due(k)' = Due(k)
  BY <1>4 DEF Due
<1>14. calls[n] <= Due(n)'
  <2>1. Due(n)' \in Nat
    BY <1>2, <1>4 DEF Due
  <2> QED BY <1>8, <2>1
<1>15. \A k \in 1..Newest : k \notin failed => calls[k] = Due(k)
  <2>1. running # <<Newest, "delay">>
    BY <1>9, HandlerIs DEF Outside
  <2> QED BY <1>1, <1>2, <2>1 DEF TimerInv, CallsInv
<1>16. CallsInv'
  <2>1. failed' \subseteq 1..Newest' /\ \A k \in Ids : k > Newest' => calls'[k] = 0
    BY <1>1, <1>2, <1>4 DEF TimerInv, CallsInv
  <2>2. \A k \in 1..Newest' : k \in 1..Newest \/ k = n
    BY <1>2, <1>4
  <2>3. \A k \in 1..Newest' : calls'[k] <= Due(k)'
    <3>1. \A k \in 1..Newest : calls[k] <= Due(k)
      BY Zenon DEF TimerInv, CallsInv
    <3>2. calls' = calls
      BY <1>1
    <3> QED BY Zenon, <1>13, <1>14, <2>2, <3>1, <3>2
  <2>4. \A k \in 1..Newest' : k \notin failed' /\ k < Newest' => calls'[k] = Due(k)'
    BY <1>1, <1>2, <1>4, <1>13, <1>15, <2>2
  <2> QED BY <1>1, <1>5, <2>1, <2>3, <2>4 DEF CallsInv
<1> QED BY <1>7, <1>10, <1>11, <1>12, <1>16 DEF TimerInv

\* What depends only on the starts.
LEMMA SameStarts ==
  ASSUME UNCHANGED starts
  PROVE  Newest' = Newest /\ \A k : Due(k)' = Due(k)
  BY DEF Newest, Due

\* event_new or event_add fails, or both are done.
LEMMA StartAddKeeps ==
  ASSUME TimerInv, StartFails \/ StartAdd
  PROVE  TimerInv'
<1> USE TimerAssumption DEF Ids
<1>1. /\ starting \in Starting /\ starting # NotStarting /\ starting.step = "add"
      /\ UNCHANGED <<persist, round, curRound, handler, running, starts, calls, alive>>
  BY DEF StartFails, StartAdd, TimerInv, TimerTypeOK
<1>2. /\ alive /\ Newest \in Ids /\ starting.by = "loop" /\ starting.handler[1] = Newest
      /\ calls[Newest] = 0 /\ Newest \notin failed
      /\ starting.rounds = (IF starting.handler[2] = "user" THEN starts[Newest].rounds ELSE 1)
      /\ persist = (starting.rounds > 1)
      /\ running = Outside \/ (running[2] = "user" /\ running[1] < Newest)
  BY <1>1 DEF TimerInv, StartInv
<1>3. Newest' = Newest /\ \A k : Due(k)' = Due(k)
  BY <1>1, SameStarts
<1>4. running # <<Newest, "user">> /\ (running # Outside => running[2] # "delay")
  BY <1>2 DEF Outside
<1>5. CASE StartFails
  <2>1. event' = "none" /\ failed' = failed \cup {Newest} /\ starting' = NotStarting
    BY <1>2, <1>5 DEF StartFails
  <2>2. TimerTypeOK' /\ Newest' <= MaxTimes
    BY <1>1, <1>2, <1>3, <2>1 DEF TimerInv, TimerTypeOK
  <2>3. StartInv' /\ PendingInv'
    BY <2>1 DEF StartInv, PendingInv
  <2>4. RunInv'
    BY <1>1, <1>3, <1>4, <2>1 DEF TimerInv, RunInv
  <2>5. CallsInv'
    BY <1>1, <1>2, <1>3, <2>1 DEF TimerInv, CallsInv
  <2> QED BY <2>2, <2>3, <2>4, <2>5 DEF TimerInv
<1>6. CASE StartAdd
  <2>1. event' = "pending" /\ starting' = [starting EXCEPT !.step = "set"] /\ UNCHANGED failed
    BY <1>6 DEF StartAdd
  <2>2. /\ starting' \in Starting /\ starting' # NotStarting /\ starting'.step = "set"
        /\ starting'.by = starting.by /\ starting'.handler = starting.handler
        /\ starting'.rounds = starting.rounds
    BY <1>1, <2>1 DEF Starting, NotStarting
  <2>3. TimerTypeOK' /\ Newest' <= MaxTimes
    BY <1>1, <1>3, <2>1, <2>2 DEF TimerInv, TimerTypeOK
  <2>4. StartInv'
    BY <1>1, <1>2, <1>3, <2>1, <2>2 DEF StartInv
  <2>5. PendingInv'
    BY <2>1, <2>2 DEF PendingInv
  <2>6. RunInv'
    BY <1>1, <1>3, <1>4, <2>1, <2>2 DEF TimerInv, RunInv
  <2>7. CallsInv'
    BY <1>1, <1>2, <1>3, <2>1 DEF TimerInv, CallsInv
  <2> QED BY <2>3, <2>4, <2>5, <2>6, <2>7 DEF TimerInv
<1> QED BY <1>5, <1>6

\* The assignments after event_add.
LEMMA StartSetKeeps ==
  ASSUME TimerInv, StartSet
  PROVE  TimerInv'
<1> USE TimerAssumption DEF Ids
<1>1. /\ starting \in Starting /\ starting # NotStarting /\ starting.step = "set"
      /\ round' = starting.rounds /\ curRound' = 0 /\ handler' = starting.handler
      /\ starting' = NotStarting
      /\ UNCHANGED <<event, persist, running, starts, failed, calls, alive>>
  BY DEF StartSet, ClearRound, StoreHandler, TimerInv, TimerTypeOK
<1>2. /\ alive /\ Newest \in Ids /\ starting.handler[1] = Newest /\ event = "pending"
      /\ calls[Newest] = 0 /\ Newest \notin failed
      /\ starting.rounds = (IF starting.handler[2] = "user" THEN starts[Newest].rounds ELSE 1)
      /\ persist = (starting.rounds > 1)
      /\ running = Outside \/ (running[2] = "user" /\ running[1] < Newest)
  BY <1>1 DEF TimerInv, StartInv
<1>3. Newest' = Newest /\ \A k : Due(k)' = Due(k)
  BY <1>1, SameStarts
<1>4. running # <<Newest, "user">> /\ (running # Outside => running[2] # "delay")
  BY <1>2 DEF Outside
<1>5. starting.handler \in Handlers /\ starting.rounds \in Nat
  BY <1>1, StartingIs
<1>6. TimerTypeOK' /\ Newest' <= MaxTimes
  BY <1>1, <1>3, <1>5 DEF TimerInv, TimerTypeOK
<1>7. StartInv'
  BY <1>1 DEF StartInv
<1>8. PendingInv'
  <2>1. Due(Newest) \in Nat \ {0}
    BY <1>2, DueIs DEF TimerInv, TimerTypeOK
  <2>2. 0 < Due(Newest)
    BY <2>1
  <2> QED BY <1>1, <1>2, <1>3, <1>5, <2>2 DEF PendingInv
<1>9. RunInv'
  BY <1>1, <1>3, <1>4 DEF TimerInv, RunInv
<1>10. CallsInv'
  BY <1>1, <1>2, <1>3 DEF TimerInv, CallsInv
<1> QED BY <1>6, <1>7, <1>8, <1>9, <1>10 DEF TimerInv

\* The timeout calls the handler of the newest start, the last time when as many
\* calls as it asked for have been made.
LEMMA FireKeeps ==
  ASSUME TimerInv, Fire
  PROVE  TimerInv'
<1> USE TimerAssumption DEF Ids
<1>1. /\ event = "pending" /\ running = Outside /\ starting = NotStarting
      /\ curRound' = curRound + 1 /\ running' = handler
      /\ event' = IF curRound + 1 >= round THEN "none" ELSE IF persist THEN "pending" ELSE "spent"
      /\ UNCHANGED <<persist, round, handler, starting, starts, failed, alive>>
  BY DEF Fire, UpdateEvent, LastRound, TimerInv, StartInv
<1>2. /\ alive /\ Newest \in Ids /\ handler \in Handlers /\ handler[1] = Newest
      /\ Newest \notin failed /\ persist = (round > 1)
      /\ IF handler[2] = "user"
         THEN round = starts[Newest].rounds /\ calls[Newest] = curRound /\ curRound < Due(Newest)
         ELSE round = 1 /\ curRound = 0 /\ calls[Newest] = 0
  BY <1>1 DEF TimerInv, PendingInv
<1>3. Newest' = Newest /\ \A k : Due(k)' = Due(k)
  BY <1>1, SameStarts
<1>4. /\ round \in Nat /\ curRound \in Nat /\ calls \in [Ids -> Nat]
      /\ Newest \in 1..Newest /\ Newest \in Nat
  BY <1>2 DEF TimerInv, TimerTypeOK
<1>5. /\ Due(Newest) \in Nat \ {0}
      /\ starts[Newest].rounds # 0 => Due(Newest) = starts[Newest].rounds
      /\ starts[Newest].rounds = 0 => Due(Newest) = 1
  BY <1>4, DueIs DEF TimerInv, TimerTypeOK
<1>6. running' # Outside /\ running' \in Handlers /\ running'[1] = Newest
      /\ running' = <<Newest, handler[2]>> /\ handler[2] \in {"user", "delay"}
  BY <1>1, <1>2, HandlerIs
<1>7. CASE handler[2] = "user"
  <2>1. calls' = [calls EXCEPT ![Newest] = curRound + 1]
    BY Zenon, <1>2, <1>7 DEF Fire
  <2>2. /\ calls'[Newest] = curRound + 1 /\ calls' \in [Ids -> Nat]
        /\ \A k \in Ids : k # Newest => calls'[k] = calls[k]
    BY <1>2, <1>4, <2>1
  <2>3. event' = (IF curRound + 1 >= round THEN "none" ELSE "pending")
    <3>1. ~(curRound + 1 >= round) => round > 1
      BY <1>4
    <3>2. ~(curRound + 1 >= round) => persist
      BY Zenon, <1>2, <3>1
    <3> QED BY <1>1, <3>2
  <2>4. /\ curRound + 1 >= round => curRound + 1 = Due(Newest)
        /\ ~(curRound + 1 >= round) => curRound + 1 < Due(Newest)
        /\ curRound + 1 <= Due(Newest)
    BY <1>2, <1>4, <1>5, <1>7
  <2>5. TimerTypeOK' /\ Newest' <= MaxTimes
    BY <1>1, <1>3, <1>4, <1>6, <2>2, <2>3 DEF TimerInv, TimerTypeOK
  <2>6. StartInv'
    BY <1>1 DEF StartInv
  <2>7. PendingInv'
    BY <1>1, <1>2, <1>3, <1>7, <2>2, <2>3, <2>4 DEF PendingInv
  <2>8. RunInv'
    BY <1>1, <1>2, <1>3, <1>4, <1>6, <1>7, <2>2 DEF RunInv
  <2>9. CallsInv'
    <3>1. \A k \in 1..Newest : k # Newest => calls'[k] = calls[k]
      BY <1>2, <2>2
    <3>2. \A k \in Ids : k > Newest => calls'[k] = calls[k]
      BY <1>4, <2>2
    <3>3. \A k \in 1..Newest : calls'[k] <= Due(k)
      BY <2>2, <2>4, <3>1 DEF TimerInv, CallsInv
    <3>4. \A k \in 1..Newest : k \notin failed /\ k < Newest => calls'[k] = Due(k)
      BY <1>2, <1>4, <3>1 DEF TimerInv, CallsInv
    <3>5. event' = "none" => calls'[Newest] = Due(Newest)
      BY <2>2, <2>3, <2>4
    <3>6. failed \subseteq 1..Newest /\ \A k \in Ids : k > Newest => calls'[k] = 0
      BY <3>2 DEF TimerInv, CallsInv
    <3> QED BY <1>1, <1>2, <1>3, <3>3, <3>4, <3>5, <3>6 DEF CallsInv
  <2> QED BY <2>5, <2>6, <2>7, <2>8, <2>9 DEF TimerInv
<1>8. CASE handler[2] = "delay"
  <2>1. calls' = calls /\ event' = "none"
    BY <1>1, <1>2, <1>8 DEF Fire
  <2>2. running' = <<Newest, "delay">> /\ running'[2] = "delay" /\ running' # <<Newest, "user">>
    BY <1>6, <1>8
  <2>3. TimerTypeOK' /\ Newest' <= MaxTimes
    BY <1>1, <1>3, <1>4, <1>6, <2>1 DEF TimerInv, TimerTypeOK
  <2>4. StartInv' /\ PendingInv'
    BY <1>1, <2>1 DEF StartInv, PendingInv
  <2>5. RunInv'
    BY <1>1, <1>2, <1>3, <1>4, <1>6, <1>8, <2>1, <2>2 DEF RunInv
  <2>6. CallsInv'
    BY <1>1, <1>2, <1>3, <2>1, <2>2 DEF TimerInv, CallsInv
  <2> QED BY <2>3, <2>4, <2>5, <2>6 DEF TimerInv
<1> QED BY <1>6, <1>7, <1>8

\* The lambda of startAfter finds no event, and starts the rounds.
LEMMA DelayOverKeeps ==
  ASSUME TimerInv, DelayOver
  PROVE  TimerInv'
<1> USE TimerAssumption DEF Ids
<1>1. /\ running # Outside /\ running[2] = "delay" /\ running' = Outside
      /\ UNCHANGED <<round, curRound, handler, starts, calls, alive>>
  BY DEF DelayOver
<1>2. /\ alive /\ running[1] = Newest /\ event = "none" /\ running \in Handlers
      /\ calls[Newest] = 0 /\ Newest \notin failed
  BY <1>1 DEF TimerInv, RunInv
<1>3. Newest \in Ids /\ Newest \in 1..Newest
  BY <1>2, HandlerIs
<1>4. PICK r \in Nat : r = starts[Newest].rounds /\ r \in Rounds \cup {1, Forever}
  BY <1>3, DueIs DEF TimerInv, TimerTypeOK, Start
<1>5. PICK h \in Handlers : h = <<Newest, "user">> /\ h[1] = Newest /\ h[2] = "user"
  <2>1. <<Newest, "user">> \in Handlers /\ <<Newest, "user">>[1] = Newest
        /\ <<Newest, "user">>[2] = "user"
    BY <1>3 DEF Handlers
  <2> QED BY <2>1
<1>6. /\ event' = "new" /\ persist' = (r > 1) /\ UNCHANGED failed
      /\ starting' = [by |-> "loop", handler |-> h, rounds |-> r, step |-> "add"]
  BY <1>2, <1>4, <1>5 DEF DelayOver, StartBegin
<1>7. /\ starting' \in Starting /\ starting' # NotStarting /\ starting'.by = "loop"
      /\ starting'.handler = h /\ starting'.rounds = r /\ starting'.step = "add"
  BY <1>4, <1>6 DEF Starting, NotStarting
<1>8. Newest' = Newest /\ \A k : Due(k)' = Due(k)
  BY <1>1, SameStarts
<1>9. TimerTypeOK' /\ Newest' <= MaxTimes
  BY <1>1, <1>6, <1>7, <1>8 DEF TimerInv, TimerTypeOK
<1>10. StartInv'
  BY <1>1, <1>2, <1>3, <1>4, <1>5, <1>6, <1>7, <1>8 DEF StartInv
<1>11. PendingInv'
  BY <1>6, <1>7 DEF PendingInv
<1>12. RunInv'
  BY <1>1 DEF RunInv
<1>13. CallsInv'
  BY <1>1, <1>2, <1>6, <1>8 DEF TimerInv, CallsInv
<1> QED BY <1>9, <1>10, <1>11, <1>12, <1>13 DEF TimerInv

\* The user's handler returns; the timer is destroyed.
LEMMA RestOfTimerKeeps ==
  ASSUME TimerInv, HandlerReturns \/ TimerDestroy \/ UNCHANGED timerVars
  PROVE  TimerInv'
<1>1. CASE UNCHANGED timerVars
  BY <1>1 DEF timerVars, TimerInv, TimerTypeOK, StartInv, PendingInv, RunInv, CallsInv, Newest, Due
<1>2. CASE HandlerReturns
  <2>1. /\ running # Outside /\ running[2] = "user" /\ starting = NotStarting /\ running' = Outside
        /\ UNCHANGED <<event, persist, round, curRound, handler, starting, starts, failed, calls, alive>>
    BY <1>2 DEF HandlerReturns, TimerInv, StartInv
  <2>2. Newest' = Newest /\ \A k : Due(k)' = Due(k)
    BY <2>1, SameStarts
  <2>3. TimerTypeOK' /\ Newest' <= MaxTimes
    BY <2>1, <2>2 DEF TimerInv, TimerTypeOK
  <2>4. StartInv' /\ PendingInv' /\ RunInv'
    BY <2>1, <2>2 DEF TimerInv, StartInv, PendingInv, RunInv
  <2>5. running # <<Newest, "delay">>
    BY <2>1
  <2>6. CallsInv'
    BY <2>1, <2>2, <2>5 DEF TimerInv, CallsInv
  <2> QED BY <2>3, <2>4, <2>6 DEF TimerInv
<1>3. CASE TimerDestroy
  <2>1. /\ starting = NotStarting /\ (running # Outside => running[2] = "user")
        /\ ~alive' /\ alive' \in BOOLEAN /\ event' = "none"
        /\ UNCHANGED <<persist, round, curRound, handler, starting, running, starts, failed, calls>>
    BY Zenon, <1>3 DEF TimerDestroy
  <2>2. Newest' = Newest /\ \A k : Due(k)' = Due(k)
    BY <2>1, SameStarts
  <2>3. TimerTypeOK' /\ Newest' <= MaxTimes
    BY <2>1, <2>2 DEF TimerInv, TimerTypeOK
  <2>4. StartInv' /\ PendingInv'
    BY <2>1 DEF StartInv, PendingInv
  <2>5. RunInv'
    BY <2>1, <2>2 DEF TimerInv, RunInv
  <2>6. CallsInv'
    BY <2>1, <2>2 DEF TimerInv, CallsInv
  <2> QED BY <2>3, <2>4, <2>5, <2>6 DEF TimerInv
<1> QED BY <1>1, <1>2, <1>3

\* Every step of the timer keeps its invariant, which it begins with.
LEMMA TimerStep ==
  ASSUME LoopStarts, TimerInv, TimerNext \/ UNCHANGED timerVars
  PROVE  TimerInv'
  BY Zenon, StartCallKeeps, StartAddKeeps, StartSetKeeps, FireKeeps, DelayOverKeeps, RestOfTimerKeeps
     DEF TimerNext

LEMMA TimerBegin == TimerInit => TimerInv
<1> SUFFICES ASSUME TimerInit PROVE TimerInv
  OBVIOUS
<1> USE TimerAssumption DEF TimerInit
<1>1. Newest = 0 /\ starts \in Seq(Start)
  BY DEF Newest
<1>2. TimerTypeOK
  BY Zenon, <1>1 DEF TimerTypeOK, Ids
<1>3. CallsInv
  BY <1>1 DEF CallsInv
<1> QED
  BY <1>1, <1>2, <1>3 DEF TimerInv, StartInv, PendingInv, RunInv

\* What the invariant says of the calls.
LEMMA TimerRounds == TimerInv => RoundsExact
<1> SUFFICES ASSUME TimerInv PROVE RoundsExact
  OBVIOUS
<1> USE TimerAssumption
<1>1. TimerTypeOK
  BY DEF TimerInv
<1>2. ASSUME NEW k \in 1..Newest
      PROVE  /\ calls[k] <= Due(k)
             /\ calls[k] < Due(k) /\ alive /\ k \notin failed => k = Newest
             /\ k = Newest /\ event = "none" /\ alive /\ k \notin failed /\ running = Outside
                  => calls[k] = Due(k)
             /\ k = Newest /\ running = <<k, "user">> /\ starting = NotStarting
                  => (curRound >= round <=> calls[k] = Due(k))
  <2>1. Newest \in Nat /\ Newest <= MaxTimes /\ k \in Ids
    BY DEF TimerInv, TimerTypeOK, Newest, Ids
  <2>2. /\ calls[k] \in Nat /\ Due(k) \in Nat \ {0} /\ curRound \in Nat
        /\ starts[k].rounds \in Nat
        /\ starts[k].rounds # 0 => Due(k) = starts[k].rounds
        /\ starts[k].rounds = 0 => Due(k) = 1
    BY <2>1, DueIs DEF TimerInv, TimerTypeOK
  <2>3. calls[k] <= Due(k)
    BY DEF TimerInv, CallsInv
  <2>4. calls[k] < Due(k) /\ alive /\ k \notin failed => k = Newest
    BY <2>1, <2>2 DEF TimerInv, CallsInv
  <2>5. k = Newest /\ event = "none" /\ alive /\ k \notin failed /\ running = Outside
          => calls[k] = Due(k)
    <3>1. running = Outside => running # <<Newest, "delay">>
      BY DEF Outside
    <3> QED BY <2>1, <3>1 DEF TimerInv, CallsInv
  <2>6. ASSUME k = Newest, running = <<k, "user">>, starting = NotStarting
        PROVE  curRound >= round <=> calls[k] = Due(k)
    <3>1. round = starts[k].rounds /\ calls[k] = curRound /\ curRound > 0
      <4>1. running # Outside
        BY <2>6 DEF Outside
      <4> QED BY <2>6, <4>1 DEF TimerInv, RunInv
    <3> QED BY <2>2, <2>3, <3>1
  <2> QED BY <2>3, <2>4, <2>5, <2>6
<1> QED BY <1>1, <1>2 DEF RoundsExact

\* ec::Timer, when only its loop's thread starts it: a start that does not fail calls
\* its handler as often as it asked for, also when the handler starts the timer again,
\* and isFinished() is true in the last call and only there.
THEOREM RoundsExactHolds == ASSUME LoopStarts PROVE TimerSpec => []RoundsExact
<1>1. TimerInv /\ [TimerNext]_timerVars => TimerInv'
  BY Zenon, LoopStarts, TimerStep
<1> QED
  BY <1>1, TimerBegin, TimerRounds, PTL DEF TimerSpec
=============================================================================
