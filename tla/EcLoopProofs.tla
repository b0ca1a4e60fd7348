---------------------------- MODULE EcLoopProofs ----------------------------
(***************************************************************************)
(* Proofs about EcLoop for any loops, external threads, call graph and     *)
(* number of items.                                                        *)
(***************************************************************************)
EXTENDS EcLoop, SequenceTheorems, FiniteSetTheorems, TLAPS

\* A push to any queue keeps the type of the queues.
LEMMA PushType ==
  ASSUME q \in [Loops \X Queues -> Seq(Ids)], NEW l, NEW k, NEW i \in Ids, Push(l, k, i)
  PROVE  q' \in [Loops \X Queues -> Seq(Ids)]
<1>1. ASSUME NEW lk \in Loops \X Queues PROVE Append(q[lk], i) \in Seq(Ids)
  <2>1. q[lk] \in Seq(Ids)
    OBVIOUS
  <2> QED BY <2>1, AppendProperties
<1> QED BY Zenon, <1>1 DEF Push

\* Taking everything from a queue keeps the types of the queues and the lists.
LEMMA MoveAllType ==
  ASSUME q \in [Loops \X Queues -> Seq(Ids)], moved \in [Loops -> Seq(Ids)],
         NEW l \in Loops, NEW k \in Queues, MoveAll(l, k)
  PROVE  /\ q' \in [Loops \X Queues -> Seq(Ids)]
         /\ moved' \in [Loops -> Seq(Ids)]
<1>1. q[<<l, k>>] \in Seq(Ids) /\ <<>> \in Seq(Ids)
  OBVIOUS
<1> QED BY <1>1 DEF MoveAll

\* Type correctness: the variables keep their types in every step.
THEOREM TypeCorrect == Spec => []TypeOK
<1> USE LoopAssumption
<1>1. Init => TypeOK
  BY DEF Init, TypeOK, Phases, Queues, Stages
<1>2. TypeOK /\ [Next]_vars => TypeOK'
  <2> SUFFICES ASSUME TypeOK, [Next]_vars PROVE TypeOK'
    OBVIOUS
  <2> USE DEF Queues, Kinds, Phases, Stages
  <2>1. ASSUME NEW t \in Threads, NEW l \in Loops, NEW kind \in Kinds,
               NEW handler \in BOOLEAN, Call(t, l, kind, handler)
        PROVE  TypeOK'
    BY <2>1 DEF TypeOK, Threads, Call, CurLoop, Counts, Item
  <2>2. ASSUME NEW t \in Threads, PushCall(t) PROVE TypeOK'
    <3>1. PICK l, k : Push(l, k, calling[t])
      BY <2>2 DEF PushCall
    <3>2. calling[t] \in Ids
      BY <2>2 DEF PushCall, TypeOK
    <3>3. q' \in [Loops \X Queues -> Seq(Ids)]
      BY <3>1, <3>2, PushType DEF TypeOK
    <3>4. /\ stage' = [stage EXCEPT ![calling[t]] = "queued"]
          /\ calling' = [calling EXCEPT ![t] = None]
          /\ UNCHANGED <<phase, exit, stopping, registered, moved, cur, pending, item>>
      BY <2>2 DEF PushCall
    <3> QED BY <3>2, <3>3, <3>4 DEF TypeOK
  <2>3. ASSUME NEW t \in Threads, NEW l \in Loops, StopPending(t, l) \/ StopNow(t, l)
        PROVE  TypeOK'
    BY ZenonT(60), <2>3 DEF TypeOK, StopPending, StopNow, LoopExit
  <2>4. ASSUME NEW l \in Loops, Start(l) \/ Destroy(l) PROVE TypeOK'
    BY Zenon, <2>4 DEF TypeOK, Start, Destroy
  <2>5. ASSUME NEW l \in Loops, EnterLoop(l) \/ LeaveLoop(l) \/ Finish(l) PROVE TypeOK'
    BY Zenon, <2>5 DEF TypeOK, EnterLoop, LeaveLoop, Finish
  <2>6. ASSUME NEW l \in Loops, FrameBegin(l) PROVE TypeOK'
    BY <2>6, MoveAllType DEF TypeOK, FrameBegin
  <2>7. ASSUME NEW l \in Loops, Serve(l) \/ Reply(l) PROVE TypeOK'
    <3>1. Head(moved[l]) \in Ids /\ Tail(moved[l]) \in Seq(Ids)
      BY <2>7, HeadTailProperties DEF TypeOK, Serve, Reply
    <3>2. CASE Serve(l)
      BY <3>1, <3>2 DEF TypeOK, Serve
    <3>3. CASE Reply(l)
      BY <3>1, <3>3 DEF TypeOK, Reply
    <3> QED BY <2>7, <3>2, <3>3
  <2>8. ASSUME NEW l \in Loops, PostDone(l) \/ ReplyDone(l) PROVE TypeOK'
    BY Zenon, <2>8 DEF TypeOK, PostDone, ReplyDone
  <2>9. ASSUME NEW l \in Loops, RequestDone(l) PROVE TypeOK'
    BY <2>9 DEF TypeOK, RequestDone
  <2>10. ASSUME NEW l \in Loops, PushResponse(l) PROVE TypeOK'
    <3>1. cur[l] \in Ids
      BY <2>10 DEF PushResponse, TypeOK
    <3>2. q' \in [Loops \X Queues -> Seq(Ids)]
      BY <2>10, <3>1, PushType DEF TypeOK, PushResponse
    <3> QED BY ZenonT(60), <2>10, <3>1, <3>2 DEF TypeOK, PushResponse
  <2>11. ASSUME NEW l \in Loops, NextQueue(l, "posts", "requests") \/ NextQueue(l, "requests", "responses")
         PROVE TypeOK'
    BY Zenon, <2>11, MoveAllType DEF TypeOK, NextQueue
  <2>12. ASSUME NEW l \in Loops, FrameHandlers(l) \/ FrameEnd(l) PROVE TypeOK'
    BY ZenonT(60), <2>12 DEF TypeOK, FrameHandlers, FrameEnd, LoopExit
  <2>13. CASE UNCHANGED vars
    BY <2>13 DEF TypeOK, vars
  <2> QED
    BY <2>1, <2>2, <2>3, <2>4, <2>5, <2>6, <2>7, <2>8, <2>9, <2>10, <2>11, <2>12, <2>13
       DEF Next, AppStep, LoopStep
<1> QED
  BY <1>1, <1>2, PTL DEF Spec
-----------------------------------------------------------------------------
\* What Append and Tail do to the range of a sequence and to its injectivity.
LEMMA RangeAppend ==
  ASSUME NEW S, NEW s \in Seq(S), NEW i \in S
  PROVE  /\ Range(Append(s, i)) = Range(s) \cup {i}
         /\ IsInjective(s) /\ i \notin Range(s) => IsInjective(Append(s, i))
<1>1. /\ Append(s, i) \in Seq(S)
      /\ DOMAIN s = 1..Len(s) /\ Len(s) \in Nat
      /\ DOMAIN Append(s, i) = 1..(Len(s) + 1)
      /\ \A n \in 1..Len(s) : Append(s, i)[n] = s[n]
      /\ Append(s, i)[Len(s) + 1] = i
  BY AppendProperties, LenProperties
<1> QED BY <1>1 DEF Range, IsInjective

LEMMA RangeTail ==
  ASSUME NEW S, NEW s \in Seq(S), s # <<>>
  PROVE  /\ Range(s) = Range(Tail(s)) \cup {Head(s)}
         /\ IsInjective(s) => IsInjective(Tail(s)) /\ Head(s) \notin Range(Tail(s))
<1>1. /\ Tail(s) \in Seq(S)
      /\ DOMAIN s = 1..Len(s) /\ Len(s) \in Nat \ {0}
      /\ DOMAIN Tail(s) = 1..(Len(s) - 1)
      /\ \A n \in 1..(Len(s) - 1) : Tail(s)[n] = s[n + 1]
      /\ Head(s) = s[1]
  BY HeadTailProperties, LenProperties, EmptySeq
<1>2. ASSUME NEW x \in Range(s) PROVE x \in Range(Tail(s)) \cup {Head(s)}
  <2>1. PICK n \in 1..Len(s) : x = s[n]
    BY <1>1 DEF Range
  <2>2. CASE n = 1
    BY <1>1, <2>1, <2>2
  <2>3. CASE n # 1
    <3>1. n - 1 \in 1..(Len(s) - 1) /\ Tail(s)[n - 1] = s[(n - 1) + 1] /\ (n - 1) + 1 = n
      BY <1>1, <2>1, <2>3
    <3> QED BY Zenon, <1>1, <2>1, <3>1 DEF Range
  <2> QED BY <2>2, <2>3
<1>3. Range(Tail(s)) \cup {Head(s)} \subseteq Range(s)
  BY <1>1 DEF Range
<1>4. ASSUME IsInjective(s) PROVE IsInjective(Tail(s)) /\ Head(s) \notin Range(Tail(s))
  BY <1>1, <1>4 DEF Range, IsInjective
<1> QED BY <1>2, <1>3, <1>4

LEMMA EmptyRange == Range(<<>>) = {} /\ IsInjective(<<>>)
  BY DEF Range, IsInjective
-----------------------------------------------------------------------------
\* The ranges of the queues and of the lists are sets of items.
LEMMA RangeType ==
  ASSUME TypeOK, NEW l \in Loops
  PROVE  /\ Range(moved[l]) \subseteq Ids
         /\ \A k \in Queues : Range(q[<<l, k>>]) \subseteq Ids
<1>1. moved[l] \in Seq(Ids) /\ \A k \in Queues : q[<<l, k>>] \in Seq(Ids)
  BY DEF TypeOK
<1> QED BY <1>1, RangeOfSeq

\* Whether an item belongs depends on nothing but its stage and what it is.
LEMMA BelongsFrame ==
  ASSUME NEW l, NEW k, NEW j, stage'[j] = stage[j], item'[j] = item[j], Belongs(l, k, j)
  PROVE  Belongs(l, k, j)'
  BY DEF Belongs

\* An item that is neither queued nor being answered is in no queue or list.
LEMMA NotHeld ==
  ASSUME TypeOK, Custody, NEW i \in Ids, stage[i] \notin {"queued", "replying"}, NEW l \in Loops
  PROVE  /\ i \notin Range(moved[l])
         /\ \A k \in Queues : i \notin Range(q[<<l, k>>])
<1>1. \A k \in Queues : ~Belongs(l, k, i)
  BY DEF Belongs, Queues
<1>2. CASE phase[l] \in Queues
  BY Zenon, <1>1, <1>2 DEF Custody, QueueCustody, MovedCustody
<1>3. CASE phase[l] \notin Queues
  BY Zenon, <1>1, <1>3, EmptyRange DEF Custody, QueueCustody, MovedCustody
<1> QED BY <1>2, <1>3

\* A step that touches only an item that is in no queue leaves the queues and
\* the lists in order.
LEMMA StageStep ==
  ASSUME TypeOK, Custody, UNCHANGED <<phase, q, moved>>,
         NEW i \in Ids, stage[i] \notin {"queued", "replying"},
         \A j \in Ids \ {i} : stage'[j] = stage[j] /\ item'[j] = item[j],
         NEW l \in Loops
  PROVE  /\ MovedCustody(l)'
         /\ \A k \in Queues : QueueCustody(l, k)'
<1>1. ASSUME NEW k \in Queues PROVE QueueCustody(l, k)'
  <2>1. ASSUME NEW j \in Range(q[<<l, k>>]) PROVE Belongs(l, k, j)'
    <3>1. j \in Ids \ {i} /\ Belongs(l, k, j)
      BY <2>1, NotHeld, RangeType DEF Custody, QueueCustody
    <3> QED BY <3>1, BelongsFrame
  <2> QED BY <2>1 DEF Custody, QueueCustody
<1>2. ASSUME phase[l] \in Queues, NEW j \in Range(moved[l])
      PROVE  Belongs(l, phase[l], j)'
  <2>1. j \in Ids \ {i} /\ Belongs(l, phase[l], j)
    BY Zenon, <1>2, NotHeld, RangeType DEF Custody, MovedCustody
  <2>2. PICK k \in Queues : k = phase[l]
    BY <1>2
  <2> QED BY <2>1, <2>2, BelongsFrame
<1>3. MovedCustody(l)'
  BY <1>2 DEF Custody, MovedCustody
<1> QED BY <1>1, <1>3
-----------------------------------------------------------------------------
\* Custody is kept by the steps that change an item which is in no queue: the
\* start of a call, and the end of a handler.
LEMMA CallKeepsCustody ==
  ASSUME TypeOK, Custody, NEW t \in Threads, NEW l \in Loops, NEW kind \in Kinds,
         NEW handler \in BOOLEAN, Call(t, l, kind, handler)
  PROVE  Custody'
<1>1. PICK i \in Ids :
        /\ stage[i] = "none"
        /\ item' = [item EXCEPT ![i] = [kind |-> kind, by |-> t, from |-> CurLoop(t),
                                        to |-> l, handler |-> handler]]
        /\ stage' = [stage EXCEPT ![i] = "called"]
        /\ calling' = [calling EXCEPT ![t] = i]
  BY Zenon DEF Call
<1>2. UNCHANGED <<phase, q, moved, cur>> /\ (kind = "post" => ~handler)
  BY DEF Call
<1>3. \A j \in Ids \ {i} : stage'[j] = stage[j] /\ item'[j] = item[j]
  BY <1>1 DEF TypeOK
<1>4. stage'[i] = "called" /\ item'[i].by = t /\ item'[i] \in Item
      /\ item'[i].kind = kind /\ item'[i].handler = handler
  BY <1>1 DEF TypeOK, Item, CurLoop, Threads
<1>5. ASSUME NEW l2 \in Loops
      PROVE  MovedCustody(l2)' /\ \A k \in Queues : QueueCustody(l2, k)'
  BY <1>1, <1>2, <1>3, StageStep
<1>6. ASSUME NEW l2 \in Loops PROVE CurCustody(l2)'
  <2>1. CurCustody(l2) /\ cur[l2] \in Ids \cup {None}
    BY DEF Custody, TypeOK
  <2>2. cur[l2] # i
    BY <1>1, <2>1, LoopAssumption DEF CurCustody, Ids
  <2> QED BY <1>2, <1>3, <2>1, <2>2 DEF CurCustody
<1>7. ASSUME NEW u \in Threads PROVE CallCustody(u)'
  <2>1. CASE u = t
    BY <1>1, <1>4, <2>1 DEF CallCustody, TypeOK
  <2>2. CASE u # t
    <3>1. calling'[u] = calling[u] /\ CallCustody(u) /\ calling[u] \in Ids \cup {None}
      BY ZenonT(60), <1>1, <2>2 DEF TypeOK, Custody
    <3> QED BY <1>1, <1>3, <3>1 DEF CallCustody
  <2> QED BY <2>1, <2>2
<1>8. Allocated'
  BY <1>2, <1>3, <1>4 DEF Allocated, Custody
<1> QED BY <1>5, <1>6, <1>7, <1>8 DEF Custody

\* The common part of the ends of handlers: the item in hand is let go of, or
\* stays in hand as served.
LEMMA DoneKeepsCustody ==
  ASSUME TypeOK, Custody, NEW l \in Loops, cur[l] # None, NEW s,
         UNCHANGED <<phase, q, moved, calling, item>>,
         stage' = [stage EXCEPT ![cur[l]] = s],
         s # "none",
         \/ cur' = [cur EXCEPT ![l] = None]
         \/ /\ cur' = cur
            /\ s = "served"
            /\ phase[l] = "requests"
            /\ item[cur[l]].handler
            /\ item[cur[l]].from \in Loops
  PROVE  Custody'
<1>1. cur[l] \in Ids /\ CurCustody(l)
  BY DEF TypeOK, Custody
<1>2. PICK i \in Ids : i = cur[l]
  BY <1>1
<1>3. stage[i] \in {"serving", "served", "replied"}
  BY <1>1, <1>2 DEF CurCustody
<1>4. stage'[i] = s /\ \A j \in Ids \ {i} : stage'[j] = stage[j] /\ item'[j] = item[j]
  BY <1>2 DEF TypeOK
<1>5. ASSUME NEW l2 \in Loops
      PROVE  MovedCustody(l2)' /\ \A k \in Queues : QueueCustody(l2, k)'
  BY <1>3, <1>4, StageStep
<1>6. ASSUME NEW l2 \in Loops PROVE CurCustody(l2)'
  <2>1. CASE l2 = l
    BY <1>1, <1>2, <1>4, <2>1 DEF CurCustody, TypeOK
  <2>2. CASE l2 # l
    <3>1. cur'[l2] = cur[l2] /\ CurCustody(l2) /\ cur[l2] \in Ids \cup {None}
      BY <2>2 DEF TypeOK, Custody
    <3>2. cur[l2] # i
      BY <1>1, <1>2, <2>2, <3>1, LoopAssumption DEF CurCustody, Ids
    <3> QED BY <1>4, <3>1, <3>2 DEF CurCustody
  <2> QED BY <2>1, <2>2
<1>7. ASSUME NEW u \in Threads PROVE CallCustody(u)'
  <2>1. CallCustody(u) /\ calling[u] \in Ids \cup {None}
    BY DEF TypeOK, Custody
  <2> QED BY <1>3, <1>4, <2>1 DEF CallCustody
<1>8. Allocated'
  <2>1. ASSUME NEW j \in Ids, stage'[j] # "none" PROVE stage[j] # "none"
    BY <1>3, <1>4, <2>1
  <2> QED BY <2>1 DEF Allocated, Custody
<1> QED BY <1>5, <1>6, <1>7, <1>8 DEF Custody
-----------------------------------------------------------------------------
\* A push of an item that was in no queue, at the stage its new queue expects.
LEMMA PushKeepsQueues ==
  ASSUME TypeOK, Custody, UNCHANGED <<phase, moved, item>>,
         NEW to \in Loops, NEW into \in Queues, NEW i \in Ids, NEW s,
         stage[i] \notin {"queued", "replying"},
         q' = [q EXCEPT ![<<to, into>>] = Append(@, i)],
         stage' = [stage EXCEPT ![i] = s],
         Belongs(to, into, i)',
         NEW l \in Loops
  PROVE  /\ MovedCustody(l)'
         /\ \A k \in Queues : QueueCustody(l, k)'
<1>1. \A j \in Ids \ {i} : stage'[j] = stage[j] /\ item'[j] = item[j]
  BY DEF TypeOK
<1>2. ASSUME NEW k \in Queues
      PROVE  /\ Range(q[<<l, k>>])' \subseteq Range(q[<<l, k>>]) \cup {i}
             /\ QueueCustody(l, k)'
  <2>1. QueueCustody(l, k) /\ q[<<l, k>>] \in Seq(Ids)
        /\ i \notin Range(q[<<l, k>>]) /\ Range(q[<<l, k>>]) \subseteq Ids
    BY NotHeld, RangeType DEF Custody, TypeOK
  <2>2. ASSUME NEW j \in Range(q[<<l, k>>]) PROVE Belongs(l, k, j)'
    BY <1>1, <2>1, <2>2, BelongsFrame DEF QueueCustody
  <2>3. CASE l = to /\ k = into
    <3>1. q'[<<l, k>>] = Append(q[<<l, k>>], i)
      <4>1. <<to, into>> \in DOMAIN q
        BY DEF TypeOK
      <4> QED BY <2>3, <4>1
    <3>2. /\ Range(Append(q[<<l, k>>], i)) = Range(q[<<l, k>>]) \cup {i}
          /\ IsInjective(Append(q[<<l, k>>], i))
      BY <2>1, RangeAppend DEF QueueCustody
    <3>3. Range(q[<<l, k>>])' = Range(q[<<l, k>>]) \cup {i} /\ IsInjective(q[<<l, k>>])'
      BY Zenon, <3>1, <3>2
    <3> QED BY ZenonT(60), <2>2, <2>3, <3>3 DEF QueueCustody
  <2>4. CASE ~(l = to /\ k = into)
    <3>1. q'[<<l, k>>] = q[<<l, k>>]
      BY <2>4 DEF TypeOK
    <3> QED BY ZenonT(60), <2>1, <2>2, <3>1 DEF QueueCustody
  <2> QED BY Zenon, <2>3, <2>4
<1>3. MovedCustody(l)'
  <2>1. MovedCustody(l) /\ i \notin Range(moved[l]) /\ Range(moved[l]) \subseteq Ids
    BY NotHeld, RangeType DEF Custody
  <2>2. ASSUME phase[l] \in Queues, NEW j \in Range(moved[l])
        PROVE  Belongs(l, phase[l], j)' /\ j \notin Range(q[<<l, phase[l]>>])'
    <3>1. PICK k \in Queues : k = phase[l]
      BY <2>2
    <3>2. Belongs(l, k, j) /\ j \notin Range(q[<<l, k>>]) /\ j \in Ids \ {i}
      BY <2>1, <2>2, <3>1 DEF MovedCustody
    <3>3. Belongs(l, k, j)' /\ j \notin Range(q[<<l, k>>])'
      BY <1>1, <1>2, <3>2, BelongsFrame
    <3> QED BY <3>1, <3>3
  <2> QED BY <2>1, <2>2 DEF MovedCustody
<1> QED BY Zenon, <1>2, <1>3

LEMMA PushCallKeepsCustody ==
  ASSUME TypeOK, Custody, NEW t \in Threads, PushCall(t)
  PROVE  Custody'
<1>1. PICK i \in Ids : i = calling[t]
  BY DEF TypeOK, PushCall
<1>2. stage[i] = "called" /\ item[i].by = t /\ item[i] \in Item
      /\ (item[i].kind = "post" => ~item[i].handler)
  BY <1>1, LoopAssumption DEF Custody, CallCustody, Allocated, Ids
<1>3. PICK to \in Loops, into \in Queues :
        /\ to = item[i].to
        /\ into = IF item[i].kind = "post" THEN "posts" ELSE "requests"
  BY <1>2 DEF Item, Queues
<1>4. /\ q' = [q EXCEPT ![<<to, into>>] = Append(@, i)]
      /\ stage' = [stage EXCEPT ![i] = "queued"]
      /\ calling' = [calling EXCEPT ![t] = None]
      /\ UNCHANGED <<phase, moved, cur, item>>
  BY <1>1, <1>3 DEF PushCall, Push
<1>5. stage'[i] = "queued" /\ \A j \in Ids \ {i} : stage'[j] = stage[j]
  BY <1>4 DEF TypeOK
<1>6. Belongs(to, into, i)'
  BY Zenon, <1>2, <1>3, <1>4, <1>5 DEF Belongs, Item, Kinds
<1>7. ASSUME NEW l2 \in Loops
      PROVE  MovedCustody(l2)' /\ \A k \in Queues : QueueCustody(l2, k)'
  BY ZenonT(60), <1>2, <1>4, <1>6, PushKeepsQueues
<1>8. ASSUME NEW l2 \in Loops PROVE CurCustody(l2)'
  <2>1. CurCustody(l2) /\ cur[l2] \in Ids \cup {None}
    BY DEF Custody, TypeOK
  <2> QED BY <1>2, <1>4, <1>5, <2>1 DEF CurCustody
<1>9. ASSUME NEW u \in Threads PROVE CallCustody(u)'
  <2>1. CallCustody(u) /\ calling[u] \in Ids \cup {None}
    BY DEF Custody, TypeOK
  <2>2. CASE u = t
    BY ZenonT(60), <1>4, <2>2 DEF CallCustody, TypeOK
  <2>3. CASE u # t
    <3>1. calling'[u] = calling[u] /\ (calling[u] # None => calling[u] # i)
      BY ZenonT(60), <1>2, <1>4, <2>1, <2>3 DEF CallCustody, TypeOK
    <3> QED BY <1>4, <1>5, <2>1, <3>1 DEF CallCustody
  <2> QED BY <2>2, <2>3
<1>10. Allocated'
  <2>1. ASSUME NEW j \in Ids, stage'[j] # "none" PROVE stage[j] # "none"
    BY <1>2, <1>5, <2>1
  <2> QED BY <1>4, <2>1 DEF Allocated, Custody
<1> QED BY <1>7, <1>8, <1>9, <1>10 DEF Custody

LEMMA PushResponseKeepsCustody ==
  ASSUME TypeOK, Custody, NEW l \in Loops, PushResponse(l)
  PROVE  Custody'
<1>1. PICK i \in Ids : i = cur[l]
  BY ZenonT(60) DEF TypeOK, PushResponse
<1>2. stage[i] = "served" /\ item[i].handler /\ item[i].from \in Loops
      /\ cur' = [cur EXCEPT ![l] = None] /\ CurCustody(l) /\ cur[l] # None
  BY <1>1 DEF PushResponse, Custody, CurCustody
<1>3. CASE item[i].from \notin registered
  <2>1. /\ stage' = [stage EXCEPT ![cur[l]] = "lost"]
        /\ UNCHANGED <<phase, q, moved, calling, item>>
    BY <1>1, <1>3 DEF PushResponse
  <2> QED BY Zenon, <1>2, <2>1, DoneKeepsCustody
<1>4. CASE item[i].from \in registered
  <2>1. PICK to \in Loops : to = item[i].from
    BY <1>2
  <2>2. /\ q' = [q EXCEPT ![<<to, "responses">>] = Append(@, i)]
        /\ stage' = [stage EXCEPT ![i] = "replying"]
        /\ UNCHANGED <<phase, moved, calling, item>>
    BY ZenonT(60), <1>1, <1>4, <2>1 DEF PushResponse, Push
  <2>3. stage'[i] = "replying" /\ \A j \in Ids \ {i} : stage'[j] = stage[j]
    BY <2>2 DEF TypeOK
  <2>4. Belongs(to, "responses", i)'
    BY <1>2, <2>1, <2>2, <2>3 DEF Belongs
  <2>5. ASSUME NEW l2 \in Loops
        PROVE  MovedCustody(l2)' /\ \A k \in Queues : QueueCustody(l2, k)'
    <3>1. "responses" \in Queues
      BY DEF Queues
    <3> QED BY ZenonT(60), <1>2, <2>2, <2>4, <3>1, PushKeepsQueues
  <2>6. ASSUME NEW l2 \in Loops PROVE CurCustody(l2)'
    <3>1. CurCustody(l2) /\ cur[l2] \in Ids \cup {None}
      BY DEF Custody, TypeOK
    <3>2. CASE l2 = l
      BY ZenonT(60), <1>2, <3>2 DEF CurCustody, TypeOK
    <3>3. CASE l2 # l
      <4>1. cur'[l2] = cur[l2] /\ (cur[l2] # None => cur[l2] # i)
        BY ZenonT(60), <1>1, <1>2, <3>1, <3>3 DEF CurCustody, TypeOK
      <4> QED BY <2>2, <2>3, <3>1, <4>1 DEF CurCustody
    <3> QED BY <3>2, <3>3
  <2>7. ASSUME NEW u \in Threads PROVE CallCustody(u)'
    <3>1. CallCustody(u) /\ calling[u] \in Ids \cup {None}
      BY Zenon DEF Custody, TypeOK
    <3> QED BY <1>2, <2>2, <2>3, <3>1 DEF CallCustody
  <2>8. Allocated'
    <3>1. ASSUME NEW j \in Ids, stage'[j] # "none" PROVE stage[j] # "none"
      BY <1>2, <2>3, <3>1
    <3> QED BY <2>2, <3>1 DEF Allocated, Custody
  <2> QED BY ZenonT(60), <2>5, <2>6, <2>7, <2>8 DEF Custody
<1> QED BY <1>3, <1>4
-----------------------------------------------------------------------------
\* frameHandler takes a whole queue when it holds nothing from another one.
LEMMA MoveAllKeepsCustody ==
  ASSUME TypeOK, Custody, NEW l \in Loops, NEW k \in Queues, MoveAll(l, k),
         phase' = [phase EXCEPT ![l] = k], cur[l] = None,
         UNCHANGED <<cur, calling, item, stage>>
  PROVE  Custody'
<1>1. /\ q'[<<l, k>>] = <<>> /\ moved'[l] = q[<<l, k>>] /\ phase'[l] = k
      /\ \A l2 \in Loops \ {l} : moved'[l2] = moved[l2] /\ phase'[l2] = phase[l2]
      /\ \A l2 \in Loops, k2 \in Queues : l2 # l \/ k2 # k => q'[<<l2, k2>>] = q[<<l2, k2>>]
  BY DEF TypeOK, MoveAll
<1>2. ASSUME NEW l2 \in Loops, NEW k2 \in Queues, NEW j, Belongs(l2, k2, j)
      PROVE  Belongs(l2, k2, j)'
  BY <1>2 DEF Belongs
<1>3. ASSUME NEW l2 \in Loops, NEW k2 \in Queues PROVE QueueCustody(l2, k2)'
  <2>1. CASE l2 = l /\ k2 = k
    <3>1. q'[<<l2, k2>>] = <<>>
      BY Zenon, <1>1, <2>1
    <3> QED BY <3>1, EmptyRange DEF QueueCustody
  <2>2. CASE l2 # l \/ k2 # k
    BY ZenonT(60), <1>1, <1>2, <2>2 DEF Custody, QueueCustody
  <2> QED BY <2>1, <2>2
<1>4. MovedCustody(l)'
  <2>1. QueueCustody(l, k)
    BY DEF Custody
  <2>2. \A j \in Range(q[<<l, k>>]) : Belongs(l, k, j)'
    BY <1>2, <2>1 DEF QueueCustody
  <2>3. Range(q'[<<l, k>>]) = {}
    BY <1>1, EmptyRange
  <2> QED BY <1>1, <2>1, <2>2, <2>3 DEF MovedCustody, QueueCustody
<1>5. ASSUME NEW l2 \in Loops, l2 # l PROVE MovedCustody(l2)'
  <2>1. MovedCustody(l2) /\ moved'[l2] = moved[l2] /\ phase'[l2] = phase[l2]
    BY <1>1, <1>5 DEF Custody
  <2>2. CASE phase[l2] \in Queues
    <3>1. PICK k2 \in Queues : k2 = phase[l2]
      BY <2>2
    <3>2. q'[<<l2, k2>>] = q[<<l2, k2>>]
      BY ZenonT(60), <1>1, <1>5
    <3> QED BY <1>2, <2>1, <3>1, <3>2 DEF MovedCustody
  <2>3. CASE phase[l2] \notin Queues
    BY <2>1, <2>3 DEF MovedCustody
  <2> QED BY ZenonT(60), <2>2, <2>3
<1>6. ASSUME NEW l2 \in Loops PROVE CurCustody(l2)'
  <2>1. CASE l2 = l
    BY Zenon, <2>1 DEF CurCustody
  <2>2. CASE l2 # l
    BY SMTT(60), <1>1, <2>2 DEF Custody, CurCustody
  <2> QED BY <2>1, <2>2
<1>7. \A u \in Threads : CallCustody(u)'
  BY DEF Custody, CallCustody
<1>8. Allocated'
  BY DEF Custody, Allocated
<1> QED BY ZenonT(60), <1>3, <1>4, <1>5, <1>6, <1>7, <1>8 DEF Custody

\* frameHandler takes the next item of the list into its hands.
LEMMA TakeKeepsCustody ==
  ASSUME TypeOK, Custody, NEW l \in Loops, phase[l] \in Queues,
         cur[l] = None, moved[l] # <<>>, NEW s,
         IF phase[l] = "responses" THEN s = "replied" ELSE s = "serving",
         cur' = [cur EXCEPT ![l] = Head(moved[l])],
         moved' = [moved EXCEPT ![l] = Tail(@)],
         stage' = [stage EXCEPT ![Head(moved[l])] = s],
         UNCHANGED <<phase, q, calling, item>>
  PROVE  Custody'
<1>1. MovedCustody(l) /\ moved[l] \in Seq(Ids)
  BY DEF Custody, TypeOK
<1>2. PICK i \in Ids : i = Head(moved[l])
  BY Zenon, <1>1, HeadTailProperties
<1>3. /\ Range(moved[l]) = Range(Tail(moved[l])) \cup {i}
      /\ IsInjective(Tail(moved[l])) /\ i \notin Range(Tail(moved[l]))
  BY <1>1, <1>2, RangeTail DEF MovedCustody
<1>4. PICK k \in Queues : k = phase[l]
  OBVIOUS
<1>5. Belongs(l, k, i) /\ i \notin Range(q[<<l, k>>])
  BY <1>1, <1>3, <1>4 DEF MovedCustody
<1>6. /\ stage'[i] = s /\ \A j \in Ids \ {i} : stage'[j] = stage[j]
      /\ cur'[l] = i /\ \A l2 \in Loops \ {l} : cur'[l2] = cur[l2]
      /\ moved'[l] = Tail(moved[l]) /\ \A l2 \in Loops \ {l} : moved'[l2] = moved[l2]
  BY <1>2 DEF TypeOK
<1>7. ASSUME NEW l2 \in Loops, NEW k2 \in Queues, Belongs(l2, k2, i)
      PROVE  l2 = l /\ k2 = k
  BY Zenon, <1>5, <1>7 DEF Belongs
<1>8. ASSUME NEW l2 \in Loops, NEW k2 \in Queues PROVE QueueCustody(l2, k2)'
  <2>1. QueueCustody(l2, k2) /\ Range(q[<<l2, k2>>]) \subseteq Ids
    BY RangeType DEF Custody
  <2>2. i \notin Range(q[<<l2, k2>>])
    BY Zenon, <1>5, <1>7, <2>1 DEF QueueCustody
  <2>3. ASSUME NEW j \in Range(q[<<l2, k2>>]) PROVE Belongs(l2, k2, j)'
    <3>1. stage'[j] = stage[j] /\ item'[j] = item[j] /\ Belongs(l2, k2, j)
      BY Zenon, <1>6, <2>1, <2>2, <2>3 DEF QueueCustody
    <3> QED BY <3>1, BelongsFrame
  <2> QED BY Zenon, <2>1, <2>3 DEF QueueCustody
<1>9. ASSUME NEW l2 \in Loops PROVE MovedCustody(l2)'
  <2>1. MovedCustody(l2) /\ Range(moved[l2]) \subseteq Ids
    BY RangeType DEF Custody
  <2>2. CASE l2 = l
    <3>1. ASSUME NEW j \in Range(Tail(moved[l]))
          PROVE  Belongs(l, k, j)' /\ j \notin Range(q[<<l, k>>])
      <4>1. j \in Ids \ {i} /\ Belongs(l, k, j) /\ j \notin Range(q[<<l, k>>])
        BY ZenonT(60), <1>1, <1>3, <1>4, <2>1, <2>2 DEF MovedCustody
      <4>2. stage'[j] = stage[j] /\ item'[j] = item[j]
        BY Zenon, <1>6, <4>1
      <4> QED BY Zenon, <4>1, <4>2, BelongsFrame
    <3> QED BY ZenonT(60), <1>3, <1>4, <1>6, <2>2, <3>1 DEF MovedCustody
  <2>3. CASE l2 # l /\ phase[l2] \in Queues
    <3>1. PICK k2 \in Queues : k2 = phase[l2]
      BY <2>3
    <3>2. ASSUME NEW j \in Range(moved[l2])
          PROVE  Belongs(l2, k2, j)' /\ j \notin Range(q[<<l2, k2>>])
      <4>1. Belongs(l2, k2, j) /\ j \notin Range(q[<<l2, k2>>]) /\ j \in Ids
        BY Zenon, <2>1, <2>3, <3>1 DEF MovedCustody
      <4>2. j # i
        BY Zenon, <1>7, <2>3, <4>1
      <4>3. stage'[j] = stage[j] /\ item'[j] = item[j]
        BY ZenonT(60), <1>6, <4>1, <4>2
      <4> QED BY Zenon, <4>1, <4>3, BelongsFrame
    <3> QED BY ZenonT(60), <1>6, <2>1, <2>3, <3>1, <3>2 DEF MovedCustody
  <2>4. CASE l2 # l /\ phase[l2] \notin Queues
    BY <1>6, <2>1, <2>4 DEF MovedCustody
  <2> QED BY <2>2, <2>3, <2>4
<1>10. ASSUME NEW l2 \in Loops PROVE CurCustody(l2)'
  <2>1. CASE l2 = l
    BY Zenon, <1>4, <1>5, <1>6, <2>1 DEF CurCustody, Belongs, Queues
  <2>2. CASE l2 # l
    <3>1. CurCustody(l2) /\ cur[l2] \in Ids \cup {None} /\ cur'[l2] = cur[l2]
      BY Zenon, <1>6, <2>2 DEF Custody, TypeOK
    <3>2. cur[l2] # None => cur[l2] # i
      BY Zenon, <1>5, <3>1 DEF CurCustody, Belongs
    <3> QED BY SMTT(60), <1>6, <3>1, <3>2 DEF CurCustody
  <2> QED BY Zenon, <2>1, <2>2
<1>11. ASSUME NEW u \in Threads PROVE CallCustody(u)'
  <2>1. CallCustody(u) /\ calling[u] \in Ids \cup {None}
    BY Zenon DEF Custody, TypeOK
  <2> QED BY SMTT(60), <1>5, <1>6, <2>1 DEF CallCustody, Belongs
<1>12. Allocated'
  <2>1. ASSUME NEW j \in Ids, stage'[j] # "none" PROVE stage[j] # "none"
    BY Zenon, <1>5, <1>6, <2>1 DEF Belongs
  <2> QED BY Zenon, <2>1 DEF Allocated, Custody
<1> QED BY <1>8, <1>9, <1>10, <1>11, <1>12 DEF Custody
-----------------------------------------------------------------------------
\* A step that moves no item, by threads whose hands are empty.
LEMMA QuietKeepsCustody ==
  ASSUME TypeOK, Custody, UNCHANGED <<q, moved, cur, calling, item, stage>>,
         \A l \in Loops :
           \/ phase'[l] = phase[l]
           \/ moved[l] = <<>> /\ cur[l] = None /\ phase'[l] \notin Queues
  PROVE  Custody'
<1>1. ASSUME NEW l \in Loops, NEW k, NEW j, Belongs(l, k, j) PROVE Belongs(l, k, j)'
  BY Zenon, <1>1 DEF Belongs
<1>2. \A l \in Loops, k \in Queues : QueueCustody(l, k)'
  BY ZenonT(60), <1>1 DEF Custody, QueueCustody
<1>3. ASSUME NEW l \in Loops PROVE MovedCustody(l)' /\ CurCustody(l)'
  <2>1. MovedCustody(l) /\ CurCustody(l)
    BY Zenon DEF Custody
  <2>2. CASE phase'[l] # phase[l]
    BY Zenon, <2>2, EmptyRange DEF MovedCustody, CurCustody
  <2>3. CASE phase'[l] = phase[l] /\ phase[l] \in Queues
    <3>1. PICK k \in Queues : k = phase[l]
      BY Zenon, <2>3
    <3> QED BY ZenonT(60), <1>1, <2>1, <2>3, <3>1 DEF MovedCustody, CurCustody
  <2>4. CASE phase'[l] = phase[l] /\ phase[l] \notin Queues
    BY Zenon, <2>1, <2>4 DEF MovedCustody, CurCustody
  <2> QED BY <2>2, <2>3, <2>4
<1>4. (\A u \in Threads : CallCustody(u)') /\ Allocated'
  BY Zenon DEF Custody, CallCustody, Allocated
<1> QED BY Zenon, <1>2, <1>3, <1>4 DEF Custody

\* The hands of a loop's thread are empty outside the three for loops.
LEMMA IdleHands ==
  ASSUME Custody, NEW l \in Loops, phase[l] \notin Queues
  PROVE  moved[l] = <<>> /\ cur[l] = None
  BY ZenonT(60) DEF Custody, MovedCustody, CurCustody, Queues

\* Every context and every post has one holder in every reachable state of the
\* loops: the invariant Custody that the runs check, for all constants.
THEOREM CustodyHolds == Spec => []Custody
<1>1. Init => Custody
  <2> SUFFICES ASSUME Init PROVE Custody
    OBVIOUS
  <2>1. \A l \in Loops, k \in Queues : QueueCustody(l, k)
    BY EmptyRange DEF Init, QueueCustody
  <2>2. \A l \in Loops : MovedCustody(l) /\ CurCustody(l)
    BY EmptyRange DEF Init, MovedCustody, CurCustody, Queues
  <2>3. (\A t \in Threads : CallCustody(t)) /\ Allocated
    BY DEF Init, CallCustody, Allocated
  <2> QED BY <2>1, <2>2, <2>3 DEF Custody
<1>2. TypeOK /\ Custody /\ [Next]_vars => Custody'
  <2> SUFFICES ASSUME TypeOK, Custody, [Next]_vars PROVE Custody'
    OBVIOUS
  <2>1. ASSUME NEW t \in Threads, NEW l \in Loops, NEW kind \in Kinds,
               NEW handler \in BOOLEAN, Call(t, l, kind, handler)
        PROVE  Custody'
    BY <2>1, CallKeepsCustody
  <2>2. ASSUME NEW t \in Threads, PushCall(t) PROVE Custody'
    BY <2>2, PushCallKeepsCustody
  <2>3. ASSUME NEW t \in Threads, NEW l \in Loops, StopPending(t, l) \/ StopNow(t, l)
        PROVE  Custody'
    BY <2>3, QuietKeepsCustody DEF StopPending, StopNow
  <2>4. ASSUME NEW l \in Loops,
               \/ Start(l) \/ Destroy(l) \/ EnterLoop(l) \/ LeaveLoop(l) \/ Finish(l)
               \/ FrameHandlers(l) \/ FrameEnd(l)
        PROVE  Custody'
    <3>1. UNCHANGED <<q, moved, cur, calling, item, stage>>
      BY ZenonT(60), <2>4 DEF Start, Destroy, EnterLoop, LeaveLoop, Finish, FrameHandlers, FrameEnd
    <3>2. \/ UNCHANGED phase
          \/ /\ \A k \in Loops \ {l} : phase'[k] = phase[k]
             /\ phase'[l] \notin Queues
             /\ phase[l] \in Queues => moved[l] = <<>> /\ cur[l] = None
      BY <2>4 DEF TypeOK, Queues, Start, Destroy, EnterLoop, LeaveLoop, Finish,
                  FrameHandlers, FrameEnd
    <3> QED BY Zenon, <3>1, <3>2, IdleHands, QuietKeepsCustody
  <2>5. ASSUME NEW l \in Loops, FrameBegin(l) PROVE Custody'
    <3>1. cur[l] = None /\ "posts" \in Queues
      BY <2>5, IdleHands DEF FrameBegin, Queues
    <3> QED BY Zenon, <2>5, <3>1, MoveAllKeepsCustody DEF FrameBegin
  <2>6. ASSUME NEW l \in Loops, Serve(l) PROVE Custody'
    <3>1. phase[l] \in Queues /\ phase[l] # "responses"
      BY <2>6 DEF Serve, Queues
    <3> QED BY Zenon, <2>6, <3>1, TakeKeepsCustody DEF Serve
  <2>7. ASSUME NEW l \in Loops, Reply(l) PROVE Custody'
    <3>1. phase[l] \in Queues /\ phase[l] = "responses"
      BY <2>7 DEF Reply, Queues
    <3> QED BY Zenon, <2>7, <3>1, TakeKeepsCustody DEF Reply
  <2>8. ASSUME NEW l \in Loops, PostDone(l) \/ ReplyDone(l) PROVE Custody'
    BY <2>8, DoneKeepsCustody DEF PostDone, ReplyDone
  <2>9. ASSUME NEW l \in Loops, RequestDone(l) PROVE Custody'
    <3> DEFINE c == item[cur[l]]
               respond == c.from \in registered /\ c.handler
    <3>1. PICK s \in {"served", "dropped", "done"} :
            /\ s = IF respond THEN "served"
                   ELSE IF c.handler /\ c.from # None THEN "dropped" ELSE "done"
            /\ stage' = [stage EXCEPT ![cur[l]] = s]
            /\ cur' = IF respond THEN cur ELSE [cur EXCEPT ![l] = None]
      BY Zenon, <2>9 DEF RequestDone
    <3>2. UNCHANGED <<phase, q, moved, calling, item>> /\ cur[l] # None /\ phase[l] = "requests"
      BY <2>9 DEF RequestDone
    <3>3. respond => c.from \in Loops
      BY DEF TypeOK
    <3> QED BY Zenon, <3>1, <3>2, <3>3, DoneKeepsCustody
  <2>10. ASSUME NEW l \in Loops, PushResponse(l) PROVE Custody'
    BY ZenonT(60), <2>10, PushResponseKeepsCustody
  <2>11. ASSUME NEW l \in Loops,
                NextQueue(l, "posts", "requests") \/ NextQueue(l, "requests", "responses")
         PROVE  Custody'
    <3>1. "requests" \in Queues /\ "responses" \in Queues
      BY Zenon DEF Queues
    <3> QED BY <2>11, <3>1, MoveAllKeepsCustody DEF NextQueue
  <2>12. CASE UNCHANGED vars
    BY ZenonT(60), <2>12, QuietKeepsCustody DEF vars
  <2> QED
    BY ZenonT(60), <2>1, <2>2, <2>3, <2>4, <2>5, <2>6, <2>7, <2>8, <2>9, <2>10, <2>11, <2>12
       DEF Next, AppStep, LoopStep
<1> QED
  BY <1>1, <1>2, TypeCorrect, PTL DEF Spec
-----------------------------------------------------------------------------
\* The sets the pending counters are compared with are finite.
LEMMA CountsFinite ==
  ASSUME NEW l
  PROVE  IsFiniteSet(CountedTo(l)) /\ IsFiniteSet(AnsweredOn(l))
<1>1. IsFiniteSet(Ids)
  BY SMTT(60), FS_Interval, LoopAssumption DEF Ids
<1> QED BY <1>1, FS_Subset DEF CountedTo, AnsweredOn

\* A step that neither starts a counted call nor answers one.
LEMMA PendingFrame ==
  ASSUME PendingExact, UNCHANGED <<pending, item>>,
         \A j \in Ids : Sent(j)' <=> Sent(j),
         \A j \in Ids : item[j].handler /\ item[j].from \in Loops => (Answered(j)' <=> Answered(j))
  PROVE  PendingExact'
<1>1. ASSUME NEW l \in Loops PROVE CountedTo(l)' = CountedTo(l) /\ AnsweredOn(l)' = AnsweredOn(l)
  BY DEF CountedTo, AnsweredOn
<1> QED BY Zenon, <1>1 DEF PendingExact

\* The pending counter of a loop is the number of calls made to it less the
\* number of its own calls that were answered: what Loop::async and
\* frameHandler really count, for every call graph.
THEOREM PendingExactHolds == Spec => []PendingExact
<1>1. Init => PendingExact
  <2> SUFFICES ASSUME Init PROVE PendingExact
    OBVIOUS
  <2>1. \A l \in Loops : CountedTo(l) = {} /\ AnsweredOn(l) = {}
    BY DEF Init, CountedTo, AnsweredOn, Sent, Answered
  <2>2. \A l \in Loops : pending[l] = 0 - 0
    BY SMTT(60) DEF Init
  <2> QED BY Zenon, <2>1, <2>2, FS_EmptySet DEF PendingExact
<1>2. TypeOK /\ Custody /\ PendingExact /\ [Next]_vars => PendingExact'
  <2> SUFFICES ASSUME TypeOK, Custody, PendingExact, [Next]_vars PROVE PendingExact'
    BY Zenon
  <2>1. ASSUME NEW t \in Threads, NEW l \in Loops, NEW kind \in Kinds,
               NEW handler \in BOOLEAN, Call(t, l, kind, handler)
        PROVE  PendingExact'
    <3>1. PICK i \in Ids :
            /\ stage[i] = "none"
            /\ item' = [item EXCEPT ![i] = [kind |-> kind, by |-> t, from |-> CurLoop(t),
                                            to |-> l, handler |-> handler]]
            /\ stage' = [stage EXCEPT ![i] = "called"]
      BY ZenonT(60), <2>1 DEF Call
    <3>2. /\ stage'[i] = "called" /\ item'[i].to = l /\ item'[i].handler = handler
          /\ item'[i].from = CurLoop(t)
          /\ \A j \in Ids \ {i} : stage'[j] = stage[j] /\ item'[j] = item[j]
      BY <3>1 DEF TypeOK
    <3>3. /\ kind = "post" => ~handler
          /\ pending' = IF Counts(t, kind, handler) THEN [pending EXCEPT ![l] = @ + 1] ELSE pending
      BY <2>1 DEF Call
    <3>4. ASSUME NEW l2 \in Loops
          PROVE  pending'[l2] = Cardinality(CountedTo(l2)') - Cardinality(AnsweredOn(l2)')
      <4>1. AnsweredOn(l2)' = AnsweredOn(l2)
        BY <3>1, <3>2 DEF AnsweredOn, Answered
      <4>2. i \notin CountedTo(l2)
        BY Zenon, <3>1 DEF CountedTo, Sent
      <4>3. CASE l2 = l /\ Counts(t, kind, handler)
        <5>1. CountedTo(l2)' = CountedTo(l2) \cup {i}
          BY Zenon, <3>1, <3>2, <4>3 DEF CountedTo, Sent, Counts
        <5>2. Cardinality(CountedTo(l2) \cup {i}) = Cardinality(CountedTo(l2)) + 1
          BY ZenonT(60), <4>2, CountsFinite, FS_AddElement
        <5>3. pending'[l2] = pending[l2] + 1
          BY <3>3, <4>3 DEF TypeOK
        <5>4. Cardinality(CountedTo(l2)) \in Nat /\ Cardinality(AnsweredOn(l2)) \in Nat
          BY Zenon, CountsFinite, FS_CardinalityType
        <5> QED BY SMTT(60), <4>1, <5>1, <5>2, <5>3, <5>4 DEF PendingExact
      <4>4. CASE ~(l2 = l /\ Counts(t, kind, handler))
        <5>1. CountedTo(l2)' = CountedTo(l2)
          BY SMTT(60), <3>1, <3>2, <3>3, <4>4 DEF CountedTo, Sent, Counts, Kinds
        <5>2. pending'[l2] = pending[l2]
          BY <3>3, <4>4 DEF TypeOK
        <5> QED BY Zenon, <4>1, <5>1, <5>2 DEF PendingExact
      <4> QED BY <4>3, <4>4
    <3> QED BY Zenon, <3>4 DEF PendingExact
  <2>2. ASSUME NEW l \in Loops, Reply(l) PROVE PendingExact'
    <3>1. moved[l] \in Seq(Ids) /\ moved[l] # <<>> /\ phase[l] = "responses" /\ MovedCustody(l)
      BY <2>2 DEF TypeOK, Reply, Custody
    <3>2. PICK i \in Ids : i = Head(moved[l])
      BY Zenon, <3>1, HeadTailProperties
    <3>3. Belongs(l, "responses", i)
      BY SMTT(60), <3>1, <3>2, RangeTail DEF MovedCustody, Queues
    <3>4. /\ stage'[i] = "replied" /\ \A j \in Ids \ {i} : stage'[j] = stage[j]
          /\ pending'[l] = pending[l] - 1 /\ \A l2 \in Loops \ {l} : pending'[l2] = pending[l2]
          /\ item' = item
      BY <2>2, <3>2 DEF Reply, TypeOK
    <3>5. stage[i] = "replying" /\ item[i].handler /\ item[i].from = l
      BY <3>3 DEF Belongs
    <3>6. ASSUME NEW l2 \in Loops
          PROVE  pending'[l2] = Cardinality(CountedTo(l2)') - Cardinality(AnsweredOn(l2)')
      <4>1. CountedTo(l2)' = CountedTo(l2)
        BY SMTT(60), <3>4, <3>5 DEF CountedTo, Sent
      <4>2. CASE l2 = l
        <5>1. AnsweredOn(l2)' = AnsweredOn(l2) \cup {i} /\ i \notin AnsweredOn(l2)
          BY Zenon, <3>4, <3>5, <4>2 DEF AnsweredOn, Answered
        <5>2. Cardinality(AnsweredOn(l2) \cup {i}) = Cardinality(AnsweredOn(l2)) + 1
          BY ZenonT(60), <5>1, CountsFinite, FS_AddElement
        <5>3. Cardinality(CountedTo(l2)) \in Nat /\ Cardinality(AnsweredOn(l2)) \in Nat
          BY CountsFinite, FS_CardinalityType
        <5> QED BY SMTT(60), <3>4, <4>1, <4>2, <5>1, <5>2, <5>3 DEF PendingExact
      <4>3. CASE l2 # l
        <5>1. AnsweredOn(l2)' = AnsweredOn(l2)
          BY <3>4, <3>5, <4>3 DEF AnsweredOn, Answered
        <5> QED BY <3>4, <4>1, <4>3, <5>1 DEF PendingExact
      <4> QED BY Zenon, <4>2, <4>3
    <3> QED BY ZenonT(60), <3>6 DEF PendingExact
  <2>3. ASSUME NEW t \in Threads, PushCall(t) PROVE PendingExact'
    <3>1. calling[t] \in Ids /\ stage[calling[t]] = "called"
      BY ZenonT(60), <2>3 DEF PushCall, TypeOK, Custody, CallCustody
    <3>2. stage' = [stage EXCEPT ![calling[t]] = "queued"] /\ UNCHANGED <<pending, item>>
      BY <2>3 DEF PushCall
    <3>3. \A j \in Ids : (Sent(j)' <=> Sent(j)) /\ (Answered(j)' <=> Answered(j))
      BY Zenon, <3>1, <3>2 DEF TypeOK, Sent, Answered
    <3> QED BY Zenon, <3>2, <3>3, PendingFrame
  <2>4. ASSUME NEW l \in Loops, Serve(l) PROVE PendingExact'
    <3>1. moved[l] \in Seq(Ids) /\ moved[l] # <<>> /\ phase[l] \in Queues
          /\ phase[l] # "responses" /\ MovedCustody(l)
      BY <2>4 DEF TypeOK, Serve, Custody, Queues
    <3>2. PICK i \in Ids : i = Head(moved[l])
      BY Zenon, <3>1, HeadTailProperties
    <3>3. Belongs(l, phase[l], i)
      BY SMTT(60), <3>1, <3>2, RangeTail DEF MovedCustody
    <3>4. stage[i] = "queued" /\ stage' = [stage EXCEPT ![i] = "serving"] /\ UNCHANGED <<pending, item>>
      BY Zenon, <2>4, <3>1, <3>2, <3>3 DEF Serve, Belongs
    <3>5. \A j \in Ids : (Sent(j)' <=> Sent(j)) /\ (Answered(j)' <=> Answered(j))
      BY Zenon, <3>4 DEF TypeOK, Sent, Answered
    <3> QED BY ZenonT(60), <3>4, <3>5, PendingFrame
  <2>5. ASSUME NEW l \in Loops, PostDone(l) \/ RequestDone(l) \/ PushResponse(l) \/ ReplyDone(l)
        PROVE  PendingExact'
    <3>1. PICK i \in Ids : i = cur[l]
      BY Zenon, <2>5 DEF TypeOK, PostDone, RequestDone, PushResponse, ReplyDone
    <3>2. CurCustody(l) /\ cur[l] # None /\ Allocated
      BY ZenonT(60), <2>5 DEF Custody, PostDone, RequestDone, PushResponse, ReplyDone
    <3>3. /\ stage[i] \in {"serving", "served", "replied"}
          /\ phase[l] = "responses" <=> stage[i] = "replied"
          /\ phase[l] = "posts" => ~item[i].handler
      BY Zenon, <3>1, <3>2 DEF CurCustody, Allocated
    <3>4. UNCHANGED <<pending, item>> /\ \A j \in Ids \ {i} : stage'[j] = stage[j]
      BY ZenonT(60), <2>5, <3>1 DEF TypeOK, PostDone, RequestDone, PushResponse, ReplyDone
    <3>5. /\ stage'[i] # "none"
          /\ item[i].handler /\ item[i].from \in Loops =>
               (stage'[i] \in {"replied", "done"} <=> stage[i] = "replied")
      <4>1. CASE PostDone(l)
        BY ZenonT(60), <3>1, <3>3, <4>1 DEF PostDone, TypeOK
      <4>2. CASE RequestDone(l)
        BY ZenonT(60), <3>1, <3>3, <4>2, LoopAssumption DEF RequestDone, TypeOK
      <4>3. CASE PushResponse(l)
        BY ZenonT(60), <3>1, <3>3, <4>3 DEF PushResponse, TypeOK
      <4>4. CASE ReplyDone(l)
        BY ZenonT(60), <3>1, <3>3, <4>4 DEF ReplyDone, TypeOK
      <4> QED BY Zenon, <2>5, <4>1, <4>2, <4>3, <4>4
    <3>6. \A j \in Ids : Sent(j)' <=> Sent(j)
      BY Zenon, <3>3, <3>4, <3>5 DEF Sent
    <3>7. \A j \in Ids : item[j].handler /\ item[j].from \in Loops => (Answered(j)' <=> Answered(j))
      BY ZenonT(60), <3>3, <3>4, <3>5 DEF Answered
    <3> QED BY Zenon, <3>4, <3>6, <3>7, PendingFrame
  <2>6. ASSUME UNCHANGED <<pending, item, stage>> PROVE PendingExact'
    BY <2>6, PendingFrame DEF Sent, Answered
  <2>7. ASSUME NEW t \in Threads, NEW l \in Loops, StopPending(t, l) \/ StopNow(t, l)
        PROVE  UNCHANGED <<pending, item, stage>>
    BY ZenonT(60), <2>7 DEF StopPending, StopNow
  <2>8. ASSUME NEW l \in Loops,
               \/ Start(l) \/ Destroy(l) \/ EnterLoop(l) \/ LeaveLoop(l) \/ Finish(l)
               \/ FrameHandlers(l) \/ FrameEnd(l) \/ FrameBegin(l)
               \/ NextQueue(l, "posts", "requests") \/ NextQueue(l, "requests", "responses")
        PROVE  UNCHANGED <<pending, item, stage>>
    BY <2>8 DEF Start, Destroy, EnterLoop, LeaveLoop, Finish, FrameHandlers, FrameEnd,
                FrameBegin, NextQueue
  <2>9. CASE UNCHANGED vars
    BY <2>6, <2>9 DEF vars
  <2> QED
    BY Zenon, <2>1, <2>2, <2>3, <2>4, <2>5, <2>6, <2>7, <2>8, <2>9 DEF Next, AppStep, LoopStep
<1> QED
  BY <1>1, <1>2, TypeCorrect, CustodyHolds, PTL DEF Spec
-----------------------------------------------------------------------------
\* The application calls a loop only from that loop's own thread, or from a
\* thread on which no loop runs.
SelfOnly == \A t, l \in Loops : <<t, l>> \in CallGraph => t = l

\* With such an application an answered call is answered by the loop that made
\* it, which is still there.
SelfInv ==
  /\ \A l \in Loops : Running(l) => l \in registered
  /\ \A i \in Ids : stage[i] # "none" => item[i].from \in {None, item[i].to}
  /\ \A i \in Ids : stage[i] \in {"dropped", "lost"} => item[i].from = None \/ ~item[i].handler

LEMMA SelfInvHolds == ASSUME SelfOnly PROVE Spec => []SelfInv
<1>1. Init => SelfInv
  BY Zenon DEF Init, SelfInv, Running
<1>2. TypeOK /\ Custody /\ SelfInv /\ [Next]_vars => SelfInv'
  <2> SUFFICES ASSUME TypeOK, Custody, SelfInv, [Next]_vars PROVE SelfInv'
    BY Zenon
  <2>1. ASSUME NEW t \in Threads, NEW l \in Loops, NEW kind \in Kinds,
               NEW handler \in BOOLEAN, Call(t, l, kind, handler)
        PROVE  SelfInv'
    <3>1. PICK i \in Ids :
            /\ item' = [item EXCEPT ![i] = [kind |-> kind, by |-> t, from |-> CurLoop(t),
                                            to |-> l, handler |-> handler]]
            /\ stage' = [stage EXCEPT ![i] = "called"]
      BY ZenonT(60), <2>1 DEF Call
    <3>2. CurLoop(t) \in {None, l}
      BY <2>1 DEF Call, CurLoop, SelfOnly
    <3>3. /\ stage'[i] = "called" /\ item'[i].to = l /\ item'[i].from = CurLoop(t)
          /\ \A j \in Ids \ {i} : stage'[j] = stage[j] /\ item'[j] = item[j]
      BY <3>1 DEF TypeOK
    <3>4. UNCHANGED <<phase, registered>>
      BY ZenonT(60), <2>1 DEF Call
    <3> QED BY ZenonT(60), <3>2, <3>3, <3>4 DEF SelfInv, Running
  <2>2. ASSUME NEW i \in Ids, NEW s, stage[i] # "none", s \notin {"dropped", "lost"},
               stage' = [stage EXCEPT ![i] = s], UNCHANGED <<phase, registered, item>>
        PROVE  SelfInv'
    BY <2>2 DEF TypeOK, SelfInv, Running
  <2>3. ASSUME NEW t \in Threads, PushCall(t) PROVE SelfInv'
    <3>1. calling[t] \in Ids /\ stage[calling[t]] = "called"
      BY <2>3 DEF PushCall, TypeOK, Custody, CallCustody
    <3>2. stage' = [stage EXCEPT ![calling[t]] = "queued"] /\ UNCHANGED <<phase, registered, item>>
      BY Zenon, <2>3 DEF PushCall
    <3>3. PICK i \in Ids : i = calling[t]
      BY <3>1
    <3> QED BY ZenonT(60), <2>2, <3>1, <3>2, <3>3
  <2>4. ASSUME NEW l \in Loops, Serve(l) \/ Reply(l) PROVE SelfInv'
    <3>1. moved[l] \in Seq(Ids) /\ moved[l] # <<>> /\ phase[l] \in Queues /\ MovedCustody(l)
      BY <2>4 DEF TypeOK, Serve, Reply, Custody, Queues
    <3>2. PICK i \in Ids : i = Head(moved[l])
      BY Zenon, <3>1, HeadTailProperties
    <3>3. stage[i] # "none"
      <4>1. i \in Range(moved[l])
        BY <3>1, <3>2, RangeTail
      <4>2. Belongs(l, phase[l], i)
        BY Zenon, <3>1, <4>1 DEF MovedCustody
      <4> QED BY ZenonT(60), <4>2 DEF Belongs
    <3>4. /\ \/ stage' = [stage EXCEPT ![i] = "serving"]
             \/ stage' = [stage EXCEPT ![i] = "replied"]
          /\ UNCHANGED <<phase, registered, item>>
      BY <2>4, <3>2 DEF Serve, Reply
    <3> QED BY ZenonT(60), <2>2, <3>3, <3>4
  <2>5. ASSUME NEW l \in Loops, PostDone(l) \/ ReplyDone(l) PROVE SelfInv'
    <3>1. PICK i \in Ids : i = cur[l]
      BY Zenon, <2>5 DEF TypeOK, PostDone, ReplyDone
    <3>2. stage[i] # "none"
      BY ZenonT(60), <2>5, <3>1 DEF Custody, CurCustody, PostDone, ReplyDone
    <3>3. stage' = [stage EXCEPT ![i] = "done"] /\ UNCHANGED <<phase, registered, item>>
      BY <2>5, <3>1 DEF PostDone, ReplyDone
    <3> QED BY Zenon, <2>2, <3>2, <3>3
  <2>6. ASSUME NEW l \in Loops, RequestDone(l) \/ PushResponse(l) PROVE SelfInv'
    <3>1. PICK i \in Ids : i = cur[l]
      BY Zenon, <2>6 DEF TypeOK, RequestDone, PushResponse
    <3>2. stage[i] # "none" /\ item[i].to = l /\ l \in registered
      BY ZenonT(60), <2>6, <3>1 DEF Custody, CurCustody, RequestDone, PushResponse, SelfInv, Running
    <3>3. item[i].from \in {None, l}
      BY Zenon, <3>2 DEF SelfInv
    <3>4. CASE RequestDone(l)
      <4>1. PICK s : /\ s = "dropped" => item[i].from = None \/ ~item[i].handler
                     /\ s # "lost"
                     /\ stage' = [stage EXCEPT ![i] = s]
        BY ZenonT(60), <3>1, <3>2, <3>3, <3>4 DEF RequestDone
      <4>2. UNCHANGED <<phase, registered, item>>
        BY Zenon, <3>4 DEF RequestDone
      <4> QED BY Zenon, <3>2, <4>1, <4>2 DEF TypeOK, SelfInv, Running
    <3>5. CASE PushResponse(l)
      <4>1. item[i].from = l
        BY ZenonT(60), <3>1, <3>3, <3>5, LoopAssumption DEF PushResponse, Custody, CurCustody
      <4>2. stage' = [stage EXCEPT ![i] = "replying"] /\ UNCHANGED <<phase, registered, item>>
        BY ZenonT(60), <3>1, <3>2, <3>5, <4>1 DEF PushResponse
      <4> QED BY Zenon, <2>2, <3>2, <4>2
    <3> QED BY Zenon, <2>6, <3>4, <3>5
  <2>7. ASSUME NEW t \in Threads, NEW l \in Loops, StopPending(t, l) \/ StopNow(t, l)
        PROVE  SelfInv'
    BY Zenon, <2>7 DEF StopPending, StopNow, SelfInv, Running
  <2>8. ASSUME NEW l \in Loops,
               \/ Start(l) \/ Destroy(l) \/ EnterLoop(l) \/ LeaveLoop(l) \/ Finish(l)
               \/ FrameHandlers(l) \/ FrameEnd(l) \/ FrameBegin(l)
               \/ NextQueue(l, "posts", "requests") \/ NextQueue(l, "requests", "responses")
        PROVE  SelfInv'
    <3>1. UNCHANGED <<item, stage>>
      BY <2>8 DEF Start, Destroy, EnterLoop, LeaveLoop, Finish, FrameHandlers, FrameEnd,
                  FrameBegin, NextQueue
    <3>2. \A k \in Loops : Running(k)' => k \in registered'
      <4>1. CASE Destroy(l)
        BY ZenonT(60), <4>1 DEF Destroy, SelfInv, Running
      <4>2. CASE Start(l)
        BY Zenon, <4>2 DEF Start, SelfInv, Running, TypeOK
      <4>3. CASE ~Destroy(l) /\ ~Start(l)
        BY ZenonT(60), <2>8, <4>3 DEF EnterLoop, LeaveLoop, Finish, FrameHandlers, FrameEnd,
                          FrameBegin, NextQueue, SelfInv, Running, TypeOK
      <4> QED BY Zenon, <4>1, <4>2, <4>3
    <3> QED BY ZenonT(60), <3>1, <3>2 DEF SelfInv
  <2>9. CASE UNCHANGED vars
    BY ZenonT(60), <2>9 DEF vars, SelfInv, Running
  <2> QED
    BY ZenonT(60), <2>1, <2>3, <2>4, <2>5, <2>6, <2>7, <2>8, <2>9 DEF Next, AppStep, LoopStep
<1> QED
  BY <1>1, <1>2, TypeCorrect, CustodyHolds, PTL DEF Spec

\* When loops call only themselves, the counted calls are the answered ones and
\* the unfinished ones.
LEMMA UnfinishedCount ==
  ASSUME TypeOK, Custody, SelfInv, NEW l \in Loops
  PROVE  Cardinality(Unfinished(l)) = Cardinality(CountedTo(l)) - Cardinality(AnsweredOn(l))
<1>1. AnsweredOn(l) \subseteq CountedTo(l)
  BY ZenonT(60), LoopAssumption DEF AnsweredOn, CountedTo, Answered, Sent, SelfInv
<1>2. Unfinished(l) = CountedTo(l) \ AnsweredOn(l)
  BY LoopAssumption DEF Unfinished, AnsweredOn, CountedTo, Answered, Sent, SelfInv, TypeOK, Stages
<1>3. CountedTo(l) \cap AnsweredOn(l) = AnsweredOn(l)
  BY <1>1
<1>4. Cardinality(CountedTo(l) \ AnsweredOn(l)) =
        Cardinality(CountedTo(l)) - Cardinality(CountedTo(l) \cap AnsweredOn(l))
  BY CountsFinite, FS_Difference
<1> QED BY Zenon, <1>2, <1>3, <1>4

\* In an application whose loops call only themselves the pending counter is
\* what loop.h calls it, the number of unfinished asynchronous requests.
THEOREM SelfPending == ASSUME SelfOnly PROVE Spec => []PendingIsUnfinished
<1>1. TypeOK /\ Custody /\ SelfInv /\ PendingExact => PendingIsUnfinished
  BY UnfinishedCount DEF PendingIsUnfinished, PendingExact
<1> QED
  BY <1>1, TypeCorrect, CustodyHolds, SelfInvHolds, PendingExactHolds, PTL

\* In such an application a pending stop waits: the end of a frame asks for the
\* exit only when no call of the loop is unanswered.
THEOREM SelfStopWaits == ASSUME SelfOnly PROVE Spec => StopWaits
<1> DEFINE Waits == \A l \in Loops :
             phase[l] = "frame" /\ phase'[l] = "dispatch" /\ exit[l] = "no" /\ exit'[l] # "no"
               => Unfinished(l) = {}
<1>1. TypeOK /\ PendingIsUnfinished /\ [Next]_vars => [Waits]_vars
  <2> SUFFICES ASSUME TypeOK, PendingIsUnfinished, Next,
                      NEW l \in Loops,
                      phase[l] = "frame", phase'[l] = "dispatch", exit[l] = "no", exit'[l] # "no"
               PROVE  Unfinished(l) = {}
    BY Zenon
  <2>1. FrameEnd(l)
    <3>1. ASSUME NEW t \in Threads, NEW k \in Loops, NEW kind \in Kinds,
                 NEW handler \in BOOLEAN, Call(t, k, kind, handler) PROVE FALSE
      BY Zenon, <3>1 DEF Call
    <3>2. ASSUME NEW t \in Threads, PushCall(t) PROVE FALSE
      BY Zenon, <3>2 DEF PushCall
    <3>3. ASSUME NEW t \in Threads, NEW k \in Loops, StopPending(t, k) \/ StopNow(t, k) PROVE FALSE
      BY Zenon, <3>3 DEF StopPending, StopNow
    <3>4. ASSUME NEW k \in Loops, Start(k) \/ Destroy(k) PROVE FALSE
      BY Zenon, <3>4 DEF Start, Destroy, TypeOK
    <3>5. ASSUME NEW k \in Loops, EnterLoop(k) \/ LeaveLoop(k) \/ Finish(k) \/ FrameHandlers(k)
          PROVE  FALSE
      BY Zenon, <3>5 DEF EnterLoop, LeaveLoop, Finish, FrameHandlers, TypeOK
    <3>6. ASSUME NEW k \in Loops, FrameBegin(k) PROVE FALSE
      BY Zenon, <3>6 DEF FrameBegin, TypeOK
    <3>7. ASSUME NEW k \in Loops,
                 \/ Serve(k) \/ PostDone(k) \/ RequestDone(k) \/ PushResponse(k)
                 \/ Reply(k) \/ ReplyDone(k)
          PROVE  FALSE
      BY ZenonT(60), <3>7 DEF Serve, PostDone, RequestDone, PushResponse, Reply, ReplyDone
    <3>8. ASSUME NEW k \in Loops, NEW a, NEW b, NextQueue(k, a, b) PROVE FALSE
      BY ZenonT(60), <3>8 DEF NextQueue
    <3>9. ASSUME NEW k \in Loops, FrameEnd(k) PROVE k = l
      BY Zenon, <3>9 DEF FrameEnd, TypeOK
    <3> QED
      BY ZenonT(60), <3>1, <3>2, <3>3, <3>4, <3>5, <3>6, <3>7, <3>8, <3>9 DEF Next, AppStep, LoopStep
  <2>2. pending[l] = 0
    BY ZenonT(60), <2>1 DEF FrameEnd, MayExit
  <2>3. IsFiniteSet(Unfinished(l))
    <3>1. IsFiniteSet(Ids)
      BY FS_Interval, LoopAssumption DEF Ids
    <3> QED BY Zenon, <3>1, FS_Subset DEF Unfinished
  <2> QED BY Zenon, <2>2, <2>3, FS_EmptySet DEF PendingIsUnfinished
<1> QED
  BY <1>1, TypeCorrect, SelfPending, PTL DEF Spec, StopWaits
=============================================================================
