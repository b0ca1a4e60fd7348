------------------------- MODULE SessionQueueProofs -------------------------
(***************************************************************************)
(* Two parts of their own, for every value of their constants: the session *)
(* service keeps one session per user and device group, and the rings of   *)
(* SingleQueue and ExtendableSingleQueue are FIFOs.                        *)
(***************************************************************************)
EXTENDS SessionService, EcExtendableQueue, TLAPS

(* The session service.                                                    *)

USE SessionAssumption

\* Two sessions have one key exactly if they are of one user and one group.
LEMMA KeysTell ==
  ASSUME NEW a \in Sessions, NEW b \in Sessions
  PROVE  /\ KeyOf(a) \in Keys /\ KeyOf(a)[1] \notin AppList
         /\ KeyOf(a) = KeyOf(b) =>
              UserOf[a] = UserOf[b] /\ (DevOf[a] = DevOf[b] \/ {DevOf[a], DevOf[b]} \subseteq AppList)
BY DEF KeyOf, Keys

Busy(c) == call[c] # Idle
Unindexing(c) == InStep(c, "remove", "hasIndex") \/ InStep(c, "remove", "delIndex")

\* Every entry of the index is for its own session, and what a caller was told is
\* of the user and group it asked for.
Indexed ==
  /\ \A k \in Keys : index[k] # NoSession => KeyOf(index[k]) = k
  /\ \A c \in Callers : answer[c] # NoSession /\ answer[c].id # NoSession =>
       KeyOf(answer[c].asked) = KeyOf(answer[c].id)

\* While calls do not overlap and none throws, an entry without its session is
\* one that the removeSession under way is about to delete.
OneCall ==
  /\ \A c, d \in Callers : Busy(c) /\ Busy(d) => c = d
  /\ \A c \in Callers : InStep(c, "add", "index") => call[c].s \in store
  /\ \A c \in Callers : InStep(c, "lookup", "value") => index[KeyOf(call[c].s)] # NoSession
  /\ \A k \in Keys : index[k] # NoSession =>
       index[k] \in store \/ \E c \in Callers : Unindexing(c) /\ KeyOf(call[c].s) = k
  /\ \A c \in Callers : answer[c] # NoSession => answer[c].id # NoSession

SessionInv == SessionTypeOK /\ Indexed /\ (alone => OneCall)
-----------------------------------------------------------------------------
\* The record of a call that goes to another of its steps, or ends
LEMMA Goes ==
  ASSUME SessionTypeOK, NEW c \in Callers, NEW op, NEW step, InStep(c, op, step)
  PROVE  /\ call[c].s \in Sessions /\ call[c].op = op /\ call[c].step = step /\ Busy(c)
         /\ KeyOf(call[c].s) \in Keys
         /\ Returns(c) => /\ call' \in [Callers -> Calls] /\ call'[c] = Idle
                         /\ \A d \in Callers \ {c} : call'[d] = call[d]
         /\ \A to : GoesTo(c, to) =>
              /\ call'[c] = [op |-> op, s |-> call[c].s, step |-> to] /\ call'[c] # Idle
              /\ \A d \in Callers \ {c} : call'[d] = call[d]
              /\ call'[c] \in Calls => call' \in [Callers -> Calls]
<1>1. call \in [Callers -> Calls] /\ call[c] # Idle /\ call[c].op = op /\ call[c].step = step
  BY DEF SessionTypeOK, InStep
<1>2. /\ call[c].s \in Sessions /\ call[c] = [op |-> op, s |-> call[c].s, step |-> step]
  BY <1>1 DEF Calls, Idle
<1>3. KeyOf(call[c].s) \in Keys
  BY <1>2, KeysTell
<1>4. Idle \in Calls
  BY DEF Calls
<1>5. Returns(c) => /\ call' \in [Callers -> Calls] /\ call'[c] = Idle
                   /\ \A d \in Callers \ {c} : call'[d] = call[d]
  BY <1>1, <1>4 DEF Returns
<1>6. ASSUME NEW to, GoesTo(c, to)
      PROVE  /\ call'[c] = [op |-> op, s |-> call[c].s, step |-> to] /\ call'[c] # Idle
             /\ \A d \in Callers \ {c} : call'[d] = call[d]
             /\ call'[c] \in Calls => call' \in [Callers -> Calls]
  <2>1. call' = [call EXCEPT ![c] = [op |-> op, s |-> call[c].s, step |-> to]]
    <3>1. call' = [call EXCEPT ![c] = [call[c] EXCEPT !.step = to]]
      BY <1>1, <1>6 DEF GoesTo
    <3>2. PICK s : s = call[c].s
      OBVIOUS
    <3>3. call[c] = [op |-> op, s |-> s, step |-> step]
      BY <1>2, <3>2
    <3>4. [[op |-> op, s |-> s, step |-> step] EXCEPT !.step = to] = [op |-> op, s |-> s, step |-> to]
      OBVIOUS
    <3> QED
      BY Zenon, <3>1, <3>2, <3>3, <3>4
  <2>2. [op |-> op, s |-> call[c].s, step |-> to] # Idle
    BY DEF Idle
  <2> QED
    BY <1>1, <2>1, <2>2
<1> QED
  BY <1>1, <1>2, <1>3, <1>5, <1>6 DEF Busy

\* A command that only reads Redis, on which the call goes on or ends
LEMMA ReadKeeps ==
  ASSUME SessionInv, NEW c \in Callers, NEW op, NEW step, InStep(c, op, step),
         UNCHANGED <<store, index, answer, done, alone>>,
         \/ Returns(c)
         \/ \E to : /\ GoesTo(c, to) /\ [op |-> op, s |-> call[c].s, step |-> to] \in Calls
                    /\ op # "add"
                    /\ op = "lookup" => index[KeyOf(call[c].s)] # NoSession
                    /\ Unindexing(c) => to \in {"hasIndex", "delIndex"},
         Unindexing(c) /\ Returns(c) => index[KeyOf(call[c].s)] = NoSession
  PROVE  SessionInv'
<1>0. SessionTypeOK /\ Indexed /\ (alone => OneCall)
  BY DEF SessionInv
<1>1. /\ call[c].s \in Sessions /\ call[c].op = op /\ call[c].step = step /\ Busy(c)
      /\ \A d \in Callers \ {c} : call'[d] = call[d]
      /\ call' \in [Callers -> Calls]
      /\ \/ Returns(c) /\ call'[c] = Idle
         \/ \E to : /\ call'[c] = [op |-> op, s |-> call[c].s, step |-> to]
                    /\ call'[c] # Idle /\ op # "add"
                    /\ op = "lookup" => index[KeyOf(call[c].s)] # NoSession
                    /\ Unindexing(c) => to \in {"hasIndex", "delIndex"}
  <2>0. /\ call[c].s \in Sessions /\ call[c].op = op /\ call[c].step = step /\ Busy(c)
        /\ Returns(c) => /\ call' \in [Callers -> Calls] /\ call'[c] = Idle
                        /\ \A d \in Callers \ {c} : call'[d] = call[d]
        /\ \A to : GoesTo(c, to) =>
             /\ call'[c] = [op |-> op, s |-> call[c].s, step |-> to] /\ call'[c] # Idle
             /\ \A d \in Callers \ {c} : call'[d] = call[d]
             /\ call'[c] \in Calls => call' \in [Callers -> Calls]
    BY <1>0, Goes
  <2>1. CASE Returns(c)
    BY <2>0, <2>1
  <2>2. ASSUME NEW to, GoesTo(c, to), [op |-> op, s |-> call[c].s, step |-> to] \in Calls,
               op # "add", op = "lookup" => index[KeyOf(call[c].s)] # NoSession,
               Unindexing(c) => to \in {"hasIndex", "delIndex"}
        PROVE  /\ \A d \in Callers \ {c} : call'[d] = call[d]
               /\ call' \in [Callers -> Calls]
               /\ \E n : /\ call'[c] = [op |-> op, s |-> call[c].s, step |-> n]
                         /\ call'[c] # Idle /\ op # "add"
                         /\ op = "lookup" => index[KeyOf(call[c].s)] # NoSession
                         /\ Unindexing(c) => n \in {"hasIndex", "delIndex"}
    BY ZenonT(60), <2>0, <2>2
  <2> QED
    BY Zenon, <2>0, <2>1, <2>2
<1>2. SessionTypeOK'
  BY <1>0, <1>1 DEF SessionTypeOK
<1>3. Indexed'
  BY <1>0 DEF Indexed
<1>4. ASSUME alone' PROVE OneCall'
  <2>0. OneCall
    BY <1>0, <1>4
  <2>1. \A b, d \in Callers : Busy(b)' /\ Busy(d)' => b = d
    BY <1>1, <2>0 DEF OneCall, Busy
  <2>2. ASSUME NEW d \in Callers
        PROVE  /\ InStep(d, "add", "index")' => call'[d].s \in store
               /\ InStep(d, "lookup", "value")' => index[KeyOf(call'[d].s)] # NoSession
    <3>1. CASE d = c /\ call'[c] = Idle
      BY Zenon, <3>1 DEF InStep
    <3>2. CASE d = c /\ call'[c] # Idle
      <4>1. PICK to : /\ call'[c] = [op |-> op, s |-> call[c].s, step |-> to]
                      /\ op # "add" /\ (op = "lookup" => index[KeyOf(call[c].s)] # NoSession)
        BY Zenon, <1>1, <3>2
      <4>2. call'[c].op = op /\ call'[c].s = call[c].s
        BY <4>1
      <4> QED
        BY Zenon, <3>2, <4>1, <4>2 DEF InStep
    <3>3. CASE d # c
      BY Zenon, <1>1, <2>0, <3>3 DEF OneCall, InStep
    <3> QED
      BY Zenon, <3>1, <3>2, <3>3
  <2>3. ASSUME NEW k \in Keys, index[k] # NoSession, index[k] \notin store
        PROVE  \E d \in Callers : Unindexing(d)' /\ KeyOf(call'[d].s) = k
    <3>1. PICK d \in Callers : Unindexing(d) /\ KeyOf(call[d].s) = k
      BY <2>0, <2>3 DEF OneCall
    <3>2. d = c
      BY <1>1, <2>0, <3>1 DEF OneCall, Busy, Unindexing, InStep
    <3>3. ~Returns(c)
      BY <2>3, <3>1, <3>2
    <3>4. /\ call'[c] # Idle /\ call'[c].s = call[c].s /\ call'[c].op = "remove"
          /\ call'[c].step \in {"hasIndex", "delIndex"}
      BY <1>1, <3>1, <3>2, <3>3 DEF Unindexing, InStep
    <3> QED
      BY <3>1, <3>2, <3>4 DEF Unindexing, InStep
  <2> QED
    BY <2>0, <2>1, <2>2, <2>3 DEF OneCall
<1> QED
  BY <1>2, <1>3, <1>4 DEF SessionInv

\* Every command of every caller keeps the invariant.
LEMMA SessionStep == SessionInv /\ [SessionNext]_sessionVars => SessionInv'
<1> SUFFICES ASSUME SessionInv, [SessionNext]_sessionVars PROVE SessionInv'
  OBVIOUS
<1>0. /\ SessionTypeOK /\ Indexed /\ (alone => OneCall)
      /\ store \in SUBSET Sessions /\ index \in [Keys -> Sessions \cup {NoSession}]
      /\ call \in [Callers -> Calls] /\ answer \in [Callers -> Answers]
      /\ done \in 0..MaxCalls /\ alone \in BOOLEAN
  BY DEF SessionInv, SessionTypeOK
<1>1. ASSUME NEW c \in Callers, NEW op \in {"add", "get", "lookup", "remove"}, NEW s \in Sessions,
             Begin(c, op, s)
      PROVE  SessionInv'
  <2>1. /\ call'[c] = [op |-> op, s |-> s, step |-> FirstStep(op)]
        /\ \A d \in Callers \ {c} : call'[d] = call[d]
        /\ call[c] = Idle /\ answer'[c] = NoSession /\ \A d \in Callers \ {c} : answer'[d] = answer[d]
    BY <1>0, <1>1 DEF Begin
  <2>2. call' \in [Callers -> Calls] /\ answer' \in [Callers -> Answers] /\ done' \in 0..MaxCalls
    <3>1. [op |-> op, s |-> s, step |-> FirstStep(op)] \in Calls
      BY DEF Calls, FirstStep
    <3>2. NoSession \in Answers
      BY DEF Answers
    <3> QED
      BY <1>0, <1>1, <3>1, <3>2 DEF Begin
  <2>3. alone' \in BOOLEAN /\ (alone' => alone /\ Quiet)
    BY <1>1, Zenon DEF Begin
  <2>4. SessionTypeOK'
    BY <1>0, <1>1, <2>2, <2>3 DEF SessionTypeOK, Begin
  <2>5. Indexed'
    BY <1>0, <1>1, <2>1 DEF Indexed, Begin
  <2>6. ASSUME alone' PROVE OneCall'
    <3>1. OneCall /\ \A d \in Callers : call[d] = Idle
      BY <1>0, <2>3, <2>6 DEF Quiet
    <3>2. \A d \in Callers \ {c} : ~Busy(d) /\ ~Busy(d)'
      BY <2>1, <3>1 DEF Busy
    <3>3. FirstStep(op) = "store" \/ FirstStep(op) = "hasKey"
      BY DEF FirstStep
    <3> QED
      BY <1>1, <2>1, <3>1, <3>2, <3>3 DEF OneCall, InStep, Busy, Unindexing, Begin
  <2> QED
    BY <2>4, <2>5, <2>6 DEF SessionInv
<1>2. ASSUME NEW c \in Callers, AddStore(c) PROVE SessionInv'
  <2>1. /\ call'[c] = [op |-> "add", s |-> call[c].s, step |-> "index"] /\ call'[c] # Idle
        /\ \A d \in Callers \ {c} : call'[d] = call[d]
        /\ call[c].s \in Sessions /\ Busy(c) /\ ~Unindexing(c)
        /\ call'[c] \in Calls => call' \in [Callers -> Calls]
    BY <1>0, <1>2, Goes DEF AddStore, Unindexing, InStep
  <2>2. SessionTypeOK'
    <3>1. call'[c] \in Calls
      BY <2>1 DEF Calls
    <3> QED
      BY <1>0, <1>2, <2>1, <3>1 DEF SessionTypeOK, AddStore
  <2>3. Indexed'
    BY <1>0, <1>2 DEF Indexed, AddStore
  <2>4. ASSUME alone' PROVE OneCall'
    <3>1. OneCall
      BY <1>0, <1>2, <2>4 DEF AddStore
    <3> QED
      BY <1>2, <2>1, <3>1 DEF OneCall, InStep, Busy, Unindexing, AddStore
  <2> QED
    BY <2>2, <2>3, <2>4 DEF SessionInv
<1>3. ASSUME NEW c \in Callers, AddIndex(c) PROVE SessionInv'
  <2>0. PICK s \in Sessions : s = call[c].s
    BY <1>0, <1>3, Goes DEF AddIndex
  <2>1. /\ call'[c] = Idle /\ call' \in [Callers -> Calls]
        /\ \A d \in Callers \ {c} : call'[d] = call[d]
        /\ Busy(c) /\ ~Unindexing(c) /\ KeyOf(s) \in Keys
    BY <1>0, <1>3, <2>0, Goes DEF AddIndex, Unindexing, InStep
  <2>2. /\ index'[KeyOf(s)] = s /\ \A k \in Keys \ {KeyOf(s)} : index'[k] = index[k]
        /\ index' \in [Keys -> Sessions \cup {NoSession}]
    BY <1>0, <1>3, <2>0, <2>1 DEF AddIndex
  <2>3. SessionTypeOK'
    BY <1>0, <1>3, <2>1, <2>2 DEF SessionTypeOK, AddIndex
  <2>4. Indexed'
    BY <1>0, <1>3, <2>2 DEF Indexed, AddIndex
  <2>5. ASSUME alone' PROVE OneCall'
    <3>1. OneCall
      BY <1>0, <1>3, <2>5 DEF AddIndex
    <3>2. \A d \in Callers : ~Busy(d)'
      BY <2>1, <3>1 DEF OneCall, Busy
    <3>3. s \in store
      BY <1>3, <2>0, <3>1 DEF OneCall, AddIndex
    <3>4. ASSUME NEW k \in Keys, index'[k] # NoSession PROVE index'[k] \in store
      BY <2>1, <2>2, <3>1, <3>3, <3>4 DEF OneCall, Busy, Unindexing, InStep
    <3> QED
      BY <1>3, <3>1, <3>2, <3>4 DEF OneCall, InStep, Busy, Unindexing, AddIndex
  <2> QED
    BY <2>3, <2>4, <2>5 DEF SessionInv
<1>4. ASSUME NEW c \in Callers, GetHasKey(c) \/ RemoveHasKey(c) \/ RemoveValue(c) \/ RemoveHasStore(c)
      PROVE  SessionInv'
  <2>1. /\ UNCHANGED <<store, index, answer, done, alone>> /\ ~Unindexing(c)
        /\ \E op \in {"get", "remove"}, step \in {"hasKey", "value", "hasStore"} :
             /\ InStep(c, op, step)
             /\ \/ Returns(c)
                \/ \E to \in {"value", "hasStore", "delStore", "hasIndex"} :
                     GoesTo(c, to) /\ (op = "get" => to = "value")
    BY <1>4 DEF GetHasKey, RemoveHasKey, RemoveValue, RemoveHasStore, InStep, Unindexing
  <2>2. PICK op \in {"get", "remove"}, step \in {"hasKey", "value", "hasStore"} :
             /\ InStep(c, op, step)
             /\ \/ Returns(c)
                \/ \E to \in {"value", "hasStore", "delStore", "hasIndex"} :
                     GoesTo(c, to) /\ (op = "get" => to = "value")
    BY <2>1
  <2>3. call[c].s \in Sessions
    BY <1>0, <2>2, Goes
  <2>4. \A to \in {"value", "hasStore", "delStore", "hasIndex"} :
          (op = "get" => to = "value") => [op |-> op, s |-> call[c].s, step |-> to] \in Calls
    BY <2>2, <2>3 DEF Calls
  <2> QED
    BY <2>1, <2>2, <2>4, ReadKeeps
<1>5. ASSUME NEW c \in Callers, LookupHasKey(c) PROVE SessionInv'
  <2>1. InStep(c, "lookup", "hasKey") /\ UNCHANGED <<store, index, answer, done, alone>> /\ ~Unindexing(c)
    BY <1>5 DEF LookupHasKey, InStep, Unindexing
  <2>2. [op |-> "lookup", s |-> call[c].s, step |-> "value"] \in Calls
    BY <1>0, <2>1, Goes DEF Calls
  <2>3. Returns(c) \/ (GoesTo(c, "value") /\ index[KeyOf(call[c].s)] # NoSession)
    BY <1>5 DEF LookupHasKey
  <2> QED
    BY <2>1, <2>2, <2>3, ReadKeeps
<1>6. ASSUME NEW c \in Callers, RemoveHasIndex(c) PROVE SessionInv'
  <2>1. InStep(c, "remove", "hasIndex") /\ UNCHANGED <<store, index, answer, done, alone>>
    BY <1>6 DEF RemoveHasIndex
  <2>2. [op |-> "remove", s |-> call[c].s, step |-> "delIndex"] \in Calls
    BY <1>0, <2>1, Goes DEF Calls
  <2>3. \/ Returns(c) /\ index[KeyOf(call[c].s)] = NoSession
        \/ GoesTo(c, "delIndex")
    BY <1>6 DEF RemoveHasIndex
  <2>4. ~(Returns(c) /\ GoesTo(c, "delIndex"))
    BY Zenon, <1>0, <2>1, Goes
  <2> QED
    BY <2>1, <2>2, <2>3, <2>4, ReadKeeps
<1>7. ASSUME NEW c \in Callers, GetValue(c) \/ LookupValue(c) PROVE SessionInv'
  <2>0. PICK s \in Sessions, op \in {"get", "lookup"} : s = call[c].s /\ InStep(c, op, "value")
    BY <1>0, <1>7, Goes DEF GetValue, LookupValue
  <2>1. /\ call'[c] = Idle /\ call' \in [Callers -> Calls]
        /\ \A d \in Callers \ {c} : call'[d] = call[d]
        /\ Busy(c) /\ ~Unindexing(c) /\ KeyOf(s) \in Keys
        /\ UNCHANGED <<store, index, done, alone>>
    BY <1>0, <1>7, <2>0, Goes DEF GetValue, LookupValue, Unindexing, InStep
  <2>2. PICK a : /\ answer' = [answer EXCEPT ![c] = a]
                 /\ \/ a = NoSession
                    \/ a = [asked |-> s, id |-> s]
                    \/ op = "lookup" /\ a = [asked |-> s, id |-> index[KeyOf(s)]]
    BY <1>0, <1>7, <2>0 DEF GetValue, LookupValue, InStep
  <2>3. a \in Answers /\ (a # NoSession /\ a.id # NoSession => KeyOf(a.asked) = KeyOf(a.id))
    BY <1>0, <2>0, <2>1, <2>2 DEF Answers, Indexed
  <2>4. SessionTypeOK'
    BY <1>0, <2>1, <2>2, <2>3 DEF SessionTypeOK
  <2>5. Indexed'
    BY <1>0, <2>1, <2>2, <2>3 DEF Indexed
  <2>6. ASSUME alone' PROVE OneCall'
    <3>1. OneCall
      BY <1>0, <2>1, <2>6
    <3>2. \A d \in Callers : ~Busy(d)'
      BY <2>1, <3>1 DEF OneCall, Busy
    <3>3. a # NoSession => a.id # NoSession
      BY <2>0, <2>2, <3>1 DEF OneCall
    <3>4. ASSUME NEW k \in Keys, index[k] # NoSession PROVE index[k] \in store
      BY <2>1, <3>1, <3>4 DEF OneCall, Busy, Unindexing, InStep
    <3>5. \A d \in Callers : answer'[d] # NoSession => answer'[d].id # NoSession
      BY <1>0, <2>2, <3>1, <3>3 DEF OneCall
    <3> QED
      BY <2>1, <3>2, <3>4, <3>5 DEF OneCall, InStep, Busy
  <2> QED
    BY <2>4, <2>5, <2>6 DEF SessionInv
<1>8. ASSUME NEW c \in Callers, RemoveDelStore(c) PROVE SessionInv'
  <2>1. /\ call'[c] = [op |-> "remove", s |-> call[c].s, step |-> "hasIndex"] /\ call'[c] # Idle
        /\ \A d \in Callers \ {c} : call'[d] = call[d]
        /\ call[c].s \in Sessions /\ Busy(c) /\ ~Unindexing(c)
        /\ call'[c] \in Calls => call' \in [Callers -> Calls]
    BY <1>0, <1>8, Goes DEF RemoveDelStore, Unindexing, InStep
  <2>2. SessionTypeOK'
    <3>1. call'[c] \in Calls
      BY <2>1 DEF Calls
    <3> QED
      BY <1>0, <1>8, <2>1, <3>1 DEF SessionTypeOK, RemoveDelStore
  <2>3. Indexed'
    BY <1>0, <1>8 DEF Indexed, RemoveDelStore
  <2>4. ASSUME alone' PROVE OneCall'
    <3>0. OneCall /\ store' = store \ {call[c].s} /\ UNCHANGED <<index, answer>>
      BY <1>0, <1>8, <2>4 DEF RemoveDelStore
    <3>1. /\ \A b, d \in Callers : Busy(b)' /\ Busy(d)' => b = d
          /\ \A d \in Callers : InStep(d, "add", "index")' => call'[d].s \in store'
          /\ \A d \in Callers : InStep(d, "lookup", "value")' => index'[KeyOf(call'[d].s)] # NoSession
      BY <2>1, <3>0 DEF OneCall, Busy, InStep
    <3>2. Unindexing(c)' /\ call'[c].s = call[c].s
      BY <2>1 DEF Unindexing, InStep
    <3>3. ASSUME NEW k \in Keys, index[k] # NoSession
          PROVE  index[k] \in store' \/ KeyOf(call[c].s) = k
      <4>1. index[k] \in store
        BY <2>1, <3>0, <3>3 DEF OneCall, Busy, Unindexing, InStep
      <4>2. KeyOf(index[k]) = k
        BY <1>0, <3>3 DEF Indexed
      <4> QED
        BY <3>0, <4>1, <4>2
    <3> QED
      BY <3>0, <3>1, <3>2, <3>3 DEF OneCall
  <2> QED
    BY <2>2, <2>3, <2>4 DEF SessionInv
<1>9. ASSUME NEW c \in Callers, RemoveDelIndex(c) PROVE SessionInv'
  <2>0. PICK s \in Sessions : s = call[c].s
    BY <1>0, <1>9, Goes DEF RemoveDelIndex
  <2>1. /\ call'[c] = Idle /\ call' \in [Callers -> Calls]
        /\ \A d \in Callers \ {c} : call'[d] = call[d]
        /\ Busy(c) /\ KeyOf(s) \in Keys
    BY <1>0, <1>9, <2>0, Goes DEF RemoveDelIndex
  <2>2. /\ index'[KeyOf(s)] = NoSession /\ \A k \in Keys \ {KeyOf(s)} : index'[k] = index[k]
        /\ index' \in [Keys -> Sessions \cup {NoSession}]
    BY <1>0, <1>9, <2>0, <2>1 DEF RemoveDelIndex, IndexCleared
  <2>3. SessionTypeOK'
    BY <1>0, <1>9, <2>1, <2>2 DEF SessionTypeOK, RemoveDelIndex
  <2>4. Indexed'
    BY <1>0, <1>9, <2>2 DEF Indexed, RemoveDelIndex
  <2>5. ASSUME alone' PROVE OneCall'
    <3>1. OneCall
      BY <1>0, <1>9, <2>5 DEF RemoveDelIndex
    <3>2. \A d \in Callers : ~Busy(d)'
      BY <2>1, <3>1 DEF OneCall, Busy
    <3>3. ASSUME NEW k \in Keys, index'[k] # NoSession PROVE index'[k] \in store
      <4>1. index'[k] = index[k] /\ k # KeyOf(s)
        BY <2>2, <3>3
      <4>2. \A d \in Callers : Unindexing(d) => d = c
        BY <2>1, <3>1 DEF OneCall, Busy, Unindexing, InStep
      <4> QED
        BY <2>0, <3>1, <3>3, <4>1, <4>2 DEF OneCall
    <3> QED
      BY <1>9, <3>1, <3>2, <3>3 DEF OneCall, InStep, Busy, RemoveDelIndex
  <2> QED
    BY <2>3, <2>4, <2>5 DEF SessionInv
<1>10. ASSUME NEW c \in Callers, Fails(c) PROVE SessionInv'
  <2>1. call' \in [Callers -> Calls]
    BY <1>0, <1>10 DEF Fails, Returns, Calls
  <2>2. alone' \in BOOLEAN /\ ~alone'
    BY <1>10, Zenon DEF Fails
  <2>3. SessionTypeOK' /\ Indexed'
    BY <1>0, <1>10, <2>1, <2>2 DEF SessionTypeOK, Indexed, Fails
  <2> QED
    BY <2>2, <2>3 DEF SessionInv
<1>11. CASE UNCHANGED sessionVars
  BY <1>0, <1>11 DEF sessionVars, SessionInv, SessionTypeOK, Indexed, OneCall, Busy, InStep, Unindexing
<1> QED
  BY <1>1, <1>2, <1>3, <1>4, <1>5, <1>6, <1>7, <1>8, <1>9, <1>10, <1>11 DEF SessionNext

\* A user has one session per device group, whatever the callers do and
\* whichever commands to Redis fail; and while calls neither overlap nor fail,
\* the index names only sessions that are there: for any number of callers,
\* sessions, users and devices, of which none is called "APP".
THEOREM OneGroupHolds == SessionSpec => []OneGroup
<1>1. SessionInit => SessionInv
  <2> SUFFICES ASSUME SessionInit PROVE SessionInv
    OBVIOUS
  <2>1. /\ store = {} /\ index = [k \in Keys |-> NoSession] /\ call = [c \in Callers |-> Idle]
        /\ answer = [c \in Callers |-> NoSession] /\ done = 0 /\ alone \in BOOLEAN
    BY DEF SessionInit, SessionInit
  <2>2. Idle \in Calls /\ NoSession \in Answers
    BY DEF Calls, Answers
  <2>3. SessionTypeOK
    BY <2>1, <2>2 DEF SessionTypeOK
  <2> QED
    BY <2>1, <2>3 DEF SessionInv, Indexed, OneCall, Busy, InStep
<1>2. SessionInv /\ [SessionNext]_sessionVars => SessionInv'
  BY SessionStep
<1>3. SessionInv => OneGroup
  <2> SUFFICES ASSUME SessionInv PROVE OneGroup
    OBVIOUS
  <2>1. SessionTypeOK /\ Indexed /\ (alone => OneCall)
    BY DEF SessionInv
  <2>2. ASSUME NEW k \in Keys, index[k] # NoSession PROVE KeyOf(index[k]) = k /\ k[1] \notin AppList
    <3>1. index[k] \in Sessions /\ KeyOf(index[k]) = k
      BY <2>1, <2>2 DEF SessionTypeOK, Indexed
    <3> QED
      BY <3>1, KeysTell
  <2>3. ASSUME NEW c \in Callers, answer[c] # NoSession, answer[c].id # NoSession
        PROVE  LET a == answer[c].asked
                   b == answer[c].id
               IN UserOf[a] = UserOf[b] /\ (DevOf[a] = DevOf[b] \/ {DevOf[a], DevOf[b]} \subseteq AppList)
    <3>1. /\ answer[c].asked \in Sessions /\ answer[c].id \in Sessions
          /\ KeyOf(answer[c].asked) = KeyOf(answer[c].id)
      BY <2>1, <2>3 DEF SessionTypeOK, Answers, Indexed
    <3> QED
      BY <3>1, KeysTell
  <2>4. alone => /\ Quiet => \A k \in Keys : index[k] # NoSession => index[k] \in store
                 /\ \A c \in Callers : answer[c] # NoSession => answer[c].id # NoSession
    BY <2>1 DEF OneCall, Quiet, Unindexing, InStep
  <2> QED
    BY <2>1, <2>2, <2>3, <2>4 DEF OneGroup
<1> QED
  BY <1>1, <1>2, <1>3, PTL DEF SessionSpec

HIDE SessionAssumption
-----------------------------------------------------------------------------
(* The queues.                                                             *)

USE RingAssumption, QueueAssumption

\* Moving a position: the remainder is a wrap at the end of the array.
LEMMA AfterWraps ==
  ASSUME NEW p \in Slots
  PROVE  After(p) \in Slots /\ After(p) = IF p = Capacity THEN 0 ELSE p + 1
<1>1. Capacity \in Nat /\ p \in 0..Capacity
  BY DEF Slots, Size
<1>2. CASE p = Capacity
  <2>1. (Capacity + 1) % (Capacity + 1) = 0
    BY <1>1, Z3
  <2> QED
    BY <1>1, <1>2, <2>1 DEF After, Slots, Size
<1>3. CASE p # Capacity
  <2>1. p + 1 \in 0..Capacity
    BY <1>1, <1>3
  <2>2. (p + 1) % (Capacity + 1) = p + 1
    BY <1>1, <2>1, Z3
  <2> QED
    BY <1>1, <1>3, <2>1, <2>2 DEF After, Slots, Size
<1> QED
  BY <1>2, <1>3

\* The number of slots in use, and what full() and empty() say of it.
LEMMA CountBounds ==
  ASSUME NEW f \in Slots, NEW r \in Slots
  PROVE  /\ CountOf(f, r) \in 0..Capacity
         /\ Full(f, r) <=> CountOf(f, r) = Capacity
         /\ Empty(f, r) <=> CountOf(f, r) = 0
BY AfterWraps DEF CountOf, Straight, Wrapped, Full, Empty, Slots, Size

\* A push that has room puts its slot behind the slots in use.
LEMMA PushSlot ==
  ASSUME NEW f \in Slots, NEW r \in Slots, CountOf(f, r) < Capacity
  PROVE  /\ CountOf(f, After(r)) = CountOf(f, r) + 1
         /\ SlotAt(f, CountOf(f, r) + 1) = r
         /\ \A n \in 1..CountOf(f, r) : SlotAt(f, n) \in Slots /\ SlotAt(f, n) # r
<1>1. After(r) = IF r = Capacity THEN 0 ELSE r + 1
  BY AfterWraps
<1> QED
  BY <1>1 DEF CountOf, Straight, Wrapped, SlotAt, Slots, Size

\* A pop of a queue that is not empty gives up the first of the slots in use.
LEMMA PopSlot ==
  ASSUME NEW f \in Slots, NEW r \in Slots, CountOf(f, r) > 0
  PROVE  /\ CountOf(After(f), r) = CountOf(f, r) - 1
         /\ SlotAt(f, 1) = f
         /\ \A n \in 1..(CountOf(f, r) - 1) : SlotAt(After(f), n) = SlotAt(f, n + 1)
<1>1. After(f) = IF f = Capacity THEN 0 ELSE f + 1
  BY AfterWraps
<1> QED
  BY <1>1 DEF CountOf, Straight, Wrapped, SlotAt, Slots, Size

\* Every slot in use holds a value that was pushed.
Written == \A n \in 1..CountOf(front, rear) : elements[SlotAt(front, n)] \in Values

Inv == TypeOK /\ AnswersStay /\ Written

\* Both positions start at 0: nothing is in the ring.
LEMMA InvInit == Init => Inv /\ Ring = <<>>
<1> SUFFICES ASSUME Init PROVE Inv /\ Ring = <<>>
  OBVIOUS
<1>1. 0 \in Slots /\ 0 \in 0..(Word - 1) /\ <<>> \in Seq(Values)
  BY DEF Slots, Size
<1>2. TypeOK
  BY <1>1 DEF Init, TypeOK, Threads
<1>3. CountOf(front, rear) = 0
  BY <1>1, CountBounds DEF Init, Empty
<1>4. Ring = <<>>
  BY <1>3 DEF Init, Ring, Contents
<1> QED
  BY <1>2, <1>3, <1>4 DEF Init, Inv, AnswersStay, Written, Threads

\* No step of either thread makes an answer of full() or empty() stale, or
\* puts a slot that was not written between the positions.
LEMMA InvStep == Inv /\ [Next]_vars => Inv'
<1> SUFFICES ASSUME Inv, [Next]_vars PROVE Inv'
  OBVIOUS
<1> USE DEF Inv
<1>1. TypeOK /\ AnswersStay /\ Written
  OBVIOUS
<1>2. /\ CountOf(front, rear) \in 0..Capacity
      /\ Full(front, rear) <=> CountOf(front, rear) = Capacity
      /\ Empty(front, rear) <=> CountOf(front, rear) = 0
  BY CountBounds DEF TypeOK
<1>3. ASSUME NEW v \in Values, PushBegin(v) PROVE Inv'
  <2>1. TypeOK'
    BY <1>3 DEF PushBegin, TypeOK, Threads
  <2>2. AnswersStay'
    BY <1>3, <1>2 DEF PushBegin, TypeOK, Threads, AnswersStay
  <2>3. Written'
    BY <1>3 DEF PushBegin, Written
  <2> QED
    BY <2>1, <2>2, <2>3
<1>4. CASE PushStore
  <2>1. /\ CountOf(front, rear) < Capacity
        /\ held["writer"] \in Values
    BY <1>4 DEF PushStore, AnswersStay
  <2>2. \A n \in 1..CountOf(front, rear) : SlotAt(front, n) \in Slots /\ SlotAt(front, n) # rear
    BY <2>1, PushSlot DEF TypeOK
  <2>3. TypeOK'
    BY <1>4, <2>1 DEF PushStore, TypeOK, Threads
  <2>4. Written'
    BY <1>4, <2>2 DEF PushStore, Written, TypeOK
  <2>5. CountOf(front, rear) > 0 => front # rear
    BY <1>2 DEF Empty
  <2>6. AnswersStay'
    BY <1>4, <2>1, <2>5 DEF PushStore, AnswersStay, TypeOK, Threads
  <2> QED
    BY <2>3, <2>4, <2>6
<1>5. CASE PushAdvance
  <2>1. /\ CountOf(front, rear) < Capacity
        /\ held["writer"] \in Values
        /\ elements[rear] = held["writer"]
    BY <1>5 DEF PushAdvance, AnswersStay
  <2>2. /\ CountOf(front, After(rear)) = CountOf(front, rear) + 1
        /\ SlotAt(front, CountOf(front, rear) + 1) = rear
    BY <2>1, PushSlot DEF TypeOK
  <2>3. After(rear) \in Slots
    BY AfterWraps DEF TypeOK
  <2>4. TypeOK'
    BY <1>5, <2>3 DEF PushAdvance, TypeOK, Threads
  <2>5. Written'
    <3> SUFFICES ASSUME NEW n \in 1..(CountOf(front, rear) + 1)
                 PROVE  elements[SlotAt(front, n)] \in Values
      BY <1>5, <2>2 DEF PushAdvance, Written
    <3>1. CASE n \in 1..CountOf(front, rear)
      BY <3>1 DEF Written
    <3>2. CASE n = CountOf(front, rear) + 1
      BY <3>2, <2>1, <2>2
    <3> QED
      BY <3>1, <3>2, <1>2
  <2>6. AnswersStay'
    BY <1>5, <1>2, <2>1, <2>2 DEF PushAdvance, AnswersStay, TypeOK, Threads
  <2> QED
    BY <2>4, <2>5, <2>6
<1>6. CASE TakeBegin
  <2>1. TypeOK' /\ Written'
    BY <1>6 DEF TakeBegin, TypeOK, Threads, Written
  <2>2. AnswersStay'
    BY <1>6, <1>2 DEF TakeBegin, AnswersStay, TypeOK, Threads
  <2> QED
    BY <2>1, <2>2
<1>7. CASE TakeLoad
  <2>1. TypeOK' /\ Written'
    BY <1>7 DEF TakeLoad, TypeOK, Threads, Written
  <2>2. AnswersStay'
    BY <1>7, <1>2 DEF TakeLoad, AnswersStay, TypeOK, Threads
  <2> QED
    BY <2>1, <2>2
<1>8. CASE PopAdvance
  <2>1. CountOf(front, rear) > 0 /\ held["reader"] = elements[front]
    BY <1>8 DEF PopAdvance, AnswersStay
  <2>2. /\ CountOf(After(front), rear) = CountOf(front, rear) - 1
        /\ SlotAt(front, 1) = front
        /\ \A n \in 1..(CountOf(front, rear) - 1) :
             SlotAt(After(front), n) = SlotAt(front, n + 1)
    BY <2>1, PopSlot DEF TypeOK
  <2>3. After(front) \in Slots
    BY AfterWraps DEF TypeOK
  <2>4. held["reader"] \in Values
    BY <2>1, <2>2, <1>2 DEF Written
  <2>5. TypeOK'
    BY <1>8, <2>3, <2>4 DEF PopAdvance, TypeOK, Threads
  <2>6. Written'
    <3> SUFFICES ASSUME NEW n \in 1..(CountOf(front, rear) - 1)
                 PROVE  elements[SlotAt(After(front), n)] \in Values
      BY <1>8, <2>2 DEF PopAdvance, Written
    <3>1. n + 1 \in 1..CountOf(front, rear)
      BY <1>2
    <3> QED
      BY <3>1, <2>2 DEF Written
  <2>7. AnswersStay'
    BY <1>8, <1>2, <2>1, <2>2 DEF PopAdvance, AnswersStay, TypeOK, Threads
  <2> QED
    BY <2>5, <2>6, <2>7
<1>9. ASSUME NEW t \in Threads, CountBegin(t) PROVE Inv'
  <2>1. TypeOK' /\ Written'
    BY <1>9 DEF CountBegin, TypeOK, Threads, Written
  <2>2. AnswersStay'
    BY <1>9 DEF CountBegin, AnswersStay, TypeOK, Threads
  <2> QED
    BY <2>1, <2>2
<1>10. ASSUME NEW t \in Threads, CountEnd(t) PROVE Inv'
  <2> DEFINE c == IF pc[t] = "straight" THEN Straight(front, rear) ELSE Wrapped(front, rear)
  <2>1. c % Word \in 0..(Word - 1)
    <3>1. c \in Int /\ Word \in Nat /\ Word > 0
      BY DEF TypeOK, Slots, Size, Straight, Wrapped
    <3> HIDE DEF c
    <3> QED
      BY <3>1, Z3
  <2>2. TypeOK' /\ Written'
    BY <1>10, <2>1 DEF CountEnd, TypeOK, Threads, Written
  <2>3. AnswersStay'
    BY <1>10 DEF CountEnd, AnswersStay, TypeOK, Threads
  <2> QED
    BY <2>2, <2>3
<1>11. CASE UNCHANGED vars
  BY <1>11 DEF vars, TypeOK, AnswersStay, Written
<1> HIDE DEF Inv
<1> QED
  BY <1>3, <1>4, <1>5, <1>6, <1>7, <1>8, <1>9, <1>10, <1>11
  DEF Next, Writer, Reader, Threads

\* The invariant that makes the ring a Fifo, in every state of the two threads
LEMMA InvHolds == Spec => []Inv
BY InvInit, InvStep, PTL DEF Spec

\* What the invariant says of the answers and of the slots in use
LEMMA InvGives == Inv => AnswersKeep
<1> SUFFICES ASSUME Inv PROVE AnswersKeep
  OBVIOUS
<1>1. front \in Slots /\ rear \in Slots /\ Written
  BY DEF Inv, TypeOK
<1>2. CountOf(front, rear) \in 0..Capacity
  BY <1>1, CountBounds
<1>3. CountOf(front, rear) > 0 => SlotAt(front, CountOf(front, rear)) = RearSlot(rear)
  BY <1>1 DEF SlotAt, RearSlot, CountOf, Straight, Wrapped, Slots, Size
<1> QED
  BY <1>1, <1>2, <1>3 DEF Inv, AnswersKeep, SlotsWritten, Written, Ring, Contents

\* full() and empty() stay true for as long as the caller relies on them, and
\* what is in the ring was pushed.
THEOREM AnswersKeepHolds == Spec => []AnswersKeep
BY InvGives, InvHolds, PTL
-----------------------------------------------------------------------------
\* The elements in the ring are a sequence of pushed values.
LEMMA ContentsIsSeq ==
  ASSUME NEW e, NEW f \in Slots, NEW r \in Slots,
         \A n \in 1..CountOf(f, r) : e[SlotAt(f, n)] \in Values
  PROVE  /\ Contents(e, f, r) \in Seq(Values)
         /\ Len(Contents(e, f, r)) = CountOf(f, r)
         /\ Len(Contents(e, f, r)) \in 0..Capacity
         /\ \A n \in 1..CountOf(f, r) : Contents(e, f, r)[n] = e[SlotAt(f, n)]
<1>1. CountOf(f, r) \in 0..Capacity
  BY CountBounds
<1>2. Contents(e, f, r) = [n \in 1..CountOf(f, r) |-> e[SlotAt(f, n)]]
  BY DEF Contents
<1> QED
  BY <1>1, <1>2

\* The ring as a sequence in the state before a step ...
LEMMA RingBefore ==
  ASSUME Inv
  PROVE  /\ front \in Slots /\ rear \in Slots
         /\ Ring \in Seq(Values)
         /\ Len(Ring) = CountOf(front, rear)
         /\ Len(Ring) \in 0..Capacity
         /\ \A n \in 1..Len(Ring) : Ring[n] = elements[SlotAt(front, n)]
<1>0. PICK e : e = elements
  OBVIOUS
<1>1. PICK f \in Slots, r \in Slots : f = front /\ r = rear
  BY DEF Inv, TypeOK
<1>2. \A n \in 1..CountOf(f, r) : e[SlotAt(f, n)] \in Values
  BY <1>0, <1>1 DEF Inv, Written
<1>3. Ring = Contents(e, f, r)
  BY <1>0, <1>1 DEF Ring, Contents
<1> QED
  BY <1>0, <1>1, <1>2, <1>3, ContentsIsSeq

\* ... and in the state after it
LEMMA RingAfter ==
  ASSUME Inv'
  PROVE  /\ Ring' \in Seq(Values)
         /\ Len(Ring') = CountOf(front', rear')
         /\ \A n \in 1..Len(Ring') : Ring'[n] = elements'[SlotAt(front', n)]
<1>0. PICK e : e = elements'
  OBVIOUS
<1>1. PICK f \in Slots, r \in Slots : f = front' /\ r = rear'
  BY DEF Inv, TypeOK
<1>2. \A n \in 1..CountOf(f, r) : e[SlotAt(f, n)] \in Values
  BY <1>0, <1>1 DEF Inv, Written
<1>3. Ring' = Contents(e, f, r)
  BY <1>0, <1>1 DEF Ring, Contents
<1>4. /\ Ring' \in Seq(Values)
      /\ Len(Ring') = CountOf(f, r)
      /\ \A n \in 1..CountOf(f, r) : Ring'[n] = e[SlotAt(f, n)]
  BY <1>2, <1>3, ContentsIsSeq
<1> QED
  BY <1>0, <1>1, <1>4

\* Storing the element does not show yet: the slot is outside the ring.
LEMMA StoreHides ==
  ASSUME Inv, Inv', PushStore
  PROVE  Ring' = Ring
<1>1. CountOf(front, rear) < Capacity
  BY DEF PushStore, Inv, AnswersStay
<1>2. \A n \in 1..CountOf(front, rear) : SlotAt(front, n) \in Slots /\ SlotAt(front, n) # rear
  BY <1>1, RingBefore, PushSlot
<1>3. Len(Ring') = Len(Ring) /\ \A n \in 1..Len(Ring) : Ring'[n] = Ring[n]
  BY RingBefore, RingAfter, <1>2 DEF PushStore, Inv, TypeOK
<1> QED
  BY RingBefore, RingAfter, <1>3

\* The move of _rearPos puts the value stored just before.
LEMMA AdvancePuts ==
  ASSUME Inv, Inv', PushAdvance
  PROVE  /\ held["writer"] \in Values /\ Len(Ring) < Capacity
         /\ Ring' = Append(Ring, held["writer"])
<1>1. /\ CountOf(front, rear) < Capacity
      /\ held["writer"] \in Values
      /\ elements[rear] = held["writer"]
  BY DEF PushAdvance, Inv, AnswersStay
<1>2. /\ CountOf(front, After(rear)) = CountOf(front, rear) + 1
      /\ SlotAt(front, CountOf(front, rear) + 1) = rear
  BY <1>1, RingBefore, PushSlot
<1>3. /\ Len(Ring') = Len(Ring) + 1
      /\ \A n \in 1..Len(Ring) : Ring'[n] = Ring[n]
      /\ Ring'[Len(Ring) + 1] = held["writer"]
  BY RingBefore, RingAfter, <1>1, <1>2 DEF PushAdvance
<1>4. Ring' = Append(Ring, held["writer"])
  BY RingBefore, RingAfter, <1>1, <1>3
<1> QED
  BY RingBefore, <1>1, <1>4

\* The move of _frontPos takes the value read just before.
LEMMA PopTakes ==
  ASSUME Inv, Inv', PopAdvance
  PROVE  /\ Ring # <<>> /\ Head(Ring) = held["reader"]
         /\ Ring' = Tail(Ring)
<1>1. CountOf(front, rear) > 0 /\ held["reader"] = elements[front]
  BY DEF PopAdvance, Inv, AnswersStay
<1>2. /\ CountOf(After(front), rear) = CountOf(front, rear) - 1
      /\ SlotAt(front, 1) = front
      /\ \A n \in 1..(CountOf(front, rear) - 1) :
           SlotAt(After(front), n) = SlotAt(front, n + 1)
  BY <1>1, RingBefore, PopSlot
<1>3. Ring # <<>> /\ Head(Ring) = held["reader"]
  BY RingBefore, <1>1, <1>2
<1>4. Len(Ring') = Len(Ring) - 1
  BY RingBefore, RingAfter, <1>2 DEF PopAdvance
<1>5. \A n \in 1..(Len(Ring) - 1) : Ring'[n] = Ring[n + 1]
  <2> SUFFICES ASSUME NEW n \in 1..(Len(Ring) - 1) PROVE Ring'[n] = Ring[n + 1]
    OBVIOUS
  <2>1. n + 1 \in 1..Len(Ring) /\ n \in 1..Len(Ring')
    BY RingBefore, <1>4
  <2> QED
    BY <2>1, RingBefore, RingAfter, <1>2 DEF PopAdvance
<1>6. Ring' = Tail(Ring)
  BY RingBefore, RingAfter, <1>3, <1>4, <1>5
<1> QED
  BY <1>3, <1>6

\* What a step of either thread is to the Fifo
LEMMA RingStep == Inv /\ Inv' /\ [Next]_vars => [Abstract!Next]_<<Ring, out>>
<1> SUFFICES ASSUME Inv, Inv', [Next]_vars
             PROVE  Abstract!Next \/ (Ring' = Ring /\ out' = out)
  OBVIOUS
<1>1. CASE PushStore
  BY <1>1, StoreHides DEF PushStore
<1>2. CASE PushAdvance
  BY <1>2, AdvancePuts DEF PushAdvance, Abstract!Next, Abstract!Put
<1>3. CASE PopAdvance
  BY <1>3, PopTakes DEF PopAdvance, Abstract!Next, Abstract!Take
<1>4. CASE UNCHANGED <<elements, front, rear, out>>
  BY <1>4 DEF Ring, Contents
<1> QED
  BY <1>1, <1>2, <1>3, <1>4
  DEF Next, Writer, Reader, vars, PushBegin, TakeBegin, TakeLoad, CountBegin, CountEnd

\* SingleQueue implements Fifo for every capacity and every interleaving of
\* the two threads: the move of _rearPos is the Put of the value stored just
\* before, the move of _frontPos is the Take of the value read just before,
\* and the other steps of push, front, pop, empty, full and count change
\* nothing that Fifo knows of.
THEOREM SingleQueueIsFifo == Spec => IsFifo
<1>1. Init => Abstract!Init
  BY InvInit DEF Init, Abstract!Init
<1> QED
  BY <1>1, RingStep, InvHolds, PTL DEF Spec, IsFifo, Abstract!Spec
-----------------------------------------------------------------------------
\* What the writer relies on inside the ring's push: refresh() moves the front
\* of the std::queue, which is still there; push(v) goes to the ring only
\* with nothing in the std::queue.
Moving ==
  pc["writer"] \in {"store", "advance"} =>
    IF refreshing
      THEN extend # <<>> /\ held["writer"] = Head(extend)
      ELSE extend = <<>> /\ Len(out) + Len(Ring) < MaxItems

ExtInv == Inv /\ extend \in Seq(Values) /\ refreshing \in BOOLEAN /\ Moving

\* Every step of the extendable queue is a step of its ring, or none.
LEMMA StepOfRing == extend \in Seq(Values) /\ [ExtNext]_extVars => [Next]_vars
<1> SUFFICES ASSUME extend \in Seq(Values), [ExtNext]_extVars PROVE Next \/ UNCHANGED vars
  OBVIOUS
<1>1. ASSUME NEW v \in Values, PushExtend(v) \/ PushRing(v) \/ PushBehind(v)
      PROVE  Next \/ UNCHANGED vars
  BY <1>1 DEF PushExtend, PushRing, PushBehind, Next
<1>2. CASE RefreshCall \/ RefreshEnd
  BY <1>2 DEF RefreshCall, RefreshEnd
<1>3. CASE RefreshMove
  <2>1. Head(extend) \in Values
    BY <1>3 DEF RefreshMove, More
  <2> QED
    BY <1>3, <2>1 DEF RefreshMove, Next
<1>4. CASE RingAdvance \/ PushStore \/ CountEnd("writer") \/ ExtReader
  BY <1>4 DEF RingAdvance, ExtReader, Next, Writer
<1>5. CASE CountBegin("reader") \/ CountBegin("writer")
  BY <1>5 DEF Next, Threads
<1>6. CASE UNCHANGED extVars
  BY <1>6 DEF extVars
<1> QED
  BY <1>1, <1>2, <1>3, <1>4, <1>5, <1>6 DEF ExtNext, ExtWriter

\* The ring's invariant and Moving hold in every state.
LEMMA ExtInvHolds == ExtSpec => []ExtInv
<1>1. ExtInit => ExtInv
  <2> SUFFICES ASSUME ExtInit PROVE ExtInv
    OBVIOUS
  <2>1. Inv /\ extend = <<>> /\ refreshing = FALSE /\ pc["writer"] = "idle"
    BY InvInit DEF ExtInit, Init, Threads
  <2>2. extend \in Seq(Values)
    BY <2>1
  <2> QED
    BY <2>1, <2>2, Zenon DEF ExtInv, Moving
<1>2. ExtInv /\ [ExtNext]_extVars => ExtInv'
  <2> SUFFICES ASSUME ExtInv, [ExtNext]_extVars PROVE ExtInv'
    OBVIOUS
  <2>1. /\ Inv /\ Inv' /\ TypeOK /\ TypeOK'
        /\ extend \in Seq(Values) /\ refreshing \in BOOLEAN /\ Moving
    <3>1. Inv /\ extend \in Seq(Values) /\ refreshing \in BOOLEAN /\ Moving
      BY DEF ExtInv
    <3>2. Inv'
      BY <3>1, StepOfRing, InvStep
    <3> QED
      BY <3>1, <3>2 DEF Inv
  <2>2. ASSUME NEW v \in Values, PushExtend(v) \/ PushBehind(v) PROVE ExtInv'
    <3>1. /\ pc'["writer"] = "idle" /\ extend' = Append(extend, v)
          /\ refreshing' \in BOOLEAN
      BY Zenon, <2>1, <2>2 DEF PushExtend, PushBehind, MayPush, vars
    <3> QED
      BY <2>1, <3>1 DEF ExtInv, Moving
  <2>3. ASSUME NEW v \in Values, PushRing(v) PROVE ExtInv'
    <3>1. Ring' = Ring
      BY <2>3 DEF PushRing, PushBegin, Ring, Contents
    <3>2. extend = <<>> /\ Len(out) + Len(Ring) < MaxItems
      BY <2>1, <2>3, RingBefore DEF PushRing, MayPush, RingHasTurn, Queue
    <3> QED
      BY <2>1, <2>3, <3>1, <3>2 DEF PushRing, PushBegin, MayPush, backlog, ExtInv, Moving
  <2>4. CASE RefreshCall \/ RefreshEnd
    BY Zenon, <2>1, <2>4 DEF RefreshCall, RefreshEnd, vars, ExtInv, Moving
  <2>5. CASE RefreshMove
    BY <2>1, <2>5 DEF RefreshMove, More, PushBegin, backlog, ExtInv, Moving, TypeOK, Threads
  <2>6. CASE RingAdvance
    <3>1. pc'["writer"] = "idle" /\ refreshing' = refreshing
      BY <2>1, <2>6 DEF RingAdvance, PushAdvance, TypeOK, Threads
    <3>2. refreshing => extend # <<>>
      BY <2>1, <2>6 DEF RingAdvance, PushAdvance, Moving
    <3>3. (refreshing /\ extend' = Tail(extend)) \/ extend' = extend
      BY <2>1, <2>6 DEF RingAdvance, DropMoved
    <3>4. extend' \in Seq(Values)
      BY <2>1, <3>2, <3>3
    <3> QED
      BY <2>1, <3>1, <3>4 DEF ExtInv, Moving
  <2>7. CASE PushStore /\ UNCHANGED backlog
    <3>1. Ring' = Ring
      BY <2>1, <2>7, StoreHides
    <3> QED
      BY <2>1, <2>7, <3>1 DEF PushStore, backlog, ExtInv, Moving, TypeOK, Threads
  <2>8. CASE PopAdvance /\ UNCHANGED backlog
    <3>1. Ring # <<>> /\ Ring' = Tail(Ring) /\ Ring \in Seq(Values)
      BY <2>1, <2>8, PopTakes, RingBefore
    <3>2. Len(out') + Len(Ring') = Len(out) + Len(Ring)
      BY <2>1, <2>8, <3>1 DEF PopAdvance, TypeOK, Inv
    <3>3. pc'["writer"] = pc["writer"] /\ held' = held
      BY <2>1, <2>8 DEF PopAdvance, TypeOK, Threads
    <3> QED
      BY <2>1, <2>8, <3>2, <3>3 DEF backlog, ExtInv, Moving
  <2>9. CASE UNCHANGED <<elements, front, rear, out, backlog>> /\ held'["writer"] = held["writer"]
             /\ (pc'["writer"] \in {"store", "advance"} => pc'["writer"] = pc["writer"])
    <3>1. Ring' = Ring
      BY <2>9 DEF Ring, Contents
    <3> QED
      BY Zenon, <2>1, <2>9, <3>1 DEF backlog, ExtInv, Moving
  <2>10. CASE (TakeBegin \/ TakeLoad) /\ UNCHANGED backlog
    BY <2>1, <2>9, <2>10 DEF TakeBegin, TakeLoad, backlog, TypeOK, Threads
  <2>11. ASSUME NEW t \in Threads, CountBegin(t) \/ CountEnd(t), UNCHANGED backlog PROVE ExtInv'
    BY <2>1, <2>9, <2>11 DEF CountBegin, CountEnd, backlog, TypeOK, Threads
  <2>12. CASE UNCHANGED extVars
    BY <2>9, <2>12 DEF extVars, vars, backlog
  <2> QED
    BY <2>2, <2>3, <2>4, <2>5, <2>6, <2>7, <2>8, <2>10, <2>11, <2>12
    DEF ExtNext, ExtWriter, ExtReader, Reader, Threads
<1> QED
  BY <1>1, <1>2, PTL DEF ExtSpec

\* Behind the std::queue too, full() and empty() do not go stale and the slots
\* in use were written, and the ring by itself is still a Fifo.
THEOREM RingInsideKeeps == ExtSpec => []AnswersKeep /\ IsFifo
<1>1. Inv => AnswersKeep
  BY InvGives
<1>2. ExtInit => Abstract!Init
  BY InvInit DEF ExtInit, Init, Abstract!Init
<1>3. ExtInv => Inv /\ extend \in Seq(Values)
  BY DEF ExtInv
<1> QED
  BY <1>1, <1>2, <1>3, StepOfRing, RingStep, ExtInvHolds, PTL DEF ExtSpec, IsFifo, Abstract!Spec

\* The ring with its backlog implements one Fifo, for every capacity: a push
\* to the std::queue or the move of _rearPos for a value that was not in the
\* std::queue is a Put, pop() is a Take, and refresh() changes nothing of it.
THEOREM ExtendableQueueIsFifo == ExtSpec => WholeIsFifo
<1>1. ExtInit => Whole!Init
  BY InvInit DEF ExtInit, Init, Whole!Init, Queue
<1>2. ExtInv /\ ExtInv' /\ [ExtNext]_extVars => [Whole!Next]_<<Queue, out>>
  <2> SUFFICES ASSUME ExtInv, ExtInv', [ExtNext]_extVars
               PROVE  Whole!Next \/ (Queue' = Queue /\ out' = out)
    OBVIOUS
  <2>1. /\ Inv /\ Inv' /\ extend \in Seq(Values) /\ Moving
    BY DEF ExtInv
  <2>s. /\ out \in Seq(Values) /\ Ring \in Seq(Values) /\ extend \in Seq(Values)
        /\ Queue = Ring \o extend /\ Len(out) \in Nat /\ Len(Queue) \in Nat
    <3>1. out \in Seq(Values) /\ extend \in Seq(Values)
      BY <2>1 DEF Inv, TypeOK
    <3>2. Ring \in Seq(Values) /\ Queue = Ring \o extend
      BY <2>1, RingBefore DEF Queue
    <3> QED
      BY <3>1, <3>2
  <2>2. ASSUME NEW v \in Values, PushExtend(v) \/ PushBehind(v) PROVE Whole!Next
    <3>0. /\ Ring' = Ring /\ extend' = Append(extend, v) /\ out' = out
          /\ Len(out) + Len(Queue) < MaxItems
      BY <2>2 DEF PushExtend, PushBehind, MayPush, vars, Ring, Contents
    <3>1. Ring' = Ring /\ extend' = Append(extend, v) /\ out' = out /\ Len(Queue) < MaxItems
      BY <2>s, <3>0
    <3>2. Queue' = Append(Queue, v)
      BY <2>s, <3>1 DEF Queue
    <3> QED
      BY <3>1, <3>2 DEF Whole!Next, Whole!Put
  <2>3. CASE RingAdvance
    <3>1. /\ held["writer"] \in Values /\ Ring' = Append(Ring, held["writer"]) /\ out' = out
      BY <2>1, <2>3, AdvancePuts DEF RingAdvance, PushAdvance
    <3>2. CASE refreshing
      <4>1. extend # <<>> /\ held["writer"] = Head(extend) /\ extend' = Tail(extend)
        BY <2>1, <2>3, <3>2 DEF RingAdvance, PushAdvance, DropMoved, Moving
      <4>2. Queue' = Queue
        BY <2>s, <3>1, <4>1 DEF Queue
      <4> QED
        BY <3>1, <4>2
    <3>3. CASE ~refreshing
      <4>1. extend = <<>> /\ extend' = <<>> /\ Len(out) + Len(Ring) < MaxItems
        BY <2>1, <2>3, <3>3 DEF RingAdvance, PushAdvance, DropMoved, Moving
      <4>2. Queue = Ring /\ Queue' = Append(Queue, held["writer"]) /\ Len(Queue) < MaxItems
        <5>1. Queue = Ring /\ Queue' = Ring'
          BY <2>s, <3>1, <4>1 DEF Queue
        <5> QED
          BY <2>s, <3>1, <4>1, <5>1
      <4> QED
        BY <3>1, <4>2 DEF Whole!Next, Whole!Put
    <3> QED
      BY <3>2, <3>3
  <2>4. CASE PopAdvance /\ UNCHANGED backlog
    <3>1. Ring # <<>> /\ Head(Ring) = held["reader"] /\ Ring' = Tail(Ring)
      BY <2>1, <2>4, PopTakes
    <3>2. Queue # <<>> /\ Head(Queue) = held["reader"] /\ Queue' = Tail(Queue)
      BY <2>s, <2>4, <3>1 DEF backlog, Queue
    <3> QED
      BY <2>4, <3>2 DEF PopAdvance, Whole!Next, Whole!Take
  <2>5. CASE PushStore /\ UNCHANGED backlog
    BY <2>1, <2>5, StoreHides DEF PushStore, backlog, Queue
  <2>6. CASE UNCHANGED <<elements, front, rear, out, extend>>
    BY <2>6 DEF Queue, Ring, Contents
  <2> QED
    BY <2>2, <2>3, <2>4, <2>5, <2>6
    DEF ExtNext, ExtWriter, ExtReader, Reader, extVars, vars, backlog, PushRing, PushBegin, RefreshCall,
        RefreshMove, RefreshEnd, TakeBegin, TakeLoad, CountBegin, CountEnd
<1> QED
  BY <1>1, <1>2, ExtInvHolds, PTL DEF ExtSpec, WholeIsFifo, Whole!Spec
=============================================================================
