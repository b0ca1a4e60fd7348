-------------------------- MODULE EventMulticaster --------------------------
(***************************************************************************)
(* SimpleNiiwooEventMulticaster and AbstractNiiwooEventMulticaster         *)
(* (dubbo-event): a caster keeps a set of listeners; multicastEvent hands  *)
(* an event to those that support its class, in the order of getOrder(),   *)
(* inline or through an executor.  The list for a class is kept in a map   *)
(* that is static, so one for all casters.  Each call is made by a thread  *)
(* of its own; nothing is synchronised.                                    *)
(***************************************************************************)
EXTENDS Naturals, Sequences, FiniteSets, SequencesExt

CONSTANTS
  Casters, Listeners, Events,
  Calls,       \* the calls of multicastEvent
  Supports,    \* Supports[l]: the classes of events listener l takes
  OrderOf,     \* getOrder()
  None

ASSUME EventAssumption ==
  /\ Supports \in [Listeners -> SUBSET Events]
  /\ OrderOf \in [Listeners -> Nat]

VARIABLES
  pooled,     \* the casters that were given an executor
  listeners,  \* niiwooEventListeners of each caster
  cache,      \* cachedNiiwooEventListeners
  call,       \* where a call is, for which caster and event, and what it holds
  tasks,      \* what executors have still to run: a call and a listener
  got,        \* the listeners a call's event reached, in order
  due, may,   \* registered all the time a call went on; at some time of it
  late        \* a listener came or went after the first multicast had begun

vars == <<pooled, listeners, cache, call, tasks, got, due, may, late>>

Steps == {"new", "build", "get", "deliver", "done", "failed"}
Active(c) == call[c].step \in {"build", "get", "deliver"}

TypeOK ==
  /\ pooled \subseteq Casters /\ late \in BOOLEAN
  /\ listeners \in [Casters -> SUBSET Listeners]
  /\ \A e \in Events : cache[e] # None => cache[e] \in Seq(Listeners)
  /\ \A c \in Calls : /\ call[c].step \in Steps
                      /\ call[c].seen \subseteq Listeners
                      /\ call[c].todo \in Seq(Listeners)
                      /\ got[c] \in Seq(Listeners)
                      /\ due[c] \subseteq may[c] /\ may[c] \subseteq Listeners
  /\ tasks \subseteq Calls \X Listeners

New == [step |-> "new", m |-> None, e |-> None, seen |-> {}, todo |-> <<>>]

Init ==
  /\ pooled \in SUBSET Casters /\ late = FALSE
  /\ listeners \in [Casters -> SUBSET Listeners]
  /\ cache = [e \in Events |-> None]
  /\ call = [c \in Calls |-> New]
  /\ tasks = {}
  /\ got = [c \in Calls |-> <<>>]
  /\ due = [c \in Calls |-> {}]
  /\ may = [c \in Calls |-> {}]
-----------------------------------------------------------------------------
Concerns(c, m, l) == Active(c) /\ call[c].m = m /\ call[c].e \in Supports[l]

Changing ==
  /\ late' = (late \/ \E c \in Calls : call[c] # New)
  /\ UNCHANGED <<pooled, cache, call, tasks, got>>

\* addNiiwooListener
AddListener(m, l) ==
  /\ l \notin listeners[m]
  /\ listeners' = [listeners EXCEPT ![m] = @ \cup {l}]
  /\ may' = [c \in Calls |-> IF Concerns(c, m, l) THEN may[c] \cup {l} ELSE may[c]]
  /\ Changing /\ UNCHANGED due

\* removeNiiwooListener (L = {l}) and removeAllNiiwooListeners
RemoveListeners(m, L) ==
  /\ L # {}
  /\ listeners' = [listeners EXCEPT ![m] = @ \ L]
  /\ due' = [c \in Calls |-> IF Active(c) /\ call[c].m = m THEN due[c] \ L ELSE due[c]]
  /\ Changing /\ UNCHANGED may

FirstStep(e) == IF cache[e] = None THEN "build" ELSE "get"

\* multicastEvent, up to containsKey and the start of the loop over the set.
Begin(c, m, e) ==
  LET supporting == {l \in listeners[m] : e \in Supports[l]}
  IN /\ call[c].step = "new"
     /\ call' = [call EXCEPT ![c] =
          [step |-> FirstStep(e),
           m |-> m, e |-> e, seen |-> listeners[m], todo |-> <<>>]]
     /\ due' = [due EXCEPT ![c] = supporting]
     /\ may' = [may EXCEPT ![c] = supporting]
     /\ UNCHANGED <<pooled, late, listeners, cache, tasks, got>>

\* The set of listeners changed under the iterator: it throws, or the loop
\* ends with some of what came and went.
Changed(c) == listeners[call[c].m] # call[c].seen
Iterated(c) ==
  LET now == listeners[call[c].m]
  IN {S \in SUBSET (call[c].seen \cup now) : call[c].seen \cap now \subseteq S}

\* sortNiiwooEventListener: the set's order where getOrder() does not tell.
Unsorted(S) == SetToSeqs(S)
Sorted(S) ==
  {q \in SetToSeqs(S) : \A i, j \in 1..Len(q) : i < j => OrderOf[q[i]] <= OrderOf[q[j]]}

\* supportsEvent
Supporting(S, e) == {l \in S : e \in Supports[l]}

\* The rest of the loop, the sort and put.
Build(c) ==
  /\ call[c].step = "build"
  /\ \E S \in Iterated(c) : \E q \in Sorted(Supporting(S, call[c].e)) :
       cache' = [cache EXCEPT ![call[c].e] = q]
  /\ call' = [call EXCEPT ![c].step = "get"]
  /\ UNCHANGED <<pooled, late, listeners, tasks, got, due, may>>

BuildThrows(c) ==
  /\ call[c].step = "build" /\ Changed(c)
  /\ call' = [call EXCEPT ![c].step = "failed"]
  /\ UNCHANGED <<pooled, late, listeners, cache, tasks, got, due, may>>

\* get, and the loop over the list it returned.
Get(c) ==
  /\ call[c].step = "get"
  /\ call' = [call EXCEPT ![c].step = "deliver", ![c].todo = cache[call[c].e]]
  /\ UNCHANGED <<pooled, late, listeners, cache, tasks, got, due, may>>

Inline(c)  == call[c].m \notin pooled
Skip(c) == call' = [call EXCEPT ![c].todo = IF Len(@) > 1 THEN Tail(Tail(@)) ELSE <<>>]
Advance(c) == call' = [call EXCEPT ![c].todo = Tail(@)]

Deliver(c) ==
  /\ call[c].step = "deliver" /\ call[c].todo # <<>>
  /\ IF Inline(c)
     THEN got' = [got EXCEPT ![c] = Append(@, Head(call[c].todo))] /\ UNCHANGED tasks
     ELSE tasks' = tasks \cup {<<c, Head(call[c].todo)>>} /\ UNCHANGED got
  /\ Advance(c)
  /\ UNCHANGED <<pooled, late, listeners, cache, due, may>>

\* onNiwooEvent or execute throws: multicastEvent logs it and leaves the loop.
DeliverThrows(c) ==
  /\ call[c].step = "deliver" /\ call[c].todo # <<>>
  /\ IF Inline(c) THEN got' = [got EXCEPT ![c] = Append(@, Head(call[c].todo))]
                  ELSE UNCHANGED got
  /\ call' = [call EXCEPT ![c].step = "failed"]
  /\ UNCHANGED <<pooled, late, listeners, cache, tasks, due, may>>

Return(c) ==
  /\ call[c].step = "deliver" /\ call[c].todo = <<>>
  /\ call' = [call EXCEPT ![c].step = "done"]
  /\ UNCHANGED <<pooled, late, listeners, cache, tasks, got, due, may>>

\* A thread of the executor runs a task: run() of multicastEvent's Runnable.
RunTask(c, l) ==
  /\ <<c, l>> \in tasks
  /\ tasks' = tasks \ {<<c, l>>}
  /\ got' = [got EXCEPT ![c] = Append(@, l)]
  /\ UNCHANGED <<pooled, late, listeners, cache, call, due, may>>

Step(c) == \/ Build(c) \/ BuildThrows(c) \/ Get(c) \/ Deliver(c) \/ DeliverThrows(c)
           \/ Return(c)

Next ==
  \/ \E m \in Casters, l \in Listeners : AddListener(m, l) \/ RemoveListeners(m, {l} \cap listeners[m])
  \/ \E m \in Casters : RemoveListeners(m, listeners[m])
  \/ \E c \in Calls, m \in Casters, e \in Events : Begin(c, m, e)
  \/ \E c \in Calls : Step(c)
  \/ \E c \in Calls, l \in Listeners : RunTask(c, l)

Spec == Init /\ [][Next]_vars

\* Threads that are in multicastEvent, and those of the executor, go on.
FairSpec ==
  /\ Spec
  /\ \A c \in Calls : WF_vars(Step(c))
  /\ \A c \in Calls : WF_vars(\E l \in Listeners : RunTask(c, l))
-----------------------------------------------------------------------------
Reached(c) == ToSet(got[c]) \cup {l \in Listeners : <<c, l>> \in tasks}

\* The variables have their types.
\* However many threads find the list missing and build it, an event given
\* inline reaches its listeners in the order of getOrder(), each at most once.
\* Up to the first change of the listeners after an event was multicast, a call
\* that returns normally has handed its event to every listener that was
\* registered with the caster and supports the event, and to no other.  (After
\* such a change the cached list is stale.)
Delivered ==
  /\ TypeOK
  /\ \A c \in Calls : Active(c) /\ Inline(c) =>
       \A i, j \in 1..Len(got[c]) :
         i < j => got[c][i] # got[c][j] /\ OrderOf[got[c][i]] <= OrderOf[got[c][j]]
  /\ \A c \in Calls : call[c].step = "done" /\ ~late =>
       due[c] \subseteq Reached(c) /\ Reached(c) \subseteq may[c]

\* Under the same condition a multicast that began reaches its listeners in the
\* end, unless a listener, an executor or the iterator threw.
Served ==
  \A c \in Calls :
    (call[c].step # "new") ~> (late \/ call[c].step = "failed" \/ due[c] = ToSet(got[c]))
=============================================================================
