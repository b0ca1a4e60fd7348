--------------------------- MODULE SessionService ---------------------------
(***************************************************************************)
(* SessionServiceImpl (dubbo-session-redis): sessions in Redis under their *)
(* id, and under device group and user the id of the session added last.   *)
(* Callers are threads of the service, on one node or several; each        *)
(* command to Redis is a step and may throw, which ends the call.          *)
(***************************************************************************)
EXTENDS Naturals, FiniteSets

CONSTANTS
  Callers,   \* threads of the service
  Sessions,  \* the sessions, by id
  UserOf, DevOf,
  AppList,   \* APP_LIST: device types that share one group
  MaxCalls,  \* bound on the calls
  NoSession

ASSUME SessionAssumption ==
  /\ NoSession \notin Sessions
  /\ DOMAIN UserOf = Sessions /\ DOMAIN DevOf = Sessions
  /\ "APP" \notin AppList /\ \A s \in Sessions : DevOf[s] # "APP"
  /\ MaxCalls \in Nat

\* getUserSessionIdKey
KeyByDevice(s) == <<DevOf[s], UserOf[s]>>
KeyOf(s) == <<IF DevOf[s] \in AppList THEN "APP" ELSE DevOf[s], UserOf[s]>>

Keys == {KeyOf(s) : s \in Sessions} \cup {KeyByDevice(s) : s \in Sessions}

Idle  == [op |-> "none"]
Calls == {Idle}
  \cup [op : {"add"}, s : Sessions, step : {"store", "index"}]
  \cup [op : {"get"}, s : Sessions, step : {"hasKey", "value"}]
  \cup [op : {"lookup"}, s : Sessions, step : {"hasKey", "value"}]
  \cup [op : {"remove"}, s : Sessions,
        step : {"hasKey", "value", "hasStore", "delStore", "hasIndex", "delIndex"}]

\* What a call answered: null, a SessionIdDTO or UnifiedSession, and in it an id
\* that may be null.
Answers == {NoSession} \cup [asked : Sessions, id : Sessions \cup {NoSession}]

VARIABLES
  store,   \* the ids under which Redis has a session
  index,   \* user and device group -> session id
  call,    \* the call each caller is in
  answer,  \* what its last getSession answered
  done,    \* calls begun
  alone    \* so far one call ended before the next began, and none threw

sessionVars == <<store, index, call, answer, done, alone>>

SessionTypeOK ==
  /\ store \in SUBSET Sessions
  /\ index \in [Keys -> Sessions \cup {NoSession}]
  /\ call \in [Callers -> Calls]
  /\ answer \in [Callers -> Answers]
  /\ done \in 0..MaxCalls /\ alone \in BOOLEAN

SessionInit ==
  /\ store = {}
  /\ index = [k \in Keys |-> NoSession]
  /\ call = [c \in Callers |-> Idle]
  /\ answer = [c \in Callers |-> NoSession]
  /\ done = 0 /\ alone = TRUE
-----------------------------------------------------------------------------
Quiet == \A c \in Callers : call[c] = Idle

FirstStep(op) == IF op = "add" THEN "store" ELSE "hasKey"

Begin(c, op, s) ==
  /\ call[c] = Idle /\ done < MaxCalls
  /\ done' = done + 1
  /\ call' = [call EXCEPT ![c] = [op |-> op, s |-> s, step |-> FirstStep(op)]]
  /\ answer' = [answer EXCEPT ![c] = NoSession]
  /\ alone' = (alone /\ Quiet)
  /\ UNCHANGED <<store, index>>

InStep(c, op, step) == call[c] # Idle /\ call[c].op = op /\ call[c].step = step
GoesTo(c, step) == call' = [call EXCEPT ![c].step = step]
Returns(c) == call' = [call EXCEPT ![c] = Idle]

\* addSession
AddStore(c) ==
  /\ InStep(c, "add", "store")
  /\ store' = store \cup {call[c].s}
  /\ GoesTo(c, "index")
  /\ UNCHANGED <<index, answer, done, alone>>

AddIndex(c) ==
  /\ InStep(c, "add", "index")
  /\ index' = [index EXCEPT ![KeyOf(call[c].s)] = call[c].s]
  /\ Returns(c)
  /\ UNCHANGED <<store, answer, done, alone>>

\* getSession(sessionId): hasKey, then get, which may find the key gone.
GetHasKey(c) ==
  /\ InStep(c, "get", "hasKey")
  /\ IF call[c].s \in store THEN GoesTo(c, "value") ELSE Returns(c)
  /\ UNCHANGED <<store, index, answer, done, alone>>

GetValue(c) ==
  /\ InStep(c, "get", "value")
  /\ answer' = [answer EXCEPT ![c] =
       IF call[c].s \in store THEN [asked |-> call[c].s, id |-> call[c].s] ELSE NoSession]
  /\ Returns(c)
  /\ UNCHANGED <<store, index, done, alone>>

\* getSession(devType, userId), for the device and user of call[c].s: the
\* SessionIdDTO is made of whatever get returned.
LookupHasKey(c) ==
  /\ InStep(c, "lookup", "hasKey")
  /\ IF index[KeyOf(call[c].s)] # NoSession THEN GoesTo(c, "value") ELSE Returns(c)
  /\ UNCHANGED <<store, index, answer, done, alone>>

LookupValue(c) ==
  /\ InStep(c, "lookup", "value")
  /\ answer' = [answer EXCEPT ![c] = [asked |-> call[c].s, id |-> index[KeyOf(call[c].s)]]]
  /\ Returns(c)
  /\ UNCHANGED <<store, index, done, alone>>

\* removeSession: getSession, then hasKey and delete for the session ...
RemoveHasKey(c) ==
  /\ InStep(c, "remove", "hasKey")
  /\ IF call[c].s \in store THEN GoesTo(c, "value") ELSE Returns(c)
  /\ UNCHANGED <<store, index, answer, done, alone>>

RemoveValue(c) ==
  /\ InStep(c, "remove", "value")
  /\ IF call[c].s \in store THEN GoesTo(c, "hasStore") ELSE Returns(c)
  /\ UNCHANGED <<store, index, answer, done, alone>>

RemoveHasStore(c) ==
  /\ InStep(c, "remove", "hasStore")
  /\ GoesTo(c, IF call[c].s \in store THEN "delStore" ELSE "hasIndex")
  /\ UNCHANGED <<store, index, answer, done, alone>>

RemoveDelStore(c) ==
  /\ InStep(c, "remove", "delStore")
  /\ store' = store \ {call[c].s}
  /\ GoesTo(c, "hasIndex")
  /\ UNCHANGED <<index, answer, done, alone>>

\* ... and for its user and device, whatever session is there.
RemoveHasIndex(c) ==
  /\ InStep(c, "remove", "hasIndex")
  /\ IF index[KeyOf(call[c].s)] # NoSession THEN GoesTo(c, "delIndex") ELSE Returns(c)
  /\ UNCHANGED <<store, index, answer, done, alone>>

IndexCleared(c) == index' = [index EXCEPT ![KeyOf(call[c].s)] = NoSession]

RemoveDelIndex(c) ==
  /\ InStep(c, "remove", "delIndex")
  /\ IndexCleared(c)
  /\ Returns(c)
  /\ UNCHANGED <<store, answer, done, alone>>

\* A command throws: the exception is logged and the call returns (null).
Fails(c) ==
  /\ call[c] # Idle
  /\ alone' = FALSE
  /\ Returns(c)
  /\ UNCHANGED <<store, index, answer, done>>

SessionNext ==
  \E c \in Callers :
    \/ \E op \in {"add", "get", "lookup", "remove"}, s \in Sessions : Begin(c, op, s)
    \/ AddStore(c) \/ AddIndex(c)
    \/ GetHasKey(c) \/ GetValue(c)
    \/ LookupHasKey(c) \/ LookupValue(c)
    \/ RemoveHasKey(c) \/ RemoveValue(c) \/ RemoveHasStore(c) \/ RemoveDelStore(c)
    \/ RemoveHasIndex(c) \/ RemoveDelIndex(c)
    \/ Fails(c)

SessionSpec == SessionInit /\ [][SessionNext]_sessionVars
-----------------------------------------------------------------------------
\* The variables have their types.
\* Android and iOS are one place to be logged in: whatever the callers do and
\* whichever commands fail, a user has one session per device group in the
\* index, and a lookup answers with a session of the user and group asked for.
\* As long as calls do not overlap and no command fails, the index names only
\* sessions that are there, and a lookup that finds something finds an id.  (An
\* addSession and a removeSession of one session at the same time, or one that
\* fails half way, leave an entry behind; a removeSession between the hasKey and
\* the get of a lookup makes it answer with a null id.)
OneGroup ==
  /\ SessionTypeOK
  /\ \A k \in Keys : index[k] # NoSession => KeyOf(index[k]) = k /\ k[1] \notin AppList
  /\ \A c \in Callers : answer[c] # NoSession /\ answer[c].id # NoSession =>
       LET a == answer[c].asked
           b == answer[c].id
       IN UserOf[a] = UserOf[b] /\ (DevOf[a] = DevOf[b] \/ {DevOf[a], DevOf[b]} \subseteq AppList)
  /\ alone =>
       /\ Quiet => \A k \in Keys : index[k] # NoSession => index[k] \in store
       /\ \A c \in Callers : answer[c] # NoSession => answer[c].id # NoSession
=============================================================================
