----------------------------- MODULE EcTcpServer -----------------------------
(***************************************************************************)
(* ec::TcpServer with its TcpServerDispatchers and TcpSessions             *)
(* (libeventc++11).  The master loop of a server accepts connections,      *)
(* numbers them with a counter all servers of the process share, and posts *)
(* them to the dispatcher id % n, a loop of its own, which makes the       *)
(* session, keeps it in a map by id, and removes it when the connection    *)
(* ends.  Descriptors are the kernel's: the smallest free one is given to  *)
(* each new connection.  A session is a TcpSocket (EcTcpSocket) that the   *)
(* application sends through and closes in its callbacks and, if it keeps  *)
(* what getSession returned, on other threads.                             *)
(***************************************************************************)
EXTENDS EcTcpSocket, Sequences, FiniteSets, FiniteSetsExt

CONSTANTS
  Servers,   \* the TcpServers of the process
  Slavers,   \* dispatchers besides the master, per server
  Fds,       \* descriptors the process may have open
  MaxConns,  \* bound on the connections accepted
  Talkers,   \* connections on whose sessions the application calls send and close
  MaxUses,   \* bound on the calls other threads make on sessions they keep
  None

ASSUME ServerAssumption ==
  /\ Fds \subseteq Nat /\ IsFiniteSet(Fds)
  /\ Slavers \in Nat /\ MaxConns \in Nat /\ MaxUses \in Nat /\ Talkers \subseteq Socks
  /\ Socks = 1..MaxConns
  /\ None \notin 0..MaxConns /\ None \notin Fds /\ None \notin Servers

Conns  == 1..MaxConns
Places == 0..(IF Slavers = 0 THEN 0 ELSE Slavers - 1)
Dispatchers == Servers \X Places

\* "accepted": listenEventCallback is numbering it; "posted": in the posts of
\* its dispatcher; "live": a session; "closed": handleEvent has closed the
\* descriptor and is in onSessionDisconnected; "removed"; "failed": attach failed.
Stages == {"none", "accepted", "posted", "live", "closed", "removed", "failed"}

VARIABLES
  stage, server, fd, id,  \* per connection
  owner,                  \* the connection that has a descriptor open
  generator,              \* s_sessionIdGenerator
  seen,                   \* the generator as the master of a server has read it
  posts,                  \* the posts of each dispatcher
  sessions,               \* _sessions: the pairs <<id, connection>>
  held,                   \* sessions other threads have a TcpSessionPtr to
  uses,                   \* calls they made on them
  shutBy                  \* shutBy[c]: the sessions whose close shut down c

srvVars == <<stage, server, fd, id, owner, generator, seen, posts, sessions, held>>
vars == <<srvVars, uses, shutBy, sockVars>>

TypeOK ==
  /\ SockTypeOK
  /\ stage \in [Conns -> Stages]
  /\ server \in [Conns -> Servers \cup {None}]
  /\ fd \in [Conns -> Fds \cup {None}]
  /\ id \in [Conns -> 0..MaxConns]
  /\ owner \in [Fds -> Conns \cup {None}]
  /\ generator \in 0..MaxConns
  /\ seen \in [Servers -> 0..MaxConns \cup {None}]
  /\ posts \in [Dispatchers -> Seq(Conns)]
  /\ sessions \in [Dispatchers -> SUBSET ((1..MaxConns) \X Conns)]
  /\ held \in SUBSET Conns /\ uses \in 0..MaxUses
  /\ shutBy \in [Conns -> SUBSET Conns]

Init ==
  /\ SockInit
  /\ stage = [c \in Conns |-> "none"]
  /\ server = [c \in Conns |-> None]
  /\ fd = [c \in Conns |-> None]
  /\ id = [c \in Conns |-> 0]
  /\ owner = [f \in Fds |-> None]
  /\ generator = 0
  /\ seen = [s \in Servers |-> None]
  /\ posts = [d \in Dispatchers |-> <<>>]
  /\ sessions = [d \in Dispatchers |-> {}]
  /\ held = {} /\ uses = 0
  /\ shutBy = [c \in Conns |-> {}]
-----------------------------------------------------------------------------
FreeFds == {f \in Fds : owner[f] = None}

\* getSessionDispatcher
SessionDispatcher(s, n) == <<s, IF Slavers = 0 THEN 0 ELSE n % Slavers>>

DispatcherOf(c) == SessionDispatcher(server[c], id[c])

\* A connection arrives: the kernel gives it the smallest free descriptor, and
\* listenEventCallback reads the generator.
Accept(s) ==
  /\ seen[s] = None
  /\ FreeFds # {}
  /\ \E c \in Conns :
       /\ stage[c] = "none" /\ \A b \in 1..(c - 1) : stage[b] # "none"
       /\ stage' = [stage EXCEPT ![c] = "accepted"]
       /\ server' = [server EXCEPT ![c] = s]
       /\ fd' = [fd EXCEPT ![c] = Min(FreeFds)]
       /\ owner' = [owner EXCEPT ![Min(FreeFds)] = c]
  /\ seen' = [seen EXCEPT ![s] = generator]
  /\ UNCHANGED <<id, generator, posts, sessions, held, uses, shutBy, sockVars>>

\* ... stores the number after it, and posts the connection.
NextId(s) == seen[s] + 1

PostOver(d, c) == posts' = [posts EXCEPT ![d] = <<c>>]
Post(d, c) == posts' = [posts EXCEPT ![d] = Append(@, c)]

Dispatch(s) ==
  /\ seen[s] # None
  /\ LET n == NextId(s)
         d == SessionDispatcher(s, n)
     IN \E c \in Conns :
          /\ stage[c] = "accepted" /\ server[c] = s
          /\ generator' = n
          /\ id' = [id EXCEPT ![c] = n]
          /\ Post(d, c)
          /\ stage' = [stage EXCEPT ![c] = "posted"]
  /\ seen' = [seen EXCEPT ![s] = None]
  /\ UNCHANGED <<server, fd, owner, sessions, held, uses, shutBy, sockVars>>

\* addSession: what the map had under the id is replaced.
AddSession(d, c) ==
  sessions' = [sessions EXCEPT ![d] = {p \in @ : p[1] # id[c]} \cup {<<id[c], c>>}]

\* onPost: attach, addSession, onNewSession; or attach fails.
OnPost(d) ==
  /\ posts[d] # <<>>
  /\ LET c == Head(posts[d]) IN
       \/ /\ stage' = [stage EXCEPT ![c] = "live"]
          /\ AddSession(d, c)
       \/ /\ stage' = [stage EXCEPT ![c] = "failed"]
          /\ UNCHANGED sessions
  /\ posts' = [posts EXCEPT ![d] = Tail(@)]
  /\ UNCHANGED <<server, fd, id, owner, generator, seen, held, uses, shutBy, sockVars>>

\* handleEvent: writing is disabled, the descriptor is closed, and
\* onSessionDisconnected is called.
CloseFdNot(c) == UNCHANGED owner
CloseFd(c) == owner' = [owner EXCEPT ![fd[c]] = None]

HandleEvent(c) ==
  /\ stage[c] = "live"
  /\ stage' = [stage EXCEPT ![c] = "closed"]
  /\ CloseFd(c)
  /\ SockDisable(c)
  /\ UNCHANGED <<server, fd, id, generator, seen, posts, sessions, held, uses, shutBy>>

\* removeSession: the session is destroyed, unless another thread keeps it.
Erase(c) ==
  sessions' = [sessions EXCEPT ![DispatcherOf(c)] = {p \in @ : p[1] # id[c]}]

RemoveSession(c) ==
  /\ stage[c] = "closed"
  /\ stage' = [stage EXCEPT ![c] = "removed"]
  /\ Erase(c)
  /\ IF c \in held THEN UNCHANGED sockVars ELSE SockDestroy(c)
  /\ UNCHANGED <<server, fd, id, owner, generator, seen, posts, held, uses, shutBy>>
-----------------------------------------------------------------------------
\* closeImpl's shutdown(getSocket(), 2) hits whoever has the descriptor now.
Shutdown(c) ==
  shutBy' = IF owner[fd[c]] = None THEN shutBy
            ELSE [shutBy EXCEPT ![owner[fd[c]]] = @ \cup {c}]

\* The application in onNewSession or onSessionRead, on the dispatcher's thread
SendOnRead(c) ==
  /\ stage[c] = "live" /\ c \in Talkers
  /\ Send(c)
  /\ UNCHANGED <<srvVars, uses, shutBy>>

CloseOnRead(c, pending) ==
  /\ stage[c] = "live" /\ c \in Talkers
  /\ Close(c, pending)
  /\ IF Waits(c, pending) THEN UNCHANGED shutBy ELSE Shutdown(c)
  /\ UNCHANGED <<srvVars, uses>>

\* What libevent does for a session; a connection that was shut down takes no
\* more data.
DrainSession(c) ==
  /\ stage[c] = "live" /\ shutBy[c] = {}
  /\ Drain(c)
  /\ UNCHANGED <<srvVars, uses, shutBy>>

SessionWriteCallback(c) ==
  /\ stage[c] = "live"
  /\ WriteCallback(c)
  /\ IF CloseNow(c) THEN Shutdown(c) ELSE UNCHANGED shutBy
  /\ UNCHANGED <<srvVars, uses>>

\* getSession on another thread, which keeps what it returned: the TcpSession
\* and its bufferevent live on, whatever becomes of the connection.
GetSession(d, n) ==
  /\ \E c \in Conns :
       /\ <<n, c>> \in sessions[d] /\ c \notin held
       /\ held' = held \cup {c}
  /\ UNCHANGED <<stage, server, fd, id, owner, generator, seen, posts, sessions,
                 uses, shutBy, sockVars>>

\* send and close through it
HeldBegins(c) ==
  /\ c \in held \cap Talkers /\ uses < MaxUses
  /\ uses' = uses + 1
  /\ SendBegin(c) \/ \E pending \in BOOLEAN : CloseBegin(c, pending)
  /\ UNCHANGED <<srvVars, shutBy>>

HeldEnds(c) ==
  /\ \/ (SendEnd(c) \/ CloseMark(c)) /\ UNCHANGED shutBy
     \/ CloseEnd(c) /\ Shutdown(c)
  /\ UNCHANGED <<srvVars, uses>>

Next ==
  \/ \E s \in Servers : Accept(s) \/ Dispatch(s)
  \/ \E d \in Dispatchers : OnPost(d)
  \/ \E c \in Conns :
       \/ HandleEvent(c) \/ RemoveSession(c)
       \/ SendOnRead(c) \/ \E pending \in BOOLEAN : CloseOnRead(c, pending)
       \/ DrainSession(c) \/ SessionWriteCallback(c)
       \/ HeldBegins(c) \/ HeldEnds(c)
  \/ \E d \in Dispatchers, n \in 1..MaxConns : GetSession(d, n)

\* The loops run, calls return, peers read what they are sent, and a connection
\* that was shut down ends.
Fairness ==
  /\ \A s \in Servers : WF_vars(Dispatch(s))
  /\ \A d \in Dispatchers : WF_vars(OnPost(d))
  /\ \A c \in Conns :
       /\ WF_vars(RemoveSession(c)) /\ WF_vars(shutBy[c] # {} /\ HandleEvent(c))
       /\ WF_vars(DrainSession(c)) /\ WF_vars(SessionWriteCallback(c)) /\ WF_vars(HeldEnds(c))

Spec == Init /\ [][Next]_vars /\ Fairness
-----------------------------------------------------------------------------
\* The variables have their types.
\* The descriptor of a connection that is accepted, queued or a session is open
\* and its own, and every open descriptor belongs to such a connection or to
\* one whose attach failed.  getSession finds a session, under its id and in the
\* dispatcher it was given to, from onNewSession until onSessionDisconnected
\* returns, and none other: ids are unique in the process.
FdCustody ==
  /\ TypeOK
  /\ \A c \in Conns : stage[c] \in {"accepted", "posted", "live"} => owner[fd[c]] = c
  /\ \A f \in Fds : owner[f] # None =>
       stage[owner[f]] \in {"accepted", "posted", "live", "failed"}
  /\ \A d \in Dispatchers, n \in 1..MaxConns, c \in Conns :
       <<n, c>> \in sessions[d] <=>
         stage[c] \in {"live", "closed"} /\ id[c] = n /\ DispatcherOf(c) = d
  /\ \A b, c \in Conns : b # c /\ id[b] # 0 /\ id[c] # 0 => id[b] # id[c]

\* An accepted connection reaches a dispatcher.  close closes: a session that
\* close was called on, by its dispatcher or by any thread, with or without
\* waiting for its output, ends and is removed; unless another thread's
\* close(true) found output, and set _isClosing when the last
\* write callback had already run.
Served ==
  \A c \in Conns :
    /\ stage[c] \in {"accepted", "posted"} ~> stage[c] \in {"live", "closed", "removed", "failed"}
    /\ (stage[c] = "live" /\ (sock[c].promised # -1 \/ sock[c].forced))
         ~> (stage[c] = "removed" \/ sock[c].missed)
=============================================================================
