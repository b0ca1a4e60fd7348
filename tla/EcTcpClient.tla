----------------------------- MODULE EcTcpClient -----------------------------
(***************************************************************************)
(* ec::TcpClient (libeventc++11), a TcpSocket (EcTcpSocket) that connects: *)
(* the events of its bufferevent, sending, closing and reconnecting, for   *)
(* several clients of one process, each on the thread of its loop.         *)
(* Descriptors are the kernel's: a closed one is given to the next         *)
(* connect.  errno is the thread's: it keeps the last failure of any call  *)
(* made on it.                                                             *)
(***************************************************************************)
EXTENDS EcTcpSocket, FiniteSets, FiniteSetsExt

CONSTANTS
  LoopOf,      \* the loop of each client: on one loop there is one callback at a time
  Fds,         \* descriptors the process may have open
  MaxConnects  \* bound on the connections of all clients

ASSUME ClientAssumption ==
  /\ Fds \subseteq Nat /\ IsFiniteSet(Fds)
  /\ MaxConnects \in Nat
  /\ "none" \notin Socks

Clients == Socks
NoFd    == -1
NoOne   == "none"

VARIABLES
  bev,          \* _bev: "none" (NULL), "connecting", "up", "ending"
  isConnected,  \* _isConnected
  fd,           \* the descriptor of the bufferevent
  errno,        \* errno of the thread of each loop
  owner,        \* the client that opened each open descriptor
  attempts,     \* connects that returned true
  connected,    \* calls of onConnected(0)
  refused,      \* calls of onConnected(error)
  disconnected, \* calls of onDisconnected
  kept,         \* the connection began with _isClosing set by an earlier one
  crossed       \* a client connected inside onDisconnected of another

connVars == <<bev, isConnected, fd, errno, owner, attempts, connected, refused, disconnected, kept, crossed>>
clientVars == <<connVars, sockVars>>

Loops == {LoopOf[c] : c \in Clients}

Count == [Clients -> Nat]

ClientTypeOK ==
  /\ SockTypeOK
  /\ bev \in [Clients -> {"none", "connecting", "up", "ending"}]
  /\ isConnected \in [Clients -> BOOLEAN]
  /\ fd \in [Clients -> Fds \cup {NoFd}]
  /\ errno \in [Loops -> {"0", "EINPROGRESS", "ECONNREFUSED", "ETIMEDOUT"}]
  /\ owner \in [Fds -> Clients \cup {NoOne}]
  /\ attempts \in Count /\ connected \in Count
  /\ refused \in Count /\ disconnected \in Count
  /\ kept \in [Clients -> BOOLEAN] /\ crossed \in BOOLEAN

ClientInit ==
  /\ SockInit
  /\ bev = [c \in Clients |-> "none"]
  /\ isConnected = [c \in Clients |-> FALSE]
  /\ fd = [c \in Clients |-> NoFd]
  /\ errno = [l \in Loops |-> "0"]
  /\ owner = [f \in Fds |-> NoOne]
  /\ attempts = [c \in Clients |-> 0] /\ connected = [c \in Clients |-> 0]
  /\ refused = [c \in Clients |-> 0] /\ disconnected = [c \in Clients |-> 0]
  /\ kept = [c \in Clients |-> FALSE] /\ crossed = FALSE

\* The thread of a client's loop is not inside handleEvent.
Idle(c) == \A b \in Clients : bev[b] = "ending" => LoopOf[b] # LoopOf[c]

Inc(f, c) == [f EXCEPT ![c] = @ + 1]

SetErrno(c, e) == errno' = [errno EXCEPT ![LoopOf[c]] = e]

\* connect: with a bufferevent, or when libevent fails, it returns false and
\* leaves everything as it was.  The bufferevent is new, _isClosing is not.
MayConnectAgain(c) == ~isConnected[c]
MayConnect(c) == bev[c] = "none"

Connect(c) ==
  /\ MayConnect(c)
  /\ MapThenSumSet(LAMBDA b : attempts[b], Clients) < MaxConnects
  /\ \E f \in Fds : /\ owner[f] = NoOne /\ \A g \in Fds : owner[g] = NoOne => f <= g
                     /\ fd' = [fd EXCEPT ![c] = f]
                     /\ owner' = [owner EXCEPT ![f] = c]
  /\ bev' = [bev EXCEPT ![c] = "connecting"]
  /\ SetErrno(c, "EINPROGRESS")
  /\ attempts' = Inc(attempts, c)
  /\ sock' = [sock EXCEPT ![c] = [NewSock EXCEPT !.isClosing = sock[c].isClosing]]
  /\ kept' = [kept EXCEPT ![c] = sock[c].isClosing]
  /\ crossed' = (crossed \/ \E b \in Clients : bev[b] = "ending")
  /\ UNCHANGED <<isConnected, connected, refused, disconnected, doing>>

\* handleEvent(BEV_EVENT_CONNECTED): the socket is connected; errno decides.
Success(c) == errno[LoopOf[c]] \notin {"ECONNREFUSED", "ETIMEDOUT"}

Awaits(c) == bev[c] = "connecting"

ConnectedEvent(c) ==
  /\ Idle(c)
  /\ Awaits(c) /\ owner[fd[c]] = c
  /\ bev' = [bev EXCEPT ![c] = "up"]
  /\ isConnected' = IF Success(c) THEN [isConnected EXCEPT ![c] = TRUE] ELSE isConnected
  /\ connected' = IF Success(c) THEN Inc(connected, c) ELSE connected
  /\ refused' = IF Success(c) THEN refused ELSE Inc(refused, c)
  /\ UNCHANGED <<fd, errno, owner, attempts, disconnected, kept, crossed, sockVars>>

CloseFd(c) == owner' = [owner EXCEPT ![fd[c]] = NoOne]

\* handleEvent(EOF, ERROR or TIMEOUT): the connection ended, or was refused or
\* timed out, which libevent leaves in errno.  The descriptor is closed and
\* onDisconnected is called ...
ClearConnected(c) == isConnected' = [isConnected EXCEPT ![c] = FALSE]

EndEvent(c, e) ==
  /\ Idle(c)
  /\ \/ bev[c] = "up" /\ e = errno[LoopOf[c]]
     \/ bev[c] = "connecting" /\ e \in {"ECONNREFUSED", "ETIMEDOUT"}
  /\ SetErrno(c, e)
  /\ bev' = [bev EXCEPT ![c] = "ending"]
  /\ SockDisable(c)
  /\ CloseFd(c)
  /\ ClearConnected(c)
  /\ disconnected' = Inc(disconnected, c)
  /\ UNCHANGED <<fd, attempts, connected, refused, kept, crossed>>

\* ... and bufferevent_free, with BEV_OPT_CLOSE_ON_FREE, closes it again.
EndReturns(c) ==
  /\ bev[c] = "ending"
  /\ CloseFd(c)
  /\ bev' = [bev EXCEPT ![c] = "none"]
  /\ fd' = [fd EXCEPT ![c] = NoFd]
  /\ sock' = [sock EXCEPT ![c] = [NewSock EXCEPT !.isClosing = sock[c].isClosing]]
  /\ UNCHANGED <<isConnected, errno, attempts, connected, refused, disconnected, kept, crossed, doing>>

\* The application sends and closes, in callbacks of the client or between them;
\* what it has sent is written, and writeCallback checks for a pending close.
ClientSend(c) == bev[c] # "none" /\ Send(c) /\ UNCHANGED connVars
ClientClose(c, pending) == bev[c] # "none" /\ Close(c, pending) /\ UNCHANGED connVars
ClientDrain(c) == bev[c] = "up" /\ Idle(c) /\ Drain(c) /\ UNCHANGED connVars
ClientWriteCallback(c) == bev[c] = "up" /\ Idle(c) /\ WriteCallback(c) /\ UNCHANGED connVars

ClientNext ==
  \E c \in Clients :
    \/ Connect(c)
    \/ ConnectedEvent(c)
    \/ \E e \in {"0", "EINPROGRESS", "ECONNREFUSED", "ETIMEDOUT"} : EndEvent(c, e)
    \/ EndReturns(c)
    \/ ClientSend(c) \/ \E pending \in BOOLEAN : ClientClose(c, pending)
    \/ ClientDrain(c) \/ ClientWriteCallback(c)

\* The clients by themselves.
ClientSpec == ClientInit /\ [][ClientNext]_clientVars
-----------------------------------------------------------------------------
\* The variables have their types.
\* Every connect that returned true is followed by one onDisconnected before
\* the next, and by at most one onConnected before that: so an application
\* that connects again in step with them has one connection at a time.  A pending
\* close of a connection that is up has data to wait for, whose write callback
\* completes it, unless the connection began with the mark of an earlier one.
\* While a client calls itself connected the descriptor is open and its own, as
\* long as no client connects inside onDisconnected of another: the second close
\* of the descriptor would be of its connection.
OneAtATime ==
  /\ ClientTypeOK
  /\ \A c \in Clients :
       /\ connected[c] + refused[c] <= attempts[c]
       /\ bev[c] \in {"none", "ending"} => disconnected[c] = attempts[c]
       /\ bev[c] \in {"connecting", "up"} => disconnected[c] = attempts[c] - 1
       /\ isConnected[c] => bev[c] = "up" /\ (owner[fd[c]] = c \/ crossed)
       /\ \A f, g \in Fds : owner[f] = c /\ owner[g] = c => f = g
       /\ bev[c] = "up" /\ sock[c].isClosing /\ ~kept[c] => sock[c].output > 0 \/ sock[c].deferred
=============================================================================
