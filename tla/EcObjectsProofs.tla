--------------------------- MODULE EcObjectsProofs ---------------------------
(***************************************************************************)
(* What the threads of a server promise, for any number of dispatchers,    *)
(* and clients, for any number of them, of descriptors and of connections. *)
(***************************************************************************)
EXTENDS EcTcpClient, EcThreads, TLAPS

-----------------------------------------------------------------------------
(* The clients.                                                            *)

Linked == {"connecting", "up"}

\* A pending close has data to wait for, or its callback is scheduled.
Prompt(r) == r.isClosing => r.output > 0 \/ r.deferred

BufInv ==
  \A c \in Clients :
    /\ sock[c].output + sock[c].written = sock[c].accepted
    /\ bev[c] \in Linked /\ ~kept[c] => Prompt(sock[c])

\* The descriptor a client owns is that of its bufferevent; and it owns that, if no
\* client has connected while another was ending.
OwnInv ==
  /\ \A c \in Clients : bev[c] # "none" => fd[c] \in Fds
  /\ \A f \in Fds, c \in Clients : owner[f] = c => bev[c] \in Linked /\ fd[c] = f
  /\ ~crossed => \A c \in Clients :
       /\ bev[c] \in Linked => owner[fd[c]] = c
       /\ bev[c] = "ending" => owner[fd[c]] = NoOne

\* Connections and callbacks come in turns.
TurnInv ==
  \A c \in Clients :
    /\ connected[c] + refused[c] <= attempts[c]
    /\ bev[c] = "connecting" => connected[c] + refused[c] < attempts[c]
    /\ bev[c] \in Linked => disconnected[c] + 1 = attempts[c]
    /\ bev[c] \notin Linked => disconnected[c] = attempts[c]
    /\ isConnected[c] => bev[c] = "up"

ClientInv == ClientTypeOK /\ BufInv /\ OwnInv /\ TurnInv
-----------------------------------------------------------------------------
\* What the operations of a socket make of its members.
Moves(r, q) ==
  q \in Sock /\ q.output + q.written = q.accepted /\ (Prompt(r) => Prompt(q))

LEMMA SockFields ==
  ASSUME NEW r \in Sock
  PROVE  /\ r.output \in 0..MaxChunks /\ r.accepted \in 0..MaxChunks /\ r.written \in 0..MaxChunks
         /\ r.isClosing \in BOOLEAN /\ r.deferred \in BOOLEAN /\ r.forced \in BOOLEAN
         /\ r.promised \in -1..MaxChunks
  BY DEF Sock

LEMMA SendMakes ==
  ASSUME NEW c \in Clients, SockTypeOK, sock[c].output + sock[c].written = sock[c].accepted, Send(c)
  PROVE  \E q \in Sock : Moves(sock[c], q) /\ sock' = [sock EXCEPT ![c] = q]
<1> USE SocketAssumption DEF Clients
<1>1. PICK r \in Sock : r = sock[c]
  BY DEF SockTypeOK
<1>2. PICK q : q = [r EXCEPT !.output = @ + 1, !.accepted = @ + 1]
  OBVIOUS
<1>3. /\ q.output = r.output + 1 /\ q.accepted = r.accepted + 1 /\ q.written = r.written
      /\ q.isClosing = r.isClosing
  BY <1>2 DEF Sock
<1>4. r.output + 1 \in 0..MaxChunks /\ r.accepted + 1 \in 0..MaxChunks /\ ~r.isClosing
  BY <1>1, SockFields DEF Send, MaySend
<1>5. q \in Sock
  BY Zenon, <1>2, <1>4 DEF Sock
<1>6. q.output + q.written = q.accepted
  BY <1>1, <1>3, SockFields
<1>7. sock' = [sock EXCEPT ![c] = q]
  BY <1>1, <1>2 DEF Send, Write, SockTypeOK, Sock
<1> QED BY Zenon, <1>1, <1>3, <1>4, <1>5, <1>6, <1>7 DEF Moves, Prompt

LEMMA DrainMakes ==
  ASSUME NEW c \in Clients, SockTypeOK, sock[c].output + sock[c].written = sock[c].accepted, Drain(c)
  PROVE  \E q \in Sock : Moves(sock[c], q) /\ sock' = [sock EXCEPT ![c] = q]
<1> USE SocketAssumption DEF Clients
<1>1. PICK r \in Sock : r = sock[c]
  BY DEF SockTypeOK
<1>2. PICK d \in BOOLEAN : d = (r.deferred \/ r.output = 1)
  BY Zenon
<1>3. PICK q : q = [r EXCEPT !.output = @ - 1, !.written = @ + 1, !.deferred = d]
  OBVIOUS
<1>4. /\ q.output = r.output - 1 /\ q.accepted = r.accepted /\ q.written = r.written + 1
      /\ q.isClosing = r.isClosing /\ q.deferred = d
  BY <1>3 DEF Sock
<1>5. r.output - 1 \in 0..MaxChunks /\ r.written + 1 \in 0..MaxChunks
  BY <1>1, SockFields DEF Drain
<1>6. q \in Sock
  BY Zenon, <1>3, <1>5 DEF Sock
<1>7. q.output + q.written = q.accepted /\ (Prompt(r) => Prompt(q))
  <2>1. r.output \in Nat /\ r.output > 0 /\ r.written \in Nat /\ r.accepted \in Nat
    BY <1>1, SockFields DEF Drain
  <2>2. q.output + q.written = q.accepted
    BY <1>1, <1>4, <2>1
  <2>3. r.output = 1 \/ q.output > 0
    BY <1>4, <2>1
  <2> QED BY Zenon, <1>2, <1>4, <2>2, <2>3 DEF Prompt
<1>8. sock' = [sock EXCEPT ![c] = q]
  BY <1>1, <1>2, <1>3 DEF Drain, SockTypeOK, Sock
<1> QED BY Zenon, <1>1, <1>6, <1>7, <1>8 DEF Moves

\* closeImpl takes the mark away.
LEMMA ClosedMakes ==
  ASSUME NEW r \in Sock, r.output + r.written = r.accepted
  PROVE  /\ Closed(r) \in Sock /\ ~Closed(r).isClosing
         /\ Closed(r).output + Closed(r).written = Closed(r).accepted
<1>1. Closed(r) \in Sock
  BY Zenon DEF Closed, Sock
<1>2. /\ Closed(r).output = r.output /\ Closed(r).written = r.written
      /\ Closed(r).accepted = r.accepted /\ Closed(r).isClosing = FALSE
  BY DEF Closed, Sock
<1> QED BY <1>1, <1>2

LEMMA CloseMakes ==
  ASSUME NEW c \in Clients, SockTypeOK, sock[c].output + sock[c].written = sock[c].accepted,
         NEW pending \in BOOLEAN, Close(c, pending)
  PROVE  \E q \in Sock : Moves(sock[c], q) /\ sock' = [sock EXCEPT ![c] = q]
<1> USE SocketAssumption DEF Clients
<1>1. PICK r \in Sock : r = sock[c]
  BY DEF SockTypeOK
<1>2. PICK p \in -1..MaxChunks : p = (IF pending /\ r.promised = -1 THEN r.accepted ELSE r.promised)
  <2>1. (IF pending /\ r.promised = -1 THEN r.accepted ELSE r.promised) \in -1..MaxChunks
    BY SockFields
  <2> QED BY <2>1
<1>3. PICK f \in BOOLEAN : f = (r.forced \/ ~pending)
  BY Zenon
<1>4. PICK a : a = Asked(r, pending)
  OBVIOUS
<1>5. a = [r EXCEPT !.promised = p, !.forced = f]
  BY <1>2, <1>3, <1>4 DEF Asked
<1>6. a \in Sock /\ a.output = r.output /\ a.written = r.written /\ a.accepted = r.accepted
  BY Zenon, <1>5 DEF Sock
<1>7. CASE Waits(c, pending)
  <2>1. PICK q : q = [a EXCEPT !.isClosing = TRUE]
    BY Zenon
  <2>2. q \in Sock /\ q.output = r.output /\ q.written = r.written /\ q.accepted = r.accepted
    BY Zenon, <1>6, <2>1 DEF Sock
  <2>3. sock' = [sock EXCEPT ![c] = q]
    BY <1>1, <1>4, <1>7, <2>1 DEF Close, SockTypeOK
  <2>4. q.output > 0
    BY <1>1, <1>7, <2>2 DEF Waits
  <2> QED BY Zenon, <1>1, <2>2, <2>3, <2>4 DEF Moves, Prompt
<1>8. CASE ~Waits(c, pending)
  <2>1. PICK q : q = Closed(a)
    OBVIOUS
  <2>2. q \in Sock /\ ~q.isClosing /\ q.output + q.written = q.accepted
    <3>1. a.output + a.written = a.accepted
      BY <1>1, <1>6
    <3> QED BY <1>6, <2>1, <3>1, ClosedMakes
  <2>3. sock' = [sock EXCEPT ![c] = q]
    BY <1>1, <1>4, <1>8, <2>1 DEF Close, SockTypeOK
  <2> QED BY Zenon, <1>1, <2>2, <2>3 DEF Moves, Prompt
<1> QED BY <1>7, <1>8

LEMMA CallbackMakes ==
  ASSUME NEW c \in Clients, SockTypeOK, sock[c].output + sock[c].written = sock[c].accepted,
         WriteCallback(c)
  PROVE  \E q \in Sock : Moves(sock[c], q) /\ sock' = [sock EXCEPT ![c] = q]
<1> USE SocketAssumption DEF Clients
<1>1. PICK r \in Sock : r = sock[c]
  BY DEF SockTypeOK
<1>2. PICK a : a = [r EXCEPT !.deferred = FALSE]
  BY Zenon
<1>3. /\ a \in Sock /\ a.output = r.output /\ a.written = r.written /\ a.accepted = r.accepted
      /\ a.isClosing = r.isClosing
  BY Zenon, <1>2 DEF Sock
<1>4. a.output + a.written = a.accepted
  BY <1>1, <1>3
<1>5. CASE CloseNow(c)
  <2>1. PICK q : q = Closed(a)
    OBVIOUS
  <2>2. q \in Sock /\ ~q.isClosing /\ q.output + q.written = q.accepted
    BY <1>3, <1>4, <2>1, ClosedMakes
  <2>3. sock' = [sock EXCEPT ![c] = q]
    BY <1>1, <1>2, <1>5, <2>1 DEF WriteCallback, SockTypeOK
  <2> QED BY Zenon, <1>1, <2>2, <2>3 DEF Moves, Prompt
<1>6. CASE ~CloseNow(c)
  <2>1. sock' = [sock EXCEPT ![c] = a]
    BY <1>1, <1>2, <1>6 DEF WriteCallback, SockTypeOK
  <2>2. a.isClosing => a.output > 0
    BY <1>1, <1>3, <1>6, SockFields DEF CloseNow
  <2> QED BY Zenon, <1>1, <1>3, <1>4, <2>1, <2>2 DEF Moves, Prompt
<1> QED BY <1>5, <1>6

\* bufferevent_disable
LEMMA DisableMakes ==
  ASSUME NEW c \in Clients, SockTypeOK, sock[c].output + sock[c].written = sock[c].accepted,
         SockDisable(c)
  PROVE  \E q \in Sock : Moves(sock[c], q) /\ sock' = [sock EXCEPT ![c] = q]
<1> USE DEF Clients
<1>1. PICK r \in Sock : r = sock[c]
  BY DEF SockTypeOK
<1>2. PICK q : q = [r EXCEPT !.writing = FALSE]
  BY Zenon
<1>3. /\ q \in Sock /\ q.output = r.output /\ q.written = r.written /\ q.accepted = r.accepted
      /\ q.isClosing = r.isClosing /\ q.deferred = r.deferred
  BY Zenon, <1>2 DEF Sock
<1>4. sock' = [sock EXCEPT ![c] = q]
  BY <1>1, <1>2 DEF SockDisable, SockTypeOK
<1> QED BY Zenon, <1>1, <1>3, <1>4 DEF Moves, Prompt

\* A new bufferevent, with _isClosing as it was.
LEMMA NewMakes ==
  ASSUME NEW m \in BOOLEAN
  PROVE  \E q \in Sock : /\ q = [NewSock EXCEPT !.isClosing = m] /\ q.isClosing = m
                        /\ q.output + q.written = q.accepted
<1>1. PICK q : q = [NewSock EXCEPT !.isClosing = m]
  BY Zenon
<1>2. 0 \in 0..MaxChunks /\ -1 \in -1..MaxChunks
  BY SocketAssumption
<1>3. q = [output |-> 0, accepted |-> 0, written |-> 0, isClosing |-> m, writing |-> TRUE,
           deferred |-> FALSE, closed |-> FALSE, promised |-> -1, forced |-> FALSE, missed |-> FALSE]
  BY Zenon, <1>1 DEF NewSock
<1>4. q \in Sock
  BY <1>2, <1>3 DEF Sock
<1>5. q.isClosing = m /\ q.output + q.written = q.accepted
  BY <1>3
<1> QED BY Zenon, <1>1, <1>4, <1>5

\* The sockets, when one has changed.
LEMMA SocksChange ==
  ASSUME SockTypeOK, NEW c \in Clients, NEW q \in Sock, sock' = [sock EXCEPT ![c] = q], UNCHANGED doing
  PROVE  SockTypeOK' /\ sock'[c] = q /\ \A b \in Clients : b # c => sock'[b] = sock[b]
  BY DEF SockTypeOK, Clients

LEMMA SetErrnoKeeps ==
  ASSUME ClientTypeOK, NEW c \in Clients, NEW e \in {"0", "EINPROGRESS", "ECONNREFUSED", "ETIMEDOUT"},
         SetErrno(c, e)
  PROVE  errno' \in [Loops -> {"0", "EINPROGRESS", "ECONNREFUSED", "ETIMEDOUT"}]
  BY Zenon DEF ClientTypeOK, SetErrno

\* One count goes up.
LEMMA IncKeeps ==
  ASSUME NEW f \in Count, NEW c \in Clients
  PROVE  /\ Inc(f, c) \in Count /\ Inc(f, c)[c] = f[c] + 1
         /\ \A b \in Clients : b # c => Inc(f, c)[b] = f[b]
  BY DEF Count, Inc

\* connect: the client had no bufferevent, and so owned no descriptor.
LEMMA ConnectKeeps ==
  ASSUME ClientInv, NEW c \in Clients, Connect(c)
  PROVE  ClientInv'
<1> USE DEF NoOne
<1>1. PICK m \in Fds : /\ owner[m] = NoOne /\ fd' = [fd EXCEPT ![c] = m]
                       /\ owner' = [owner EXCEPT ![m] = c]
  BY Zenon DEF Connect
<1>2. /\ bev[c] = "none" /\ bev' = [bev EXCEPT ![c] = "connecting"]
      /\ SetErrno(c, "EINPROGRESS") /\ attempts' = Inc(attempts, c)
      /\ sock' = [sock EXCEPT ![c] = [NewSock EXCEPT !.isClosing = sock[c].isClosing]]
      /\ kept' = [kept EXCEPT ![c] = sock[c].isClosing]
      /\ crossed' = (crossed \/ \E b \in Clients : bev[b] = "ending")
      /\ UNCHANGED <<isConnected, connected, refused, disconnected, doing>>
  BY Zenon DEF Connect, MayConnect
<1>3. SockTypeOK /\ sock[c].isClosing \in BOOLEAN
  BY SockFields DEF ClientInv, ClientTypeOK, SockTypeOK, Clients
<1>4. PICK q \in Sock : /\ q = [NewSock EXCEPT !.isClosing = sock[c].isClosing]
                        /\ q.isClosing = sock[c].isClosing /\ q.output + q.written = q.accepted
  BY Zenon, <1>3, NewMakes
<1>5. SockTypeOK' /\ sock'[c] = q /\ \A b \in Clients : b # c => sock'[b] = sock[b]
  <2>1. sock' = [sock EXCEPT ![c] = q] /\ UNCHANGED doing
    BY <1>2, <1>4
  <2> QED BY Zenon, <1>3, <2>1, SocksChange
<1>6. /\ attempts' \in Count /\ attempts'[c] = attempts[c] + 1
      /\ \A b \in Clients : b # c => attempts'[b] = attempts[b]
  BY Zenon, <1>2, IncKeeps DEF ClientInv, ClientTypeOK
<1>7. errno' \in [Loops -> {"0", "EINPROGRESS", "ECONNREFUSED", "ETIMEDOUT"}]
  BY <1>2, SetErrnoKeeps DEF ClientInv
<1>8. /\ bev'[c] = "connecting" /\ fd'[c] = m /\ kept'[c] = sock[c].isClosing /\ owner'[m] = c
      /\ \A b \in Clients : b # c => bev'[b] = bev[b] /\ fd'[b] = fd[b] /\ kept'[b] = kept[b]
      /\ \A f \in Fds : f # m => owner'[f] = owner[f]
  BY <1>1, <1>2 DEF ClientInv, ClientTypeOK
<1>9. ClientTypeOK'
  <2>1. crossed' \in BOOLEAN
    BY <1>2 DEF ClientInv, ClientTypeOK
  <2>2. kept' \in [Clients -> BOOLEAN]
    BY <1>2, <1>3 DEF ClientInv, ClientTypeOK
  <2>3. fd' \in [Clients -> Fds \cup {NoFd}] /\ owner' \in [Fds -> Clients \cup {NoOne}]
    BY <1>1 DEF ClientInv, ClientTypeOK
  <2> QED BY <1>2, <1>5, <1>6, <1>7, <2>1, <2>2, <2>3 DEF ClientInv, ClientTypeOK
<1>10. BufInv'
  BY Zenon, <1>4, <1>5, <1>8 DEF ClientInv, BufInv, Prompt
<1>11. OwnInv'
  <2>1. \A f \in Fds : owner[f] # c
    BY <1>2 DEF ClientInv, OwnInv, Linked
  <2>2. \A b \in Clients : bev'[b] # "none" => fd'[b] \in Fds
    BY <1>8 DEF ClientInv, OwnInv
  <2>3. \A f \in Fds, b \in Clients : owner'[f] = b => bev'[b] \in Linked /\ fd'[b] = f
    BY <1>8, <2>1 DEF ClientInv, OwnInv, Linked
  <2>4. ASSUME ~crossed', NEW b \in Clients
        PROVE  /\ bev'[b] \in Linked => owner'[fd'[b]] = b
               /\ bev'[b] = "ending" => owner'[fd'[b]] = NoOne
    <3>1. ~crossed /\ bev[b] # "ending"
      BY Zenon, <1>2, <2>4
    <3>2. CASE b = c
      BY <1>8, <3>2
    <3>3. CASE b # c
      <4>1. bev[b] \in Linked => owner[fd[b]] = b /\ fd[b] \in Fds
        BY <3>1 DEF ClientInv, OwnInv, Linked
      <4>2. b # NoOne
        BY ClientAssumption DEF Clients
      <4> QED BY <1>1, <1>8, <3>1, <3>3, <4>1, <4>2
    <3> QED BY <3>2, <3>3
  <2> QED BY <2>2, <2>3, <2>4 DEF OwnInv
<1>12. TurnInv'
  <2>1. /\ connected[c] \in Nat /\ refused[c] \in Nat /\ attempts[c] \in Nat
        /\ connected[c] + refused[c] <= attempts[c] /\ disconnected[c] = attempts[c] /\ ~isConnected[c]
    BY <1>2 DEF ClientInv, ClientTypeOK, Count, TurnInv, Linked
  <2>2. /\ connected[c] + refused[c] < attempts'[c] /\ connected[c] + refused[c] <= attempts'[c]
        /\ disconnected[c] + 1 = attempts'[c]
    BY <1>6, <2>1
  <2> QED BY <1>2, <1>6, <1>8, <2>1, <2>2 DEF ClientInv, TurnInv, Linked
<1> QED BY <1>9, <1>10, <1>11, <1>12 DEF ClientInv

\* onConnected: the connection is up, whatever errno makes of it.
LEMMA ConnectedKeeps ==
  ASSUME ClientInv, NEW c \in Clients, ConnectedEvent(c)
  PROVE  ClientInv'
<1>1. /\ bev[c] = "connecting" /\ bev' = [bev EXCEPT ![c] = "up"]
      /\ UNCHANGED <<fd, errno, owner, attempts, disconnected, kept, crossed, sock, doing>>
  BY DEF ConnectedEvent, Awaits, sockVars
<1>2. /\ bev'[c] = "up" /\ \A b \in Clients : b # c => bev'[b] = bev[b]
      /\ bev' \in [Clients -> {"none", "connecting", "up", "ending"}]
  BY <1>1 DEF ClientInv, ClientTypeOK
<1>3. /\ isConnected' \in [Clients -> BOOLEAN]
      /\ \A b \in Clients : b # c => isConnected'[b] = isConnected[b]
  BY DEF ConnectedEvent, ClientInv, ClientTypeOK
<1>4. /\ connected' \in Count /\ refused' \in Count
      /\ connected'[c] + refused'[c] = connected[c] + refused[c] + 1
      /\ \A b \in Clients : b # c => connected'[b] = connected[b] /\ refused'[b] = refused[b]
  <2>1. connected \in Count /\ refused \in Count /\ connected[c] \in Nat /\ refused[c] \in Nat
    BY DEF ClientInv, ClientTypeOK, Count
  <2>2. CASE Success(c)
    <3>1. connected' = Inc(connected, c) /\ refused' = refused
      BY <2>2 DEF ConnectedEvent
    <3> QED BY <2>1, <3>1, IncKeeps
  <2>3. CASE ~Success(c)
    <3>1. connected' = connected /\ refused' = Inc(refused, c)
      BY <2>3 DEF ConnectedEvent
    <3> QED BY <2>1, <3>1, IncKeeps
  <2> QED BY <2>2, <2>3
<1>5. ClientTypeOK'
  BY <1>1, <1>2, <1>3, <1>4 DEF ClientInv, ClientTypeOK, SockTypeOK
<1>6. \A b \in Clients : bev'[b] \in Linked <=> bev[b] \in Linked
  BY <1>1, <1>2 DEF Linked
<1>7. BufInv'
  BY <1>1, <1>6 DEF ClientInv, BufInv
<1>8. OwnInv'
  BY <1>1, <1>2, <1>6 DEF ClientInv, OwnInv
<1>9. TurnInv'
  <2>1. connected[c] + refused[c] < attempts[c]
    BY <1>1 DEF ClientInv, TurnInv
  <2>2. connected'[c] + refused'[c] <= attempts[c]
    BY <1>4, <2>1 DEF ClientInv, ClientTypeOK, Count
  <2> QED BY Zenon, <1>1, <1>2, <1>3, <1>4, <1>6, <2>2 DEF ClientInv, TurnInv
<1> QED BY <1>5, <1>7, <1>8, <1>9 DEF ClientInv

\* The connection ends: its descriptor is closed, and onDisconnected is called.
LEMMA EndKeeps ==
  ASSUME ClientInv, NEW c \in Clients,
         NEW e \in {"0", "EINPROGRESS", "ECONNREFUSED", "ETIMEDOUT"}, EndEvent(c, e)
  PROVE  ClientInv'
<1> USE DEF NoOne
<1>1. /\ bev[c] \in Linked /\ bev' = [bev EXCEPT ![c] = "ending"] /\ SetErrno(c, e)
      /\ SockDisable(c) /\ owner' = [owner EXCEPT ![fd[c]] = NoOne]
      /\ isConnected' = [isConnected EXCEPT ![c] = FALSE] /\ disconnected' = Inc(disconnected, c)
      /\ UNCHANGED <<fd, attempts, connected, refused, kept, crossed>>
  BY Zenon DEF EndEvent, CloseFd, ClearConnected, Linked
<1>2. SockTypeOK /\ sock[c].output + sock[c].written = sock[c].accepted /\ UNCHANGED doing
  BY <1>1 DEF ClientInv, ClientTypeOK, BufInv, SockDisable
<1>3. PICK q \in Sock : Moves(sock[c], q) /\ sock' = [sock EXCEPT ![c] = q]
  BY Zenon, <1>1, <1>2, DisableMakes
<1>4. SockTypeOK' /\ sock'[c] = q /\ \A b \in Clients : b # c => sock'[b] = sock[b]
  BY Zenon, <1>2, <1>3, SocksChange
<1>5. /\ disconnected' \in Count /\ disconnected'[c] = disconnected[c] + 1
      /\ \A b \in Clients : b # c => disconnected'[b] = disconnected[b]
  BY Zenon, <1>1, IncKeeps DEF ClientInv, ClientTypeOK
<1>6. errno' \in [Loops -> {"0", "EINPROGRESS", "ECONNREFUSED", "ETIMEDOUT"}]
  BY <1>1, SetErrnoKeeps DEF ClientInv
<1>7. fd[c] \in Fds
  BY <1>1 DEF ClientInv, OwnInv, Linked
<1>8. /\ bev'[c] = "ending" /\ ~isConnected'[c] /\ owner'[fd[c]] = NoOne
      /\ \A b \in Clients : b # c => bev'[b] = bev[b] /\ isConnected'[b] = isConnected[b]
      /\ \A f \in Fds : f # fd[c] => owner'[f] = owner[f]
  BY <1>1, <1>7 DEF ClientInv, ClientTypeOK
<1>9. ClientTypeOK'
  <2>1. owner' \in [Fds -> Clients \cup {NoOne}]
    BY <1>1, <1>7 DEF ClientInv, ClientTypeOK
  <2> QED BY <1>1, <1>4, <1>5, <1>6, <2>1 DEF ClientInv, ClientTypeOK
<1>10. BufInv'
  BY ZenonT(60), <1>1, <1>3, <1>4, <1>8 DEF ClientInv, BufInv, Moves, Linked
<1>11. OwnInv'
  <2>1. \A b \in Clients : bev'[b] # "none" => fd'[b] \in Fds
    BY <1>1, <1>7, <1>8 DEF ClientInv, OwnInv
  <2>2. ASSUME NEW f \in Fds, NEW b \in Clients, owner'[f] = b
        PROVE  bev'[b] \in Linked /\ fd'[b] = f
    <3>1. b # NoOne
      BY ClientAssumption DEF Clients
    <3>2. f # fd[c] /\ owner[f] = b
      BY <1>8, <2>2, <3>1
    <3>3. b # c
      BY <3>2 DEF ClientInv, OwnInv
    <3> QED BY <1>1, <1>8, <3>2, <3>3 DEF ClientInv, OwnInv
  <2>3. ASSUME ~crossed', NEW b \in Clients
        PROVE  /\ bev'[b] \in Linked => owner'[fd'[b]] = b
               /\ bev'[b] = "ending" => owner'[fd'[b]] = NoOne
    <3>1. ~crossed /\ fd' = fd /\ owner[fd[c]] = c
      BY <1>1, <2>3 DEF ClientInv, OwnInv
    <3>2. CASE b = c
      BY <1>8, <3>1, <3>2 DEF Linked
    <3>3. CASE b # c
      <4>1. /\ bev[b] \in Linked => owner[fd[b]] = b /\ fd[b] \in Fds
            /\ bev[b] = "ending" => owner[fd[b]] = NoOne /\ fd[b] \in Fds
        BY <3>1 DEF ClientInv, OwnInv, Linked
      <4> QED BY <1>8, <3>1, <3>3, <4>1
    <3> QED BY <3>2, <3>3
  <2> QED BY <2>1, <2>2, <2>3 DEF OwnInv
<1>12. TurnInv'
  <2>1. disconnected[c] + 1 = attempts[c]
    BY <1>1 DEF ClientInv, TurnInv
  <2> QED BY <1>1, <1>5, <1>8, <2>1 DEF ClientInv, TurnInv, Linked
<1> QED BY <1>9, <1>10, <1>11, <1>12 DEF ClientInv

\* The second close: of a descriptor nobody has, unless a client connected in between.
LEMMA EndReturnsKeeps ==
  ASSUME ClientInv, NEW c \in Clients, EndReturns(c)
  PROVE  ClientInv'
<1> USE DEF NoOne
<1>1. /\ bev[c] = "ending" /\ bev' = [bev EXCEPT ![c] = "none"]
      /\ owner' = [owner EXCEPT ![fd[c]] = NoOne] /\ fd' = [fd EXCEPT ![c] = NoFd]
      /\ sock' = [sock EXCEPT ![c] = [NewSock EXCEPT !.isClosing = sock[c].isClosing]]
      /\ UNCHANGED <<isConnected, errno, attempts, connected, refused, disconnected, kept, crossed, doing>>
  BY Zenon DEF EndReturns, CloseFd
<1>2. SockTypeOK /\ sock[c].isClosing \in BOOLEAN
  BY SockFields DEF ClientInv, ClientTypeOK, SockTypeOK, Clients
<1>3. PICK q \in Sock : /\ q = [NewSock EXCEPT !.isClosing = sock[c].isClosing]
                        /\ q.isClosing = sock[c].isClosing /\ q.output + q.written = q.accepted
  BY Zenon, <1>2, NewMakes
<1>4. SockTypeOK' /\ sock'[c] = q /\ \A b \in Clients : b # c => sock'[b] = sock[b]
  <2>1. sock' = [sock EXCEPT ![c] = q] /\ UNCHANGED doing
    BY <1>1, <1>3
  <2> QED BY Zenon, <1>2, <2>1, SocksChange
<1>5. fd[c] \in Fds
  BY <1>1 DEF ClientInv, OwnInv
<1>6. /\ bev'[c] = "none" /\ owner'[fd[c]] = NoOne
      /\ \A b \in Clients : b # c => bev'[b] = bev[b] /\ fd'[b] = fd[b]
      /\ \A f \in Fds : f # fd[c] => owner'[f] = owner[f]
  BY <1>1, <1>5 DEF ClientInv, ClientTypeOK
<1>7. ClientTypeOK'
  <2>1. fd' \in [Clients -> Fds \cup {NoFd}] /\ owner' \in [Fds -> Clients \cup {NoOne}]
    BY <1>1, <1>5 DEF ClientInv, ClientTypeOK
  <2> QED BY <1>1, <1>4, <2>1 DEF ClientInv, ClientTypeOK
<1>8. BufInv'
  BY <1>1, <1>3, <1>4, <1>6 DEF ClientInv, BufInv, Linked
<1>9. OwnInv'
  <2>1. \A b \in Clients : bev'[b] # "none" => fd'[b] \in Fds
    BY Zenon, <1>6 DEF ClientInv, OwnInv
  <2>2. ASSUME NEW f \in Fds, NEW b \in Clients, owner'[f] = b
        PROVE  bev'[b] \in Linked /\ fd'[b] = f
    <3>1. b # NoOne
      BY ClientAssumption DEF Clients
    <3>2. f # fd[c] /\ owner[f] = b
      BY <1>6, <2>2, <3>1
    <3>3. b # c
      BY <3>2 DEF ClientInv, OwnInv
    <3> QED BY <1>6, <3>2, <3>3 DEF ClientInv, OwnInv
  <2>3. ASSUME ~crossed', NEW b \in Clients
        PROVE  /\ bev'[b] \in Linked => owner'[fd'[b]] = b
               /\ bev'[b] = "ending" => owner'[fd'[b]] = NoOne
    <3>1. ~crossed /\ owner[fd[c]] = NoOne
      BY <1>1, <2>3 DEF ClientInv, OwnInv
    <3>2. CASE b = c
      BY <1>6, <3>2 DEF Linked
    <3>3. CASE b # c
      <4>1. /\ bev[b] \in Linked => owner[fd[b]] = b /\ fd[b] \in Fds
            /\ bev[b] = "ending" => owner[fd[b]] = NoOne /\ fd[b] \in Fds
        BY <3>1 DEF ClientInv, OwnInv, Linked
      <4>2. b # NoOne
        BY ClientAssumption DEF Clients
      <4> QED BY <1>6, <3>1, <3>3, <4>1, <4>2
    <3> QED BY <3>2, <3>3
  <2> QED BY <2>1, <2>2, <2>3 DEF OwnInv
<1>10. TurnInv'
  BY <1>1, <1>6 DEF ClientInv, TurnInv, Linked
<1> QED BY <1>7, <1>8, <1>9, <1>10 DEF ClientInv

\* send, close and the callbacks of the socket leave the connection as it is.
LEMMA SocketUseKeeps ==
  ASSUME ClientInv, NEW c \in Clients, UNCHANGED connVars,
         Send(c) \/ (\E pending \in BOOLEAN : Close(c, pending)) \/ Drain(c) \/ WriteCallback(c)
  PROVE  ClientInv'
<1>1. SockTypeOK /\ sock[c].output + sock[c].written = sock[c].accepted
  BY DEF ClientInv, ClientTypeOK, BufInv
<1>2. UNCHANGED doing
  BY Zenon DEF Send, Close, Drain, WriteCallback
<1>3. PICK q \in Sock : Moves(sock[c], q) /\ sock' = [sock EXCEPT ![c] = q]
  BY Zenon, <1>1, SendMakes, CloseMakes, DrainMakes, CallbackMakes
<1>4. SockTypeOK' /\ sock'[c] = q /\ \A b \in Clients : b # c => sock'[b] = sock[b]
  BY Zenon, <1>1, <1>2, <1>3, SocksChange
<1>5. ClientTypeOK' /\ OwnInv' /\ TurnInv'
  BY ZenonT(60), <1>4 DEF connVars, ClientInv, ClientTypeOK, OwnInv, TurnInv
<1>6. BufInv'
  BY Zenon, <1>3, <1>4 DEF connVars, ClientInv, BufInv, Moves
<1> QED BY <1>5, <1>6 DEF ClientInv

\* Every step of the clients keeps their invariant, which they begin with.
LEMMA ClientStep ==
  ASSUME ClientInv, ClientNext \/ UNCHANGED clientVars
  PROVE  ClientInv'
<1>1. CASE ClientNext
  <2>1. PICK c \in Clients :
          \/ Connect(c) \/ ConnectedEvent(c)
          \/ \E e \in {"0", "EINPROGRESS", "ECONNREFUSED", "ETIMEDOUT"} : EndEvent(c, e)
          \/ EndReturns(c) \/ ClientSend(c) \/ \E pending \in BOOLEAN : ClientClose(c, pending)
          \/ ClientDrain(c) \/ ClientWriteCallback(c)
    BY Zenon, <1>1 DEF ClientNext
  <2>2. ASSUME ClientSend(c) \/ (\E pending \in BOOLEAN : ClientClose(c, pending))
               \/ ClientDrain(c) \/ ClientWriteCallback(c)
        PROVE  ClientInv'
    <3>1. /\ UNCHANGED connVars
          /\ Send(c) \/ (\E pending \in BOOLEAN : Close(c, pending)) \/ Drain(c) \/ WriteCallback(c)
      BY Zenon, <2>2 DEF ClientSend, ClientClose, ClientDrain, ClientWriteCallback
    <3> QED BY Zenon, <3>1, SocketUseKeeps
  <2> QED BY Zenon, <2>1, <2>2, ConnectKeeps, ConnectedKeeps, EndKeeps, EndReturnsKeeps
<1>2. CASE UNCHANGED clientVars
  BY <1>2 DEF clientVars, connVars, sockVars, ClientInv, ClientTypeOK, SockTypeOK, BufInv, OwnInv, TurnInv
<1> QED BY <1>1, <1>2

LEMMA ClientBegin == ClientInit => ClientInv
<1> SUFFICES ASSUME ClientInit PROVE ClientInv
  OBVIOUS
<1> USE DEF ClientInit, SockInit, NoOne
<1>1. NewSock \in Sock /\ NewSock.output + NewSock.written = NewSock.accepted
  <2>1. 0 \in 0..MaxChunks /\ -1 \in -1..MaxChunks
    BY SocketAssumption
  <2> QED BY <2>1 DEF NewSock, Sock
<1>2. ClientTypeOK
  BY Zenon, <1>1 DEF ClientTypeOK, SockTypeOK, Clients, Count
<1>3. BufInv
  BY Zenon, <1>1 DEF BufInv, Linked, Clients
<1>4. OwnInv
  BY ClientAssumption DEF OwnInv, Linked, Clients
<1>5. TurnInv
  BY DEF TurnInv, Linked
<1> QED BY <1>2, <1>3, <1>4, <1>5 DEF ClientInv

\* What the invariant says of the connections.
LEMMA ClientOne == ClientInv => OneAtATime
<1> SUFFICES ASSUME ClientInv, NEW c \in Clients
             PROVE  /\ connected[c] + refused[c] <= attempts[c]
                    /\ bev[c] \in {"none", "ending"} => disconnected[c] = attempts[c]
                    /\ bev[c] \in {"connecting", "up"} => disconnected[c] = attempts[c] - 1
                    /\ isConnected[c] => bev[c] = "up" /\ (owner[fd[c]] = c \/ crossed)
                    /\ \A f, g \in Fds : owner[f] = c /\ owner[g] = c => f = g
                    /\ bev[c] = "up" /\ sock[c].isClosing /\ ~kept[c]
                         => sock[c].output > 0 \/ sock[c].deferred
  BY DEF OneAtATime, ClientInv
<1>1. connected[c] + refused[c] <= attempts[c]
  BY DEF ClientInv, TurnInv
<1>2. bev[c] \in {"none", "ending"} => disconnected[c] = attempts[c]
  BY DEF ClientInv, TurnInv, Linked
<1>3. bev[c] \in {"connecting", "up"} => disconnected[c] = attempts[c] - 1
  BY DEF ClientInv, ClientTypeOK, Count, TurnInv, Linked
<1>4. isConnected[c] => bev[c] = "up" /\ (owner[fd[c]] = c \/ crossed)
  BY DEF ClientInv, TurnInv, OwnInv, Linked
<1>5. \A f, g \in Fds : owner[f] = c /\ owner[g] = c => f = g
  BY DEF ClientInv, OwnInv
<1>6. bev[c] = "up" /\ sock[c].isClosing /\ ~kept[c] => sock[c].output > 0 \/ sock[c].deferred
  BY DEF ClientInv, BufInv, Prompt, Linked
<1> QED BY <1>1, <1>2, <1>3, <1>4, <1>5, <1>6

\* ec::TcpClient, for any clients, loops and descriptors: connections and callbacks
\* come in turns, a client owns at most one descriptor, its own while it calls itself
\* connected unless a client connected inside onDisconnected of another, and a pending
\* close of a connection that is up has a callback to come.
THEOREM OneAtATimeHolds == ClientSpec => []OneAtATime
<1>1. ClientInv /\ [ClientNext]_clientVars => ClientInv'
  BY Zenon, ClientStep
<1> QED
  BY <1>1, ClientBegin, ClientOne, PTL DEF ClientSpec
-----------------------------------------------------------------------------
(* The threads of a server.                                                *)

Over == {"none", "over"}

\* wait has passed dispatcher d: its thread does not run, nor need it be joined.
Passed(d) == runs[d] \in Over /\ (_thread[d] => joined[d])

\* Where the owner can be in listen, wait and delete.
MainInv ==
  /\ main.op = "idle" => main = AtRest
  /\ main.op \in {"listen", "wait", "delete"} => main.at \in All
  /\ main.op = "listen" => main.step \in {"start", "assign"} /\ _eventListener = "set" /\ ~waited
  /\ main.op = "wait" => main.step \in {"test", "join"}
  /\ main.op = "delete" => main.step = "loop"
  /\ wrong # "nothing" => main.op = "gone"

\* Threads are made once, by listen, dispatcher after dispatcher; nothing made
\* runs without its _thread, but between the making and the assignment.
ThreadInv ==
  /\ _eventListener = "NULL" => main.op = "gone" \/ \A d \in All : runs[d] = "none"
  /\ main.op = "listen" =>
       \A d \in All : d > cur \/ (d = cur /\ main.step = "start") => runs[d] = "none"
  /\ \A d \in All :
       /\ runs[d] \notin Over => _thread[d] \/ main = At("listen", d, "assign")
       /\ joined[d] => runs[d] = "over"
       /\ runs[d] = "over" /\ _thread[d] => d \in early
       /\ main = At("wait", d, "join") /\ joined[d] => d \in early

\* What wait has passed stays so, and nothing is made afterwards.
WaitInv ==
  /\ main.op = "wait" => \A d \in All : d < cur => Passed(d)
  /\ waited => (_eventListener = "set" \/ main.op = "gone") /\ \A d \in All : Passed(d)
  /\ wrong \in {"delete_of_running", "delete_of_unjoined"} => ~waited
  /\ wrong = "join_again" => early # {}

ThreadsInv == ThreadsTypeOK /\ MainInv /\ ThreadInv /\ WaitInv

Mains == [op : {"idle", "listen", "wait", "delete", "gone"}, at : 0..Dispatchers,
          step : {"none", "start", "assign", "test", "join", "loop"}]

\* A place of the owner, by its parts.
LEMMA MainIs ==
  ASSUME NEW o \in {"idle", "listen", "wait", "delete", "gone"}, NEW a \in 0..Dispatchers,
         NEW s \in {"none", "start", "assign", "test", "join", "loop"}
  PROVE  /\ At(o, a, s) \in Mains
         /\ At(o, a, s).op = o /\ At(o, a, s).at = a /\ At(o, a, s).step = s
  BY DEF At, Mains

\* The owner is in no operation.
LEMMA RestIs == AtRest \in Mains /\ AtRest.op = "idle" /\ AtRest.at = 0 /\ AtRest.step = "none"
  BY DispatchersAssumption DEF AtRest, Mains

\* The owner goes on to the next dispatcher, if there is one.
LEMMA NextLoopIs ==
  ASSUME NEW o \in {"listen", "wait"}, NEW s \in {"start", "test"}, main.at \in All
  PROVE  \/ main.at = Dispatchers /\ NextLoop(o, s) = AtRest
         \/ main.at + 1 \in All /\ NextLoop(o, s) = At(o, main.at + 1, s)
  BY DispatchersAssumption DEF NextLoop, cur, All

\* The types, when the owner moves.
LEMMA TypeFrame ==
  ASSUME ThreadsTypeOK, main' \in Mains,
         UNCHANGED isStopping, UNCHANGED stopped, _thread' \in [All -> BOOLEAN],
         joined' \in [All -> BOOLEAN],
         runs' \in [All -> {"none", "made", "loop", "ending", "over"}], early' \subseteq All,
         waited' \in BOOLEAN, _eventListener' \in {"NULL", "set"},
         wrong' \in {"nothing", "join_of_NULL", "join_again",
                     "delete_of_running", "delete_of_unjoined"}
  PROVE  ThreadsTypeOK'
  BY DEF ThreadsTypeOK, Mains

\* listen makes the threads.
LEMMA ListenKeeps ==
  ASSUME ThreadsInv, serverListen \/ Refuses \/ startThread \/ AssignThread
  PROVE  ThreadsInv'
<1> USE DispatchersAssumption DEF All, cur
<1>1. CASE serverListen
  <2>1. /\ main = AtRest /\ _eventListener = "NULL"
        /\ _eventListener' = "set" /\ main' = At("listen", 1, "start")
        /\ UNCHANGED <<_thread, runs, joined, isStopping, early, stopped, waited, wrong>>
    BY <1>1 DEF serverListen
  <2>2. main'.op = "listen" /\ main'.at = 1 /\ main'.step = "start" /\ main.op = "idle"
    BY <2>1, MainIs, RestIs
  <2>3. ThreadsTypeOK'
    <3>1. main' \in Mains
      BY <2>1, MainIs
    <3> QED BY <2>1, <3>1, TypeFrame DEF ThreadsInv, ThreadsTypeOK
  <2>4. ~waited /\ \A d \in All : runs[d] = "none"
    BY <2>1, <2>2 DEF ThreadsInv, ThreadInv, WaitInv
  <2>5. MainInv'
    BY <2>1, <2>2, <2>4 DEF ThreadsInv, MainInv
  <2>6. ThreadInv'
    BY <2>1, <2>2, <2>4 DEF ThreadsInv, ThreadInv, Over, At
  <2>7. WaitInv'
    BY <2>1, <2>2, <2>4 DEF ThreadsInv, WaitInv, Passed
  <2> QED BY <2>3, <2>5, <2>6, <2>7 DEF ThreadsInv
<1>2. CASE Refuses
  <2>1. /\ main.op = "listen" /\ main.step = "start" /\ main.at \in All
        /\ UNCHANGED <<_thread, runs, joined, isStopping, early, stopped, waited, wrong>>
        /\ IF main.at = 1 THEN _eventListener' = "NULL" /\ main' = AtRest
           ELSE UNCHANGED _eventListener /\ main' = NextLoop("listen", "start")
    BY <1>2 DEF Refuses, Is, ThreadsInv, MainInv
  <2>2. ~waited /\ wrong = "nothing" /\ _eventListener = "set"
    BY <2>1 DEF ThreadsInv, MainInv
  <2>3. \/ main' = AtRest /\ main'.op = "idle"
        \/ /\ main.at + 1 \in All /\ main' = At("listen", main.at + 1, "start")
           /\ main'.op = "listen" /\ main'.at = main.at + 1 /\ main'.step = "start"
    <3>1. main' = AtRest \/ (main.at + 1 \in All /\ main' = At("listen", main.at + 1, "start"))
      BY <2>1, NextLoopIs
    <3>2. main.at + 1 \in All => main.at + 1 \in 0..Dispatchers
      OBVIOUS
    <3> QED BY <3>1, <3>2, MainIs, RestIs
  <2>4. ThreadsTypeOK'
    <3>1. main' \in Mains
      BY <2>3, MainIs, RestIs
    <3> QED BY <2>1, <3>1, TypeFrame DEF ThreadsInv, ThreadsTypeOK
  <2>5. MainInv'
    BY <2>1, <2>2, <2>3, RestIs DEF MainInv
  <2>6. ThreadInv'
    BY <2>1, <2>2, <2>3 DEF ThreadsInv, ThreadInv, Over, At
  <2>7. WaitInv'
    <3>1. main'.op # "wait" /\ ~waited' /\ wrong' = "nothing"
      BY <2>1, <2>2, <2>3
    <3> QED BY <3>1 DEF WaitInv
  <2> QED BY <2>4, <2>5, <2>6, <2>7 DEF ThreadsInv
<1>3. CASE startThread
  <2>1. /\ main.op = "listen" /\ main.step = "start" /\ main.at \in All
        /\ runs' = [runs EXCEPT ![main.at] = "made"]
        /\ main' = At("listen", main.at, "assign")
        /\ UNCHANGED <<_thread, joined, isStopping, early, stopped, _eventListener, waited, wrong>>
    BY <1>3 DEF startThread, Is, ThreadsInv, MainInv
  <2>2. ~waited /\ wrong = "nothing" /\ _eventListener = "set" /\ runs[main.at] = "none"
    BY <2>1 DEF ThreadsInv, MainInv, ThreadInv
  <2>3. main'.op = "listen" /\ main'.at = main.at /\ main'.step = "assign"
    BY <2>1, MainIs
  <2>4. ThreadsTypeOK'
    <3>1. main' \in Mains
      BY <2>1, MainIs
    <3> QED BY <2>1, <3>1, TypeFrame DEF ThreadsInv, ThreadsTypeOK
  <2>5. MainInv'
    BY <2>1, <2>2, <2>3 DEF MainInv
  <2>6. ThreadInv'
    BY <2>1, <2>2, <2>3 DEF ThreadsInv, ThreadsTypeOK, ThreadInv, Over, At
  <2>7. WaitInv'
    <3>1. main'.op # "wait" /\ ~waited' /\ wrong' = "nothing"
      BY <2>1, <2>2, <2>3
    <3> QED BY <3>1 DEF WaitInv
  <2> QED BY <2>4, <2>5, <2>6, <2>7 DEF ThreadsInv
<1>4. CASE AssignThread
  <2>1. /\ main.op = "listen" /\ main.step = "assign" /\ main.at \in All
        /\ _thread' = [_thread EXCEPT ![main.at] = TRUE]
        /\ early' = IF runs[main.at] = "over" THEN early \cup {main.at} ELSE early
        /\ main' = NextLoop("listen", "start")
        /\ UNCHANGED <<runs, joined, isStopping, stopped, _eventListener, waited, wrong>>
    BY <1>4 DEF AssignThread, Is, ThreadsInv, MainInv
  <2>2. ~waited /\ wrong = "nothing" /\ _eventListener = "set"
    BY <2>1 DEF ThreadsInv, MainInv
  <2>3. \/ main' = AtRest /\ main'.op = "idle"
        \/ /\ main.at + 1 \in All /\ main' = At("listen", main.at + 1, "start")
           /\ main'.op = "listen" /\ main'.at = main.at + 1 /\ main'.step = "start"
    <3>1. main' = AtRest \/ (main.at + 1 \in All /\ main' = At("listen", main.at + 1, "start"))
      BY <2>1, NextLoopIs
    <3>2. main.at + 1 \in All => main.at + 1 \in 0..Dispatchers
      OBVIOUS
    <3> QED BY <3>1, <3>2, MainIs, RestIs
  <2>4. ThreadsTypeOK'
    <3>1. main' \in Mains
      BY <2>3, MainIs, RestIs
    <3> QED BY Zenon, <2>1, <3>1, TypeFrame DEF ThreadsInv, ThreadsTypeOK
  <2>5. MainInv'
    BY <2>1, <2>2, <2>3 DEF MainInv
  <2>6. ThreadInv'
    BY <2>1, <2>2, <2>3 DEF ThreadsInv, ThreadsTypeOK, ThreadInv, Over, At
  <2>7. WaitInv'
    <3>1. main'.op # "wait" /\ ~waited' /\ wrong' = "nothing"
      BY <2>1, <2>2, <2>3
    <3> QED BY <3>1 DEF WaitInv
  <2> QED BY <2>4, <2>5, <2>6, <2>7 DEF ThreadsInv
<1> QED BY <1>1, <1>2, <1>3, <1>4

\* The threads run and end.
LEMMA RunKeeps ==
  ASSUME ThreadsInv, NEW d \in All, runFails(d) \/ run(d) \/ loopExits(d) \/ runEnds(d)
  PROVE  ThreadsInv'
<1> USE DispatchersAssumption DEF ThreadsInv, ThreadsTypeOK, MainInv, ThreadInv, WaitInv, Over,
        Passed, At, cur
<1>1. CASE runFails(d)
  BY <1>1 DEF runFails
<1>2. CASE run(d)
  BY <1>2 DEF run
<1>3. CASE loopExits(d)
  BY <1>3 DEF loopExits
<1>4. CASE runEnds(d)
  BY <1>4 DEF runEnds
<1> HIDE DEF ThreadsInv, ThreadsTypeOK, MainInv, ThreadInv, WaitInv
<1> QED BY Zenon, <1>1, <1>2, <1>3, <1>4

\* stop only marks the loops.
LEMMA StopKeeps ==
  ASSUME ThreadsInv, serverStop
  PROVE  ThreadsInv'
<1>1. ThreadsTypeOK'
  <2>1. stopped + 1 \in 0..Dispatchers
    <3>1. stopped \in 0..Dispatchers /\ stopped < Dispatchers
      BY Zenon DEF ThreadsInv, ThreadsTypeOK, serverStop
    <3> QED BY <3>1, DispatchersAssumption
  <2>2. isStopping' \in [All -> BOOLEAN]
    BY Zenon DEF ThreadsInv, ThreadsTypeOK, serverStop
  <2> QED BY Zenon, <2>1, <2>2 DEF ThreadsInv, ThreadsTypeOK, serverStop
<1> QED
  BY <1>1 DEF ThreadsInv, MainInv, ThreadInv, WaitInv, Passed, serverStop, cur

\* wait passes the dispatchers one by one.
LEMMA WaitKeeps ==
  ASSUME ThreadsInv, serverWait \/ waitThread \/ Join
  PROVE  ThreadsInv'
<1> USE DispatchersAssumption DEF All, cur
<1>1. CASE serverWait
  <2>1. /\ main.op = "idle" /\ main' = At("wait", 1, "test")
        /\ UNCHANGED <<_thread, runs, joined, isStopping, early, stopped, _eventListener, waited, wrong>>
    BY <1>1, RestIs DEF serverWait
  <2>2. main'.op = "wait" /\ main'.at = 1 /\ main'.step = "test" /\ main' \in Mains
    BY <2>1, MainIs
  <2>3. ThreadsTypeOK'
    BY <2>1, <2>2, TypeFrame DEF ThreadsInv, ThreadsTypeOK
  <2>4. MainInv'
    BY <2>1, <2>2 DEF ThreadsInv, MainInv
  <2>5. \A d \in All : main # At("listen", d, "assign")
    BY <2>1, MainIs
  <2>6. ThreadInv'
    BY <2>1, <2>2, <2>5 DEF ThreadsInv, ThreadInv, At
  <2>7. WaitInv'
    <3>1. \A d \in All : ~(d < 1)
      OBVIOUS
    <3> QED BY <2>1, <2>2, <3>1 DEF ThreadsInv, WaitInv, Passed
  <2> QED BY <2>3, <2>4, <2>6, <2>7 DEF ThreadsInv
<1>2. CASE waitThread
  <2>1. /\ main.op = "wait" /\ main.step = "test" /\ main.at \in All
        /\ main' = IF _thread[main.at] THEN At("wait", main.at, "join") ELSE NextLoop("wait", "test")
        /\ waited' = (waited \/ (main' = AtRest /\ _eventListener = "set"))
        /\ UNCHANGED <<_thread, runs, joined, isStopping, early, stopped, _eventListener, wrong>>
    BY <1>2 DEF waitThread, Is, ThreadsInv, MainInv
  <2>2. \A d \in All : main # At("listen", d, "assign")
    BY <2>1, MainIs
  <2>3. wrong = "nothing"
    BY <2>1 DEF ThreadsInv, MainInv
  <2>4. CASE _thread[main.at]
    <3>1. /\ main' = At("wait", main.at, "join") /\ main' \in Mains
          /\ main'.op = "wait" /\ main'.at = main.at /\ main'.step = "join"
      BY <2>1, <2>4, MainIs
    <3>2. main' # AtRest
      BY <3>1, RestIs
    <3>3. waited' = waited
      BY <2>1, <3>2 DEF ThreadsInv, ThreadsTypeOK
    <3>4. ThreadsTypeOK'
      BY <2>1, <3>1, <3>3, TypeFrame DEF ThreadsInv, ThreadsTypeOK
    <3>5. MainInv'
      BY <2>1, <2>3, <3>1 DEF MainInv
    <3>6. joined[main.at] => main.at \in early
      BY <2>1, <2>4 DEF ThreadsInv, ThreadInv
    <3>7. ThreadInv'
      BY <2>1, <2>2, <3>1, <3>6 DEF ThreadsInv, ThreadInv, At
    <3>8. WaitInv'
      BY <2>1, <2>3, <3>1, <3>3 DEF ThreadsInv, WaitInv, Passed
    <3> QED BY <3>4, <3>5, <3>7, <3>8 DEF ThreadsInv
  <2>5. CASE ~_thread[main.at]
    <3>1. Passed(main.at)
      BY <2>1, <2>2, <2>5 DEF ThreadsInv, ThreadInv, Passed
    <3>2. \/ main' = AtRest /\ main.at = Dispatchers
          \/ main.at + 1 \in All /\ main' = At("wait", main.at + 1, "test")
      BY <2>1, <2>5, NextLoopIs
    <3>3. \A d \in All : d <= main.at => Passed(d)
      <4>1. \A d \in All : d < main.at => Passed(d)
        BY <2>1 DEF ThreadsInv, WaitInv
      <4>2. \A d \in All : d <= main.at => d < main.at \/ d = main.at
        BY <2>1
      <4> QED BY Zenon, <3>1, <4>1, <4>2
    <3>4. waited' \in BOOLEAN
      BY <2>1 DEF ThreadsInv, ThreadsTypeOK
    <3>5. CASE main' = AtRest /\ main.at = Dispatchers
      <4>1. main' \in Mains /\ main'.op = "idle"
        BY <3>5, RestIs
      <4>2. \A d \in All : Passed(d)
        BY <3>3, <3>5
      <4>3. ThreadsTypeOK'
        BY <2>1, <3>4, <4>1, TypeFrame DEF ThreadsInv, ThreadsTypeOK
      <4>4. MainInv'
        BY <2>1, <2>3, <3>5, <4>1 DEF MainInv
      <4>5. ThreadInv'
        BY <2>1, <2>2, <4>1 DEF ThreadsInv, ThreadInv, At
      <4>6. WaitInv'
        BY Zenon, <2>1, <2>3, <4>1, <4>2 DEF ThreadsInv, WaitInv, Passed
      <4> QED BY <4>3, <4>4, <4>5, <4>6 DEF ThreadsInv
    <3>6. CASE main.at + 1 \in All /\ main' = At("wait", main.at + 1, "test")
      <4>1. main' \in Mains /\ main'.op = "wait" /\ main'.at = main.at + 1 /\ main'.step = "test"
        BY <3>6, MainIs
      <4>2. waited' = waited
        BY <2>1, <4>1, RestIs DEF ThreadsInv, ThreadsTypeOK
      <4>3. ThreadsTypeOK'
        BY <2>1, <4>1, <4>2, TypeFrame DEF ThreadsInv, ThreadsTypeOK
      <4>4. MainInv'
        BY <2>1, <2>3, <3>6, <4>1 DEF MainInv
      <4>5. ThreadInv'
        BY <2>1, <2>2, <4>1 DEF ThreadsInv, ThreadInv, At
      <4>6. \A d \in All : d < main.at + 1 => Passed(d)
        BY <2>1, <3>3
      <4>7. WaitInv'
        BY <2>1, <2>3, <4>1, <4>2, <4>6 DEF ThreadsInv, WaitInv, Passed
      <4> QED BY <4>3, <4>4, <4>5, <4>7 DEF ThreadsInv
    <3> QED BY <3>2, <3>5, <3>6
  <2> QED BY <2>4, <2>5
<1>3. CASE Join
  <2>1. /\ main.op = "wait" /\ main.step = "join" /\ main.at \in All
        /\ runs[main.at] = "over"
        /\ joined' = [joined EXCEPT ![main.at] = TRUE]
        /\ main' = NextLoop("wait", "test")
        /\ waited' = (waited \/ main' = AtRest)
        /\ UNCHANGED <<_thread, runs, isStopping, early, stopped, _eventListener, wrong>>
    BY <1>3 DEF Join, Is, ThreadsInv, MainInv
  <2>2. \A d \in All : main # At("listen", d, "assign")
    BY <2>1, MainIs
  <2>3. wrong = "nothing" /\ _eventListener = "set"
    BY <2>1 DEF ThreadsInv, ThreadsTypeOK, MainInv, ThreadInv
  <2>4. /\ joined' \in [All -> BOOLEAN] /\ joined'[main.at]
        /\ \A d \in All : d # main.at => joined'[d] = joined[d]
    BY <2>1 DEF ThreadsInv, ThreadsTypeOK
  <2>5. \/ main' = AtRest /\ main.at = Dispatchers
        \/ main.at + 1 \in All /\ main' = At("wait", main.at + 1, "test")
    BY <2>1, NextLoopIs
  <2>6. waited' \in BOOLEAN
    BY <2>1 DEF ThreadsInv, ThreadsTypeOK
  <2>7. \A d \in All : Passed(d) => Passed(d)'
    BY <2>1, <2>4 DEF Passed
  <2>8. \A d \in All : d <= main.at => Passed(d)'
    <3>1. \A d \in All : d < main.at => Passed(d)
      BY <2>1 DEF ThreadsInv, WaitInv
    <3>2. \A d \in All : d = main.at => Passed(d)'
      BY <2>1, <2>4 DEF Passed, Over
    <3>3. \A d \in All : d <= main.at => d < main.at \/ d = main.at
      BY <2>1
    <3> QED BY Zenon, <2>7, <3>1, <3>2, <3>3
  <2>9. CASE main' = AtRest /\ main.at = Dispatchers
    <3>1. main' \in Mains /\ main'.op = "idle"
      BY <2>9, RestIs
    <3>2. \A d \in All : Passed(d)'
      BY <2>8, <2>9
    <3>3. ThreadsTypeOK'
      BY <2>1, <2>4, <2>6, <3>1, TypeFrame DEF ThreadsInv, ThreadsTypeOK
    <3>4. MainInv'
      BY <2>1, <2>3, <2>9, <3>1 DEF MainInv
    <3>5. ThreadInv'
      BY <2>1, <2>2, <2>3, <2>4, <3>1 DEF ThreadsInv, ThreadInv, At
    <3>6. WaitInv'
      BY <2>1, <2>3, <3>1, <3>2 DEF WaitInv
    <3> QED BY <3>3, <3>4, <3>5, <3>6 DEF ThreadsInv
  <2>10. CASE main.at + 1 \in All /\ main' = At("wait", main.at + 1, "test")
    <3>1. main' \in Mains /\ main'.op = "wait" /\ main'.at = main.at + 1 /\ main'.step = "test"
      BY <2>10, MainIs
    <3>2. waited' = waited
      BY <2>1, <3>1, RestIs DEF ThreadsInv, ThreadsTypeOK
    <3>3. ThreadsTypeOK'
      BY <2>1, <2>4, <2>6, <3>1, TypeFrame DEF ThreadsInv, ThreadsTypeOK
    <3>4. MainInv'
      BY <2>1, <2>3, <2>10, <3>1 DEF MainInv
    <3>5. ThreadInv'
      BY <2>1, <2>2, <2>3, <2>4, <3>1 DEF ThreadsInv, ThreadInv, At
    <3>6. \A d \in All : d < main.at + 1 => Passed(d)'
      BY <2>1, <2>8
    <3>7. WaitInv'
      BY <2>1, <2>3, <2>7, <3>1, <3>2, <3>6 DEF ThreadsInv, WaitInv
    <3> QED BY <3>3, <3>4, <3>5, <3>7 DEF ThreadsInv
  <2> QED BY <2>5, <2>9, <2>10
<1> QED BY <1>1, <1>2, <1>3

\* The program ends in a wrong call.
LEMMA FailKeeps ==
  ASSUME ThreadsInv, JoinNull \/ JoinAgain \/ LoopInUse \/ Terminates
  PROVE  ThreadsInv'
<1> USE DispatchersAssumption DEF All, cur
<1>1. PICK what \in {"join_of_NULL", "join_again",
                     "delete_of_running", "delete_of_unjoined"} :
        /\ Fails(what) /\ main.op \in {"wait", "delete"} /\ main.at \in All
        /\ what = "join_again" =>
             main.op = "wait" /\ main.step = "join" /\ joined[main.at]
        /\ what = "delete_of_running" => runs[main.at] \notin Over
        /\ what = "delete_of_unjoined" => _thread[main.at] /\ ~joined[main.at]
  BY DEF JoinNull, JoinAgain, LoopInUse, Terminates, Is, Over, ThreadsInv, MainInv
<1>2. /\ wrong' = what /\ main' = At("gone", 0, "none")
      /\ UNCHANGED <<_thread, runs, joined, isStopping, early, stopped, _eventListener, waited>>
  BY <1>1 DEF Fails
<1>3. main' \in Mains /\ main'.op = "gone"
  <2>1. 0 \in 0..Dispatchers
    OBVIOUS
  <2> QED BY <1>2, <2>1, MainIs
<1>4. what = "join_again" => early # {}
  <2>1. what = "join_again" => main = At("wait", main.at, "join")
    BY <1>1 DEF ThreadsInv, ThreadsTypeOK, At
  <2> QED BY <1>1, <2>1 DEF ThreadsInv, ThreadInv
<1>5. waited => what \notin {"delete_of_running", "delete_of_unjoined"}
  BY <1>1 DEF ThreadsInv, WaitInv, Passed
<1>6. \A d \in All : main # At("listen", d, "assign")
  BY <1>1 DEF At
<1>7. ThreadsTypeOK'
  BY <1>2, <1>3, TypeFrame DEF ThreadsInv, ThreadsTypeOK
<1>8. MainInv'
  BY <1>2, <1>3 DEF MainInv
<1>9. ThreadInv'
  BY <1>2, <1>3, <1>6 DEF ThreadsInv, ThreadInv, At
<1>10. WaitInv'
  BY <1>2, <1>3, <1>4, <1>5 DEF ThreadsInv, WaitInv, Passed
<1> QED BY <1>7, <1>8, <1>9, <1>10 DEF ThreadsInv

\* ~TcpServer deletes the loops one by one.
LEMMA DeleteKeeps ==
  ASSUME ThreadsInv, serverDelete \/ LoopDeleted
  PROVE  ThreadsInv'
<1> USE DispatchersAssumption DEF All, cur
<1>1. /\ main.op \in {"idle", "delete"} /\ wrong = "nothing"
      /\ UNCHANGED <<_thread, runs, joined, isStopping, early, stopped, waited, wrong>>
  BY RestIs DEF serverDelete, LoopDeleted, Is, ThreadsInv, MainInv
<1>2. /\ main' \in Mains /\ main'.op \in {"delete", "gone"}
      /\ main'.op = "delete" => main'.at \in All /\ main'.step = "loop" /\ UNCHANGED _eventListener
      /\ _eventListener' \in {"NULL", "set"}
  <2>1. CASE serverDelete
    <3>1. main' = At("delete", 1, "loop") /\ UNCHANGED _eventListener /\ 1 \in 0..Dispatchers
      BY <2>1 DEF serverDelete
    <3>2. main' \in Mains /\ main'.op = "delete" /\ main'.at = 1 /\ main'.step = "loop"
      BY <3>1, MainIs
    <3> QED BY <3>1, <3>2 DEF ThreadsInv, ThreadsTypeOK
  <2>2. CASE LoopDeleted
    <3>1. main.at \in All
      BY <2>2 DEF LoopDeleted, Is, ThreadsInv, MainInv
    <3>2. CASE main.at = Dispatchers
      BY <2>2, <3>2, MainIs DEF LoopDeleted
    <3>3. CASE main.at # Dispatchers
      <4>1. main.at + 1 \in All /\ main.at + 1 \in 0..Dispatchers
        BY <3>1, <3>3
      <4>2. main' = At("delete", main.at + 1, "loop") /\ UNCHANGED _eventListener
        BY <2>2, <3>3 DEF LoopDeleted
      <4>3. /\ main' \in Mains /\ main'.op = "delete" /\ main'.at = main.at + 1
            /\ main'.step = "loop"
        BY <4>1, <4>2, MainIs
      <4> QED BY <4>1, <4>2, <4>3 DEF ThreadsInv, ThreadsTypeOK
    <3> QED BY <3>2, <3>3
  <2> QED BY <2>1, <2>2
<1>3. \A d \in All : main # At("listen", d, "assign")
  BY <1>1, MainIs
<1>4. ThreadsTypeOK'
  BY <1>1, <1>2, TypeFrame DEF ThreadsInv, ThreadsTypeOK
<1>5. MainInv'
  BY <1>1, <1>2 DEF MainInv
<1>6. ThreadInv'
  BY <1>1, <1>2, <1>3 DEF ThreadsInv, ThreadInv, At
<1>7. WaitInv'
  BY <1>1, <1>2 DEF ThreadsInv, WaitInv, Passed
<1> QED BY <1>4, <1>5, <1>6, <1>7 DEF ThreadsInv

\* Every step of the threads keeps their invariant.
LEMMA ThreadsStep ==
  ASSUME ThreadsInv, ThreadsNext \/ UNCHANGED threadVars
  PROVE  ThreadsInv'
<1>1. CASE UNCHANGED threadVars
  BY <1>1 DEF threadVars, ThreadsInv, ThreadsTypeOK, MainInv, ThreadInv, WaitInv, Passed, cur
<1>2. CASE ThreadsNext
  BY Zenon, <1>2, ListenKeeps, RunKeeps, StopKeeps, WaitKeeps, FailKeeps, DeleteKeeps DEF ThreadsNext
<1> QED BY Zenon, <1>1, <1>2

\* The threads begin so.
LEMMA ThreadsBegin == ThreadsInit => ThreadsInv
<1> SUFFICES ASSUME ThreadsInit PROVE ThreadsInv
  OBVIOUS
<1> USE DispatchersAssumption DEF ThreadsInit
<1>1. main = AtRest /\ main \in Mains /\ main.op = "idle"
  BY RestIs
<1>2. ThreadsTypeOK
  <2>1. /\ _thread \in [All -> BOOLEAN] /\ joined \in [All -> BOOLEAN]
        /\ isStopping \in [All -> BOOLEAN]
        /\ runs \in [All -> {"none", "made", "loop", "ending", "over"}]
    OBVIOUS
  <2>2. early \subseteq All /\ stopped \in 0..Dispatchers
    OBVIOUS
  <2> QED BY Zenon, <1>1, <2>1, <2>2 DEF ThreadsTypeOK, Mains
<1>3. MainInv
  BY <1>1 DEF MainInv
<1>4. ThreadInv
  BY <1>1 DEF ThreadInv, Over
<1>5. WaitInv
  BY <1>1 DEF WaitInv
<1> QED BY <1>2, <1>3, <1>4, <1>5 DEF ThreadsInv

\* The threads of a TCP server: when wait has returned no thread runs, in whatever
\* order the threads ended and _thread was assigned and cleared; no loop is then freed
\* under its thread, nor a thread object deleted unjoined.
THEOREM WaitJoinsAllHolds == ThreadsSpec => []WaitJoinsAll
<1>1. ThreadsInv /\ [ThreadsNext]_threadVars => ThreadsInv'
  BY Zenon, ThreadsStep
<1>2. ThreadsInv => WaitJoinsAll
  BY Zenon DEF ThreadsInv, WaitInv, Passed, Over, WaitJoinsAll
<1> QED
  BY <1>1, <1>2, ThreadsBegin, PTL DEF ThreadsSpec
=============================================================================
