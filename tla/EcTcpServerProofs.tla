-------------------------- MODULE EcTcpServerProofs --------------------------
(***************************************************************************)
(* FdCustody and CloseWaits of EcTcpServer, for any number of connections, *)
(* descriptors, dispatchers, chunks and calls.  The generator all servers  *)
(* share is read and stored in two steps, so ids are unique only if one    *)
(* master runs: FdCustody is proved for one server.  CloseWaits holds for  *)
(* any servers, and is proved from what one socket keeps under every       *)
(* operation.                                                              *)
(***************************************************************************)
EXTENDS EcTcpServer, SequenceTheorems, WellFoundedInduction, TLAPS

\* The process has one TcpServer.
OneServer == \A s, t \in Servers : s = t
-----------------------------------------------------------------------------
\* Everything close was promised has been written, or close(false) was called.
MayClose(r) == r.forced \/ (r.promised # -1 /\ r.written >= r.promised)

\* One socket, and what another thread is doing on it: what was accepted is in the
\* output buffer or was written; what was promised had been accepted; _isClosing is
\* only set, or about to be, after a close(true); and closeImpl only runs, or is about
\* to, when it may.
SockKeeps(r, d) ==
  /\ r \in Sock
  /\ r.output + r.written = r.accepted
  /\ r.promised <= r.accepted
  /\ r.isClosing \/ d = "marking" => r.promised # -1
  /\ r.closed \/ d = "closing" => MayClose(r)

Doings == {"nothing", "sending", "closing", "marking"}

SocksInv ==
  /\ SockTypeOK
  /\ \A c \in Socks : SockKeeps(sock[c], doing[c])
-----------------------------------------------------------------------------
\* A step that changes one socket, and leaves what it must keep, keeps all.
LEMMA SocksFrame ==
  ASSUME NEW c \in Socks, SocksInv, NEW r, NEW d \in Doings, SockKeeps(r, d),
         sock' = [sock EXCEPT ![c] = r], doing' = [doing EXCEPT ![c] = d]
  PROVE  SocksInv'
<1>1. r \in Sock
  BY DEF SockKeeps
<1>2. SockTypeOK'
  BY <1>1 DEF SocksInv, SockTypeOK, Doings
<1>3. ASSUME NEW b \in Socks PROVE SockKeeps(sock[b], doing[b])'
  <2>1. CASE b = c
    <3>1. sock'[b] = r /\ doing'[b] = d
      BY <2>1 DEF SocksInv, SockTypeOK
    <3> QED
      BY <3>1 DEF SockKeeps, MayClose
  <2>2. CASE b # c
    <3>1. sock'[b] = sock[b] /\ doing'[b] = doing[b]
      BY <2>2 DEF SocksInv, SockTypeOK
    <3>2. SockKeeps(sock[b], doing[b])
      BY DEF SocksInv
    <3> QED
      BY <3>1, <3>2 DEF SockKeeps, MayClose
  <2> QED
    BY <2>1, <2>2
<1> QED
  BY <1>2, <1>3 DEF SocksInv

\* bufferevent_write of a chunk there is room for
LEMMA WriteKeeps ==
  ASSUME NEW r, NEW d \in Doings, SockKeeps(r, d), r.accepted < MaxChunks,
         NEW e \in {d, "nothing"}
  PROVE  SockKeeps([r EXCEPT !.output = @ + 1, !.accepted = @ + 1], e)
<1>1. PICK w : w = [r EXCEPT !.output = @ + 1, !.accepted = @ + 1]
  OBVIOUS
<1>2. /\ r.accepted \in 0..MaxChunks /\ r.output \in 0..MaxChunks
      /\ r.written \in 0..MaxChunks /\ r.promised \in -1..MaxChunks
  BY DEF SockKeeps, Sock
<1>3. /\ w.output = r.output + 1 /\ w.accepted = r.accepted + 1
      /\ w.written = r.written /\ w.promised = r.promised
      /\ w.isClosing = r.isClosing /\ w.closed = r.closed /\ w.forced = r.forced
  BY <1>1 DEF SockKeeps, Sock
<1>4. r.output + 1 \in 0..MaxChunks /\ r.accepted + 1 \in 0..MaxChunks
  BY <1>2, SocketAssumption DEF SockKeeps
<1>5. w \in Sock
  BY Zenon, <1>1, <1>4 DEF SockKeeps, Sock
<1>6. /\ w.output + w.written = w.accepted /\ w.promised <= w.accepted
  BY <1>2, <1>3 DEF SockKeeps
<1> QED
  BY <1>1, <1>3, <1>5, <1>6 DEF SockKeeps, MayClose

\* closing: when nothing is left of what was promised, or close(false) was called
LEMMA ClosedKeeps ==
  ASSUME NEW r, NEW d \in Doings, SockKeeps(r, d), MayClose(r), NEW e \in {d, "nothing"}
  PROVE  SockKeeps(Closed(r), e)
  BY Zenon, SocketAssumption DEF SockKeeps, MayClose, Sock, Closed, Doings

\* what a close(pending) asks
LEMMA AskedKeeps ==
  ASSUME NEW r, NEW d \in Doings, SockKeeps(r, d), NEW pending \in BOOLEAN
  PROVE  /\ SockKeeps(Asked(r, pending), d)
         /\ pending => Asked(r, pending).promised # -1
         /\ ~(pending /\ r.output > 0) => MayClose(Asked(r, pending))
         /\ Asked(r, pending).output = r.output
<1> DEFINE a == Asked(r, pending)
<1>1. /\ r.accepted \in 0..MaxChunks /\ r.output \in 0..MaxChunks
      /\ r.written \in 0..MaxChunks /\ r.promised \in -1..MaxChunks
      /\ r.forced \in BOOLEAN
  BY DEF SockKeeps, Sock
<1>2. /\ a.promised = IF pending /\ r.promised = -1 THEN r.accepted ELSE r.promised
      /\ a.forced = (r.forced \/ ~pending)
      /\ a.output = r.output /\ a.written = r.written /\ a.accepted = r.accepted
      /\ a.isClosing = r.isClosing /\ a.closed = r.closed
  BY DEF SockKeeps, Sock, Asked
<1>3. a \in Sock
  <2>1. PICK p : p = IF pending /\ r.promised = -1 THEN r.accepted ELSE r.promised
    OBVIOUS
  <2>2. PICK f \in BOOLEAN : f = (r.forced \/ ~pending)
    BY Zenon
  <2>3. p \in -1..MaxChunks
    BY <1>1, <2>1, SocketAssumption
  <2>4. a = [r EXCEPT !.promised = p, !.forced = f]
    BY <2>1, <2>2 DEF Asked
  <2> QED
    BY Zenon, <2>3, <2>4 DEF SockKeeps, Sock
<1> HIDE DEF a
<1>4. a.promised <= a.accepted /\ (pending => a.promised # -1)
  BY <1>1, <1>2 DEF SockKeeps
<1>5. a.output + a.written = a.accepted
  BY <1>2 DEF SockKeeps
<1>6. MayClose(r) => MayClose(a)
  BY <1>1, <1>2 DEF MayClose
<1>7. ~(pending /\ r.output > 0) => MayClose(a)
  <2>1. CASE ~pending
    BY Zenon, <1>2, <2>1 DEF MayClose
  <2>2. CASE pending /\ ~(r.output > 0)
    BY <1>1, <1>2, <1>4, <1>5, <2>2 DEF MayClose
  <2> QED BY <2>1, <2>2
<1>8. r.promised # -1 => a.promised # -1
  BY <1>1, <1>2
<1>9. SockKeeps(a, d)
  BY <1>2, <1>3, <1>4, <1>5, <1>6, <1>8 DEF SockKeeps
<1> QED
  BY <1>2, <1>4, <1>7, <1>9 DEF a

\* _isClosing is set once close(true) was called.
LEMMA MarkedKeeps ==
  ASSUME NEW r, NEW d \in Doings, SockKeeps(r, d), r.promised # -1, NEW m \in BOOLEAN,
         NEW e \in {d, "nothing"}
  PROVE  SockKeeps([r EXCEPT !.isClosing = TRUE, !.missed = m], e)
  BY Zenon DEF SockKeeps, MayClose, Sock, Doings

\* bufferevent_write keeps the sockets, as the last thing that send does
LEMMA WriteKeepsSocks ==
  ASSUME NEW c \in Socks, SocksInv, sock[c].accepted < MaxChunks, Write(c),
         NEW e \in {doing[c], "nothing"}, doing' = [doing EXCEPT ![c] = e]
  PROVE  SocksInv'
<1>1. PICK w : w = [sock[c] EXCEPT !.output = @ + 1, !.accepted = @ + 1]
  OBVIOUS
<1>2. SockKeeps(sock[c], doing[c]) /\ doing[c] \in Doings /\ e \in Doings
  BY DEF SocksInv, SockTypeOK, Doings
<1>3. SockKeeps(w, e)
  BY Zenon, <1>1, <1>2, WriteKeeps
<1>4. sock' = [sock EXCEPT ![c] = w]
  BY <1>1 DEF Write, SocksInv, SockTypeOK, Sock
<1> QED
  BY Zenon, <1>2, <1>3, <1>4, SocksFrame

\* send, on the loop's thread or on another
LEMMA SendKeepsSocks ==
  ASSUME NEW c \in Socks, SocksInv, Send(c) \/ SendBegin(c) \/ SendEnd(c)
  PROVE  SocksInv'
<1>1. SockKeeps(sock[c], doing[c]) /\ doing[c] \in Doings /\ doing \in [Socks -> Doings]
      /\ sock \in [Socks -> Sock]
  BY DEF SocksInv, SockTypeOK, Doings
<1>2. CASE Send(c)
  <2>1. doing' = [doing EXCEPT ![c] = doing[c]]
    BY <1>1, <1>2 DEF Send
  <2> QED BY Zenon, <1>2, <2>1, WriteKeepsSocks DEF Send, MaySend
<1>3. CASE SendBegin(c)
  <2>1. sock' = [sock EXCEPT ![c] = sock[c]]
    BY <1>1, <1>3 DEF SendBegin
  <2>2. SockKeeps(sock[c], "sending")
    BY <1>1 DEF SockKeeps
  <2> QED BY Zenon, <1>3, <2>1, <2>2, SocksFrame DEF SendBegin, Doings
<1>4. CASE SendEnd(c)
  <2>1. doing' = [doing EXCEPT ![c] = "nothing"]
    BY <1>4 DEF SendEnd
  <2>2. CASE sock[c].accepted < MaxChunks
    BY Zenon, <1>4, <2>1, <2>2, WriteKeepsSocks DEF SendEnd
  <2>3. CASE ~(sock[c].accepted < MaxChunks)
    <3>1. sock' = [sock EXCEPT ![c] = sock[c]]
      BY <1>1, <1>4, <2>3 DEF SendEnd
    <3>2. SockKeeps(sock[c], "nothing")
      BY <1>1 DEF SockKeeps
    <3> QED BY Zenon, <2>1, <3>1, <3>2, SocksFrame DEF Doings
  <2> QED BY <2>2, <2>3
<1> QED BY <1>2, <1>3, <1>4

\* close, on the loop's thread or on another
LEMMA CloseKeepsSocks ==
  ASSUME NEW c \in Socks, SocksInv, NEW pending \in BOOLEAN,
         Close(c, pending) \/ CloseBegin(c, pending) \/ CloseMark(c) \/ CloseEnd(c)
  PROVE  SocksInv'
<1>1. SockKeeps(sock[c], doing[c]) /\ doing[c] \in Doings /\ doing \in [Socks -> Doings]
      /\ sock \in [Socks -> Sock]
  BY DEF SocksInv, SockTypeOK, Doings
<1>2. PICK a : a = Asked(sock[c], pending)
  OBVIOUS
<1>3. /\ SockKeeps(a, doing[c])
      /\ pending => a.promised # -1
      /\ ~Waits(c, pending) => MayClose(a)
  BY Zenon, <1>1, <1>2, AskedKeeps DEF Waits
<1>4. CASE Close(c, pending)
  <2>1. doing' = [doing EXCEPT ![c] = doing[c]]
    BY <1>1, <1>4 DEF Close
  <2>2. CASE Waits(c, pending)
    <3>1. a \in Sock /\ a.missed \in BOOLEAN
      BY <1>3 DEF SockKeeps, Sock
    <3>2. PICK w : w = [a EXCEPT !.isClosing = TRUE, !.missed = a.missed]
      OBVIOUS
    <3>3. w = [a EXCEPT !.isClosing = TRUE]
      BY Zenon, <3>1, <3>2 DEF Sock
    <3>4. SockKeeps(w, doing[c])
      BY Zenon, <1>1, <1>3, <2>2, <3>1, <3>2, MarkedKeeps DEF Waits
    <3>5. sock' = [sock EXCEPT ![c] = w]
      BY Zenon, <1>2, <1>4, <2>2, <3>3 DEF Close
    <3> QED BY Zenon, <1>1, <2>1, <3>4, <3>5, SocksFrame
  <2>3. CASE ~Waits(c, pending)
    <3>1. SockKeeps(Closed(a), doing[c])
      BY <1>1, <1>3, <2>3, ClosedKeeps
    <3>2. sock' = [sock EXCEPT ![c] = Closed(a)]
      BY Zenon, <1>2, <1>4, <2>3 DEF Close
    <3> QED BY Zenon, <1>1, <2>1, <3>1, <3>2, SocksFrame
  <2> QED BY <2>2, <2>3
<1>5. CASE CloseBegin(c, pending)
  <2>1. PICK e \in {"marking", "closing"} :
          /\ e = IF Waits(c, pending) THEN "marking" ELSE "closing"
          /\ doing' = [doing EXCEPT ![c] = e]
    BY Zenon, <1>5 DEF CloseBegin
  <2>2. SockKeeps(a, e)
    <3>1. Waits(c, pending) => pending
      BY DEF Waits
    <3> QED BY <1>3, <2>1, <3>1 DEF SockKeeps
  <2>3. sock' = [sock EXCEPT ![c] = a]
    BY Zenon, <1>2, <1>5 DEF CloseBegin
  <2> QED BY Zenon, <2>1, <2>2, <2>3, SocksFrame DEF Doings
<1>6. CASE CloseMark(c)
  <2>1. PICK m \in BOOLEAN :
          m = (sock[c].missed \/ (sock[c].output = 0 /\ ~sock[c].deferred))
    BY Zenon
  <2>2. PICK w : w = [sock[c] EXCEPT !.isClosing = TRUE, !.missed = m]
    OBVIOUS
  <2>3. sock' = [sock EXCEPT ![c] = w]
    BY Zenon, <1>1, <1>6, <2>1, <2>2 DEF CloseMark, Sock
  <2>4. sock[c].promised # -1
    BY <1>1, <1>6 DEF CloseMark, SockKeeps
  <2>5. SockKeeps(w, "nothing")
    BY Zenon, <1>1, <2>2, <2>4, MarkedKeeps
  <2> QED BY Zenon, <1>6, <2>3, <2>5, SocksFrame DEF CloseMark, Doings
<1>7. CASE CloseEnd(c)
  <2>1. MayClose(sock[c])
    BY <1>1, <1>7 DEF CloseEnd, SockKeeps
  <2>2. SockKeeps(Closed(sock[c]), "nothing")
    BY <1>1, <2>1, ClosedKeeps
  <2> QED BY Zenon, <1>7, <2>2, SocksFrame DEF CloseEnd, Doings
<1> QED BY <1>4, <1>5, <1>6, <1>7

\* What libevent does: a chunk is written, the write callback runs.
LEMMA LoopKeepsSocks ==
  ASSUME NEW c \in Socks, SocksInv, Drain(c) \/ WriteCallback(c)
  PROVE  SocksInv'
<1>1. SockKeeps(sock[c], doing[c]) /\ doing[c] \in Doings /\ doing \in [Socks -> Doings]
      /\ sock \in [Socks -> Sock]
  BY DEF SocksInv, SockTypeOK, Doings
<1>2. doing' = [doing EXCEPT ![c] = doing[c]]
  BY <1>1 DEF Drain, WriteCallback
<1>3. PICK r : r = sock[c]
  OBVIOUS
<1>4. /\ r \in Sock /\ r.output \in 0..MaxChunks /\ r.written \in 0..MaxChunks
      /\ r.accepted \in 0..MaxChunks /\ r.promised \in -1..MaxChunks
  BY <1>1, <1>3 DEF Sock
<1>5. CASE Drain(c)
  <2>1. PICK m \in BOOLEAN : m = (r.deferred \/ r.output = 1)
    BY Zenon
  <2>2. PICK w : w = [r EXCEPT !.output = @ - 1, !.written = @ + 1, !.deferred = m]
    OBVIOUS
  <2>3. sock' = [sock EXCEPT ![c] = w]
    BY <1>1, <1>3, <1>5, <2>1, <2>2 DEF Drain, Sock
  <2>4. r.output - 1 \in 0..MaxChunks /\ r.written + 1 \in 0..MaxChunks
    BY <1>1, <1>3, <1>4, <1>5, SocketAssumption DEF Drain, SockKeeps
  <2>5. w \in Sock
    BY Zenon, <1>4, <2>2, <2>4 DEF Sock
  <2>6. /\ w.output = r.output - 1 /\ w.written = r.written + 1
        /\ w.accepted = r.accepted /\ w.promised = r.promised
        /\ w.isClosing = r.isClosing /\ w.closed = r.closed /\ w.forced = r.forced
    BY <1>4, <2>2 DEF Sock
  <2>7. w.output + w.written = w.accepted /\ w.promised <= w.accepted
    BY <1>1, <1>3, <1>4, <2>6 DEF SockKeeps
  <2>8. MayClose(r) => MayClose(w)
    BY <1>4, <2>6 DEF MayClose
  <2>9. SockKeeps(w, doing[c])
    BY <1>1, <1>3, <2>5, <2>6, <2>7, <2>8 DEF SockKeeps
  <2> QED BY Zenon, <1>1, <1>2, <2>3, <2>9, SocksFrame
<1>6. CASE WriteCallback(c)
  <2>1. PICK w : w = [r EXCEPT !.deferred = FALSE]
    BY Zenon
  <2>2. /\ w \in Sock /\ w.output = r.output /\ w.written = r.written
        /\ w.accepted = r.accepted /\ w.promised = r.promised
        /\ w.isClosing = r.isClosing /\ w.closed = r.closed /\ w.forced = r.forced
    BY Zenon, <1>4, <2>1 DEF Sock
  <2>3. SockKeeps(w, doing[c])
    BY <1>1, <1>3, <2>2 DEF SockKeeps, MayClose
  <2>4. CASE CloseNow(c)
    <3>1. MayClose(w)
      BY <1>1, <1>3, <1>4, <2>2, <2>4 DEF CloseNow, SockKeeps, MayClose
    <3>2. sock' = [sock EXCEPT ![c] = Closed(w)]
      BY Zenon, <1>3, <1>6, <2>1, <2>4 DEF WriteCallback
    <3>3. SockKeeps(Closed(w), doing[c])
      BY <1>1, <2>3, <3>1, ClosedKeeps
    <3> QED BY Zenon, <1>1, <1>2, <3>2, <3>3, SocksFrame
  <2>5. CASE ~CloseNow(c)
    <3>1. sock' = [sock EXCEPT ![c] = w]
      BY Zenon, <1>3, <1>6, <2>1, <2>5 DEF WriteCallback
    <3> QED BY Zenon, <1>1, <1>2, <2>3, <3>1, SocksFrame
  <2> QED BY <2>4, <2>5
<1> QED BY <1>5, <1>6

\* handleEvent and the destructor: a socket that is destroyed is in no other thread's
\* hands.
LEMMA EndKeepsSocks ==
  ASSUME NEW c \in Socks, SocksInv,
         SockDisable(c) \/ (doing[c] = "nothing" /\ SockDestroy(c))
  PROVE  SocksInv'
<1>1. SockKeeps(sock[c], doing[c]) /\ doing[c] \in Doings /\ doing \in [Socks -> Doings]
      /\ sock \in [Socks -> Sock]
  BY DEF SocksInv, SockTypeOK, Doings
<1>2. doing' = [doing EXCEPT ![c] = doing[c]]
  BY <1>1 DEF SockDisable, SockDestroy
<1>3. CASE SockDisable(c)
  <2>1. PICK w : w = [sock[c] EXCEPT !.writing = FALSE]
    BY Zenon
  <2>2. SockKeeps(w, doing[c])
    BY Zenon, <1>1, <2>1 DEF SockKeeps, MayClose, Sock
  <2>3. sock' = [sock EXCEPT ![c] = w]
    BY <1>1, <1>3, <2>1 DEF SockDisable, Sock
  <2> QED BY Zenon, <1>1, <1>2, <2>2, <2>3, SocksFrame
<1>4. CASE doing[c] = "nothing" /\ SockDestroy(c)
  <2>1. NewSock \in Sock
    BY SocketAssumption DEF NewSock, Sock
  <2>2. SockKeeps(NewSock, doing[c])
    BY <1>4, <2>1 DEF SockKeeps, MayClose, NewSock
  <2> QED BY Zenon, <1>1, <1>2, <1>4, <2>2, SocksFrame DEF SockDestroy
<1> QED BY <1>3, <1>4

\* Another thread is only inside a call on a session that it keeps.
DoingInv == \A c \in Socks : doing[c] # "nothing" => c \in held

\* Every step of the server keeps every socket.
LEMMA StepKeepsSocks ==
  ASSUME SocksInv, DoingInv, [Next]_vars
  PROVE  SocksInv' /\ DoingInv'
<1> USE ServerAssumption DEF Conns
<1>0. doing \in [Socks -> Doings]
  BY DEF SocksInv, SockTypeOK, Doings
<1>1. ASSUME UNCHANGED sockVars PROVE SocksInv'
  BY Zenon, <1>1 DEF sockVars, SocksInv, SockTypeOK, SockKeeps, MayClose
<1>2. ASSUME UNCHANGED doing, held \subseteq held' PROVE DoingInv'
  BY Zenon, <1>2 DEF DoingInv
<1>3. ASSUME NEW s \in Servers, Accept(s) \/ Dispatch(s) PROVE SocksInv' /\ DoingInv'
  BY Zenon, <1>1, <1>2, <1>3 DEF Accept, Dispatch, sockVars
<1>4. ASSUME NEW d \in Dispatchers, OnPost(d) PROVE SocksInv' /\ DoingInv'
  BY Zenon, <1>1, <1>2, <1>4 DEF OnPost, sockVars
<1>5. ASSUME NEW c \in Conns, HandleEvent(c) PROVE SocksInv' /\ DoingInv'
  BY Zenon, <1>2, <1>5, EndKeepsSocks DEF HandleEvent, SockDisable
<1>6. ASSUME NEW c \in Conns, RemoveSession(c) PROVE SocksInv' /\ DoingInv'
  <2>1. UNCHANGED <<held, doing>>
    BY Zenon, <1>6 DEF RemoveSession, SockDestroy, sockVars
  <2>2. c \notin held => doing[c] = "nothing"
    BY DEF DoingInv
  <2>3. SocksInv'
    BY Zenon, <1>1, <1>6, <2>2, EndKeepsSocks DEF RemoveSession
  <2> QED BY Zenon, <1>2, <2>1, <2>3
<1>7. ASSUME NEW c \in Conns, SendOnRead(c) PROVE SocksInv' /\ DoingInv'
  BY Zenon, <1>2, <1>7, SendKeepsSocks DEF SendOnRead, Send, srvVars
<1>8. ASSUME NEW c \in Conns, NEW pending \in BOOLEAN, CloseOnRead(c, pending)
      PROVE  SocksInv' /\ DoingInv'
  BY Zenon, <1>2, <1>8, CloseKeepsSocks DEF CloseOnRead, Close, srvVars
<1>9. ASSUME NEW c \in Conns, DrainSession(c) \/ SessionWriteCallback(c)
      PROVE  SocksInv' /\ DoingInv'
  <2>1. Drain(c) \/ WriteCallback(c)
    BY Zenon, <1>9 DEF DrainSession, SessionWriteCallback
  <2>2. UNCHANGED <<held, doing>>
    BY Zenon, <1>9 DEF DrainSession, SessionWriteCallback, Drain, WriteCallback, srvVars
  <2> QED BY Zenon, <1>2, <2>1, <2>2, LoopKeepsSocks
<1>10. ASSUME NEW c \in Conns, HeldBegins(c) PROVE SocksInv' /\ DoingInv'
  <2>1. SocksInv'
    BY Zenon, <1>10, SendKeepsSocks, CloseKeepsSocks DEF HeldBegins
  <2>2. PICK e : doing' = [doing EXCEPT ![c] = e]
    BY Zenon, <1>10 DEF HeldBegins, SendBegin, CloseBegin
  <2>3. c \in held /\ held' = held
    BY Zenon, <1>10 DEF HeldBegins, srvVars
  <2>4. DoingInv'
    BY <1>0, <2>2, <2>3 DEF DoingInv
  <2> QED BY <2>1, <2>4
<1>11. ASSUME NEW c \in Conns, HeldEnds(c) PROVE SocksInv' /\ DoingInv'
  <2>1. SocksInv'
    BY Zenon, <1>11, SendKeepsSocks, CloseKeepsSocks DEF HeldEnds
  <2>2. doing' = [doing EXCEPT ![c] = "nothing"] /\ held' = held
    BY Zenon, <1>11 DEF HeldEnds, SendEnd, CloseMark, CloseEnd, srvVars
  <2>3. DoingInv'
    BY <1>0, <2>2 DEF DoingInv
  <2> QED BY <2>1, <2>3
<1>12. ASSUME NEW d, NEW n, GetSession(d, n) PROVE SocksInv' /\ DoingInv'
  <2>1. UNCHANGED sockVars /\ UNCHANGED doing /\ held \subseteq held'
    BY Zenon, <1>12 DEF GetSession, sockVars
  <2> QED BY Zenon, <1>1, <1>2, <2>1
<1>13. ASSUME UNCHANGED vars PROVE SocksInv' /\ DoingInv'
  <2>1. UNCHANGED sockVars /\ UNCHANGED doing /\ held \subseteq held'
    BY Zenon, <1>13 DEF vars, srvVars, sockVars
  <2> QED BY Zenon, <1>1, <1>2, <2>1
<1> QED
  BY Zenon, <1>3, <1>4, <1>5, <1>6, <1>7, <1>8, <1>9, <1>10, <1>11, <1>12, <1>13 DEF Next

\* The sockets keep their invariant, for any servers.
LEMMA SocksInvHolds == Spec => [](SocksInv /\ DoingInv)
<1>1. Init => SocksInv /\ DoingInv
  <2> SUFFICES ASSUME Init PROVE SocksInv /\ DoingInv
    OBVIOUS
  <2>1. NewSock \in Sock
    BY SocketAssumption DEF NewSock, Sock
  <2>2. SockKeeps(NewSock, "nothing")
    BY <2>1 DEF SockKeeps, MayClose, NewSock
  <2>3. \A c \in Socks : sock[c] = NewSock /\ doing[c] = "nothing"
    BY DEF Init, SockInit
  <2>4. SockTypeOK
    BY <2>1 DEF Init, SockInit, SockTypeOK
  <2> QED BY Zenon, <2>2, <2>3, <2>4 DEF SocksInv, DoingInv
<1> QED
  BY <1>1, StepKeepsSocks, PTL DEF Spec

\* close(true) loses nothing (closeImpl, checkClosing and send of TcpSocket): for any
\* servers, connections and threads, what send had accepted before the first close has
\* been written when closeImpl runs, unless close(false) was called.
THEOREM CloseWaitsHolds == Spec => []CloseWaits
<1>1. SocksInv => CloseWaits
  <2> SUFFICES ASSUME SocksInv, NEW c \in Socks, sock[c].closed, ~sock[c].forced
               PROVE  sock[c].written >= sock[c].promised
    BY DEF CloseWaits
  <2> QED BY DEF SocksInv, SockKeeps, MayClose
<1> QED
  BY <1>1, SocksInvHolds, PTL
-----------------------------------------------------------------------------
\* The types of what the server itself changes.
SrvTypeOK ==
  /\ stage \in [Conns -> Stages]
  /\ server \in [Conns -> Servers \cup {None}]
  /\ fd \in [Conns -> Fds \cup {None}]
  /\ id \in [Conns -> 0..MaxConns]
  /\ owner \in [Fds -> Conns \cup {None}]
  /\ generator \in 0..MaxConns
  /\ seen \in [Servers -> 0..MaxConns \cup {None}]
  /\ posts \in [Dispatchers -> Seq(Conns)]
  /\ sessions \in [Dispatchers -> SUBSET ((1..MaxConns) \X Conns)]

Known == {"accepted", "posted", "live"}

\* A connection has a descriptor, its own while it is known, and who owns a
\* descriptor has that one.
FdInv ==
  /\ \A c \in Conns : stage[c] # "none" => fd[c] \in Fds /\ server[c] \in Servers
  /\ \A c \in Conns : stage[c] \in Known => owner[fd[c]] = c
  /\ \A f \in Fds : owner[f] # None =>
       stage[owner[f]] \in Known \cup {"failed"} /\ fd[owner[f]] = f

\* With one server connections are numbered as they come: the one that is being
\* numbered is the next, and the id of an earlier one is its number.
IdInv ==
  /\ \A c \in Conns : stage[c] = "accepted" => c = generator + 1 /\ seen[server[c]] = generator
  /\ \A c \in Conns : stage[c] \notin {"none", "accepted"} <=> c <= generator
  /\ \A c \in Conns : id[c] = IF c <= generator THEN c ELSE 0

\* A connection is in the posts of its dispatcher once, and is a session of none.
PostInv ==
  \A d \in Dispatchers :
    /\ \A n \in DOMAIN posts[d] : stage[posts[d][n]] = "posted" /\ DispatcherOf(posts[d][n]) = d
    /\ \A m, n \in DOMAIN posts[d] : posts[d][m] = posts[d][n] => m = n

\* A dispatcher's map has its sessions, by id.
MapInv ==
  \A d \in Dispatchers, n \in 1..MaxConns, c \in Conns :
    <<n, c>> \in sessions[d] <=>
      stage[c] \in {"live", "closed"} /\ id[c] = n /\ DispatcherOf(c) = d

SrvInv == SrvTypeOK /\ FdInv /\ IdInv /\ PostInv /\ MapInv

\* A set of naturals that is not empty has a least member.
LEMMA LeastFd ==
  ASSUME NEW S, S \subseteq Nat, S # {}
  PROVE  Min(S) \in S
<1>1. PICK x \in S : \A y \in S : ~(<<y, x>> \in OpToRel(<, Nat))
  BY Zenon, NatLessThanWellFounded, WFMin
<1>2. \A y \in S : ~(y < x)
  BY Zenon, <1>1 DEF OpToRel
<1>3. \A y \in S : x <= y
  BY <1>2
<1> QED
  BY Zenon, <1>3 DEF Min

\* The dispatcher of a number is one of the server's.
LEMMA DispatcherExists ==
  ASSUME NEW s \in Servers, NEW n \in Nat
  PROVE  SessionDispatcher(s, n) \in Dispatchers
<1>1. CASE Slavers = 0
  BY <1>1 DEF SessionDispatcher, Dispatchers, Places
<1>2. CASE Slavers # 0
  <2>1. n % Slavers \in 0..(Slavers - 1)
    BY <1>2, ServerAssumption
  <2> QED BY <1>2, <2>1 DEF SessionDispatcher, Dispatchers, Places
<1> QED BY <1>1, <1>2

\* An accepted connection is the next to be numbered, and has a descriptor nobody had.
LEMMA AcceptKeeps ==
  ASSUME OneServer, SrvInv, NEW s \in Servers, Accept(s)
  PROVE  SrvInv'
<1> USE ServerAssumption DEF Conns
<1>1. FreeFds \subseteq Fds /\ Min(FreeFds) \in FreeFds
  BY Zenon, LeastFd DEF FreeFds, Accept
<1>2. PICK m \in Fds : m = Min(FreeFds) /\ owner[m] = None
  BY Zenon, <1>1 DEF FreeFds
<1>3. PICK c \in Conns :
        /\ stage[c] = "none" /\ \A b \in 1..(c - 1) : stage[b] # "none"
        /\ stage' = [stage EXCEPT ![c] = "accepted"]
        /\ server' = [server EXCEPT ![c] = s]
        /\ fd' = [fd EXCEPT ![c] = m]
        /\ owner' = [owner EXCEPT ![m] = c]
  BY Zenon, <1>2 DEF Accept
<1>4. /\ seen[s] = None /\ seen' = [seen EXCEPT ![s] = generator]
      /\ UNCHANGED <<id, generator, posts, sessions>>
  BY Zenon DEF Accept
<1>5. SrvTypeOK'
  BY <1>2, <1>3, <1>4 DEF SrvInv, SrvTypeOK, Stages
<1>6. /\ stage'[c] = "accepted" /\ server'[c] = s /\ fd'[c] = m /\ owner'[m] = c
      /\ \A b \in Conns : b # c =>
           stage'[b] = stage[b] /\ server'[b] = server[b] /\ fd'[b] = fd[b]
      /\ \A f \in Fds : f # m => owner'[f] = owner[f]
      /\ seen'[s] = generator
  BY <1>2, <1>3, <1>4 DEF SrvInv, SrvTypeOK
<1>7. FdInv'
  <2>1. ASSUME NEW b \in Conns, stage'[b] # "none"
        PROVE  fd'[b] \in Fds /\ server'[b] \in Servers /\ (stage'[b] \in Known => owner'[fd'[b]] = b)
    <3>1. CASE b = c
      BY <1>6, <3>1
    <3>2. CASE b # c
      <4>1. stage'[b] = stage[b] /\ server'[b] = server[b] /\ fd'[b] = fd[b]
        BY <1>6, <3>2
      <4>2. fd[b] \in Fds /\ server[b] \in Servers /\ (stage[b] \in Known => owner[fd[b]] = b)
        BY <2>1, <4>1 DEF SrvInv, FdInv
      <4>3. stage[b] \in Known => fd[b] # m
        BY <1>2, <4>2
      <4> QED BY Zenon, <1>6, <4>1, <4>2, <4>3
    <3> QED BY <3>1, <3>2
  <2>2. ASSUME NEW f \in Fds, owner'[f] # None
        PROVE  stage'[owner'[f]] \in Known \cup {"failed"} /\ fd'[owner'[f]] = f
    <3>1. CASE f = m
      BY <1>6, <3>1 DEF Known
    <3>2. CASE f # m
      <4>1. owner'[f] = owner[f] /\ owner[f] \in Conns
        BY <1>6, <2>2, <3>2 DEF SrvInv, SrvTypeOK
      <4>2. owner[f] # c
        BY <1>3, <2>2, <4>1 DEF SrvInv, FdInv, Known
      <4> QED BY <1>6, <2>2, <4>1, <4>2 DEF SrvInv, FdInv
    <3> QED BY <3>1, <3>2
  <2>3. \A b \in Conns : stage'[b] \in Known => stage'[b] # "none"
    BY DEF Known
  <2> QED BY Zenon, <2>1, <2>2, <2>3 DEF FdInv
<1>8. c = generator + 1
  <2>1. ~(c <= generator)
    BY <1>3 DEF SrvInv, IdInv
  <2>2. ASSUME c > generator + 1 PROVE FALSE
    <3>1. generator \in Nat
      BY DEF SrvInv, SrvTypeOK
    <3>2. PICK g : g = generator + 1
      OBVIOUS
    <3>3. g \in Conns /\ g \in 1..(c - 1) /\ ~(g <= generator)
      BY <2>2, <3>1, <3>2
    <3>4. stage[g] = "accepted"
      BY <1>3, <3>3 DEF SrvInv, IdInv
    <3>5. server[g] \in Servers
      BY <3>3, <3>4 DEF SrvInv, FdInv
    <3>6. server[g] = s
      BY <3>5 DEF OneServer
    <3>7. seen[s] = generator
      BY <3>3, <3>4, <3>6 DEF SrvInv, IdInv
    <3> QED BY <1>4, <3>7 DEF SrvInv, SrvTypeOK
  <2> QED BY <2>1, <2>2 DEF SrvInv, SrvTypeOK
<1>9. IdInv'
  <2>1. ASSUME NEW b \in Conns, b # c PROVE stage[b] # "accepted"
    <3>1. ASSUME stage[b] = "accepted" PROVE FALSE
      BY <1>8, <2>1, <3>1 DEF SrvInv, IdInv
    <3> QED BY <3>1
  <2>2. ASSUME NEW b \in Conns, stage'[b] = "accepted"
        PROVE  b = generator' + 1 /\ seen'[server'[b]] = generator'
    BY <1>4, <1>6, <1>8, <2>1, <2>2
  <2>3. ASSUME NEW b \in Conns PROVE stage'[b] \notin {"none", "accepted"} <=> b <= generator'
    <3>1. CASE b = c
      BY <1>4, <1>6, <1>8, <3>1 DEF SrvInv, SrvTypeOK
    <3>2. CASE b # c
      BY <1>4, <1>6, <3>2 DEF SrvInv, IdInv
    <3> QED BY <3>1, <3>2
  <2>4. \A b \in Conns : id'[b] = IF b <= generator' THEN b ELSE 0
    BY <1>4 DEF SrvInv, IdInv
  <2> QED BY Zenon, <2>2, <2>3, <2>4 DEF IdInv
<1>10. \A b \in Conns : b # c => DispatcherOf(b)' = DispatcherOf(b)
  BY <1>4, <1>6 DEF DispatcherOf, SessionDispatcher
<1>11. PostInv'
  <2>1. ASSUME NEW d \in Dispatchers, NEW n \in DOMAIN posts[d]
        PROVE  stage'[posts[d][n]] = "posted" /\ DispatcherOf(posts[d][n])' = d
    <3>1. posts[d] \in Seq(Conns)
      BY DEF SrvInv, SrvTypeOK
    <3>2. PICK b \in Conns : b = posts[d][n]
      BY <3>1
    <3>3. stage[b] = "posted" /\ DispatcherOf(b) = d
      BY <3>2 DEF SrvInv, PostInv
    <3>4. b # c
      BY <1>3, <3>3
    <3>5. stage'[b] = "posted" /\ DispatcherOf(b)' = d
      BY <1>6, <1>10, <3>3, <3>4
    <3>6. DispatcherOf(posts[d][n])' = DispatcherOf(b)'
      BY <1>4, <3>2 DEF DispatcherOf, SessionDispatcher
    <3> QED BY <3>2, <3>5, <3>6
  <2>2. posts' = posts
    BY <1>4
  <2> QED BY <2>1, <2>2 DEF SrvInv, PostInv, DispatcherOf, SessionDispatcher
<1>12. MapInv'
  <2>1. ASSUME NEW d \in Dispatchers, NEW n \in 1..MaxConns, NEW b \in Conns
        PROVE  <<n, b>> \in sessions'[d] <=>
                 stage'[b] \in {"live", "closed"} /\ id'[b] = n /\ DispatcherOf(b)' = d
    BY <1>3, <1>4, <1>6, <1>10 DEF SrvInv, MapInv
  <2> QED BY Zenon, <2>1 DEF MapInv
<1> QED BY <1>5, <1>7, <1>9, <1>11, <1>12 DEF SrvInv

\* The connection that is numbered gets the next id, and is posted behind the others.
LEMMA DispatchKeeps ==
  ASSUME OneServer, SrvInv, NEW s \in Servers, Dispatch(s)
  PROVE  SrvInv'
<1> USE ServerAssumption DEF Conns
<1>1. PICK n : n = NextId(s)
  OBVIOUS
<1>2. PICK d : d = SessionDispatcher(s, n)
  OBVIOUS
<1>3. PICK c \in Conns :
        /\ stage[c] = "accepted" /\ server[c] = s
        /\ generator' = n
        /\ id' = [id EXCEPT ![c] = n]
        /\ Post(d, c)
        /\ stage' = [stage EXCEPT ![c] = "posted"]
  BY Zenon, <1>1, <1>2 DEF Dispatch
<1>4. /\ seen' = [seen EXCEPT ![s] = None]
      /\ UNCHANGED <<server, fd, owner, sessions>>
  BY Zenon DEF Dispatch
<1>5. c = generator + 1 /\ n = c /\ generator \in Nat /\ n \in 1..MaxConns
  BY <1>1, <1>3 DEF SrvInv, SrvTypeOK, IdInv, NextId
<1>6. d \in Dispatchers
  BY <1>2, <1>5, DispatcherExists
<1>7. PICK old \in Seq(Conns) : old = posts[d]
  BY <1>6 DEF SrvInv, SrvTypeOK
<1>8. /\ posts'[d] = Append(old, c) /\ \A e \in Dispatchers : e # d => posts'[e] = posts[e]
      /\ stage'[c] = "posted" /\ id'[c] = c
      /\ \A b \in Conns : b # c => stage'[b] = stage[b] /\ id'[b] = id[b]
  BY <1>3, <1>5, <1>6, <1>7 DEF SrvInv, SrvTypeOK, Post
<1>9. SrvTypeOK'
  <2>1. posts' \in [Dispatchers -> Seq(Conns)]
    BY <1>3, <1>6, <1>7 DEF SrvInv, SrvTypeOK, Post
  <2> QED BY <1>3, <1>4, <1>5, <2>1 DEF SrvInv, SrvTypeOK, Stages
<1>10. FdInv'
  <2>1. \A b \in Conns : stage'[b] # "none" => stage[b] # "none"
    BY <1>3, <1>8
  <2>2. \A b \in Conns : stage'[b] \in Known <=> stage[b] \in Known
    BY <1>3, <1>8 DEF Known
  <2>3. \A f \in Fds : owner[f] # None => owner[f] \in Conns
    BY DEF SrvInv, SrvTypeOK
  <2>4. \A b \in Conns :
          stage[b] \in Known \cup {"failed"} => stage'[b] \in Known \cup {"failed"}
    BY <1>3, <1>8 DEF Known
  <2> QED BY <1>4, <2>1, <2>2, <2>3, <2>4 DEF SrvInv, FdInv
<1>11. IdInv'
  <2>1. ASSUME NEW b \in Conns PROVE stage'[b] # "accepted"
    <3>1. ASSUME b # c, stage[b] = "accepted" PROVE FALSE
      BY <1>5, <3>1 DEF SrvInv, IdInv
    <3> QED BY <1>8, <3>1
  <2>2. ASSUME NEW b \in Conns
        PROVE  /\ stage'[b] \notin {"none", "accepted"} <=> b <= generator'
               /\ id'[b] = IF b <= generator' THEN b ELSE 0
    <3>1. CASE b = c
      BY <1>3, <1>5, <1>8, <3>1
    <3>2. CASE b # c
      <4>1. b <= generator' <=> b <= generator
        BY <1>3, <1>5, <3>2
      <4> QED BY <1>8, <3>2, <4>1 DEF SrvInv, IdInv
    <3> QED BY <3>1, <3>2
  <2> QED BY <2>1, <2>2 DEF IdInv
<1>12. /\ DispatcherOf(c)' = d
       /\ \A b \in Conns : b # c => DispatcherOf(b)' = DispatcherOf(b)
  BY <1>2, <1>3, <1>4, <1>5, <1>8 DEF DispatcherOf, SessionDispatcher
<1>13. PostInv'
  <2>1. ASSUME NEW e \in Dispatchers, NEW k \in DOMAIN posts[e]
        PROVE  \E b \in Conns : /\ b = posts[e][k] /\ b # c
                                /\ stage'[b] = "posted" /\ DispatcherOf(b)' = e
    <3>1. PICK b \in Conns : b = posts[e][k]
      BY DEF SrvInv, SrvTypeOK
    <3>2. stage[b] = "posted" /\ DispatcherOf(b) = e
      BY <3>1 DEF SrvInv, PostInv
    <3>3. b # c
      BY <1>3, <3>2
    <3>4. stage'[b] = "posted" /\ DispatcherOf(b)' = e
      BY <1>8, <1>12, <3>2, <3>3
    <3> QED BY Zenon, <3>1, <3>3, <3>4
  <2>2. /\ DOMAIN old = 1..Len(old) /\ DOMAIN Append(old, c) = 1..(Len(old) + 1)
        /\ Len(old) \in Nat
        /\ \A k \in 1..Len(old) : Append(old, c)[k] = old[k]
        /\ Append(old, c)[Len(old) + 1] = c
    BY <1>7
  <2>3. ASSUME NEW e \in Dispatchers, NEW k \in DOMAIN posts'[e]
        PROVE  stage'[posts'[e][k]] = "posted" /\ DispatcherOf(posts[e][k])' = e
    <3>1. PICK b : b = posts'[e][k]
      OBVIOUS
    <3>2. CASE e = d /\ k = Len(old) + 1
      <4>1. b = c
        BY <1>8, <2>2, <3>1, <3>2
      <4>2. stage'[b] = "posted" /\ DispatcherOf(b)' = e
        BY <1>8, <1>12, <3>2, <4>1 DEF DispatcherOf, SessionDispatcher
      <4> QED BY <3>1, <4>2 DEF DispatcherOf, SessionDispatcher
    <3>3. CASE ~(e = d /\ k = Len(old) + 1)
      <4>1. k \in DOMAIN posts[e] /\ b = posts[e][k]
        <5>1. CASE e # d
          BY <1>8, <3>1, <5>1
        <5>2. CASE e = d
          <6>1. k \in 1..(Len(old) + 1) /\ b = Append(old, c)[k]
            BY <1>8, <2>2, <3>1, <5>2
          <6>2. k \in 1..Len(old)
            BY <2>2, <3>3, <5>2, <6>1
          <6> QED BY <1>7, <2>2, <5>2, <6>1, <6>2
        <5> QED BY <5>1, <5>2
      <4>2. stage'[b] = "posted" /\ DispatcherOf(b)' = e
        BY Zenon, <2>1, <4>1
      <4> QED BY <3>1, <4>2 DEF DispatcherOf, SessionDispatcher
    <3> QED BY <3>2, <3>3
  <2>4. ASSUME NEW e \in Dispatchers, NEW j \in DOMAIN posts'[e], NEW k \in DOMAIN posts'[e],
               posts'[e][j] = posts'[e][k]
        PROVE  j = k
    <3>1. CASE e # d
      BY <1>8, <2>4, <3>1 DEF SrvInv, PostInv
    <3>2. CASE e = d
      <4>1. \A i \in 1..Len(old) : old[i] # c
        BY <1>6, <1>7, <2>1, <2>2
      <4>2. \A h, i \in 1..Len(old) : old[h] = old[i] => h = i
        BY <1>6, <1>7, <2>2 DEF SrvInv, PostInv
      <4>3. /\ j \in 1..(Len(old) + 1) /\ k \in 1..(Len(old) + 1)
            /\ Append(old, c)[j] = Append(old, c)[k]
        BY <1>8, <2>2, <2>4, <3>2
      <4> QED BY <2>2, <4>1, <4>2, <4>3
    <3> QED BY <3>1, <3>2
  <2> QED BY Zenon, <2>3, <2>4 DEF PostInv
<1>14. MapInv'
  <2>1. ASSUME NEW e \in Dispatchers, NEW k \in 1..MaxConns, NEW b \in Conns
        PROVE  <<k, b>> \in sessions'[e] <=>
                 stage'[b] \in {"live", "closed"} /\ id'[b] = k /\ DispatcherOf(b)' = e
    BY <1>3, <1>4, <1>8, <1>12 DEF SrvInv, MapInv
  <2> QED BY Zenon, <2>1 DEF MapInv
<1> QED BY <1>9, <1>10, <1>11, <1>13, <1>14 DEF SrvInv

\* onPost takes the first of the posts, which is in no other and in no map: the map
\* has nothing under its id.
LEMMA OnPostKeeps ==
  ASSUME SrvInv, NEW d \in Dispatchers, OnPost(d)
  PROVE  SrvInv'
<1> USE ServerAssumption DEF Conns
<1>1. PICK old \in Seq(Conns) : old = posts[d] /\ old # <<>>
  BY DEF SrvInv, SrvTypeOK, OnPost
<1>2. /\ Len(old) \in Nat \ {0} /\ DOMAIN old = 1..Len(old)
      /\ Head(old) = old[1] /\ Tail(old) \in Seq(Conns)
      /\ DOMAIN Tail(old) = 1..(Len(old) - 1)
      /\ \A k \in 1..(Len(old) - 1) : Tail(old)[k] = old[k + 1]
  <2>1. Len(old) \in Nat /\ DOMAIN old = 1..Len(old) /\ Len(old) # 0
    BY <1>1, LenProperties, EmptySeq
  <2>2. Tail(old) \in Seq(Conns) /\ Len(Tail(old)) = Len(old) - 1
    BY Zenon, <1>1, <2>1, HeadTailProperties
  <2>3. \A k \in 1..(Len(old) - 1) : Tail(old)[k] = old[k + 1]
    BY <1>1, <2>1, <2>2, HeadTailProperties
  <2> QED BY <1>1, <2>1, <2>2, <2>3
<1>3. PICK c \in Conns : c = Head(old)
  BY <1>1, <1>2
<1>4. PICK t \in {"live", "failed"} : stage' = [stage EXCEPT ![c] = t]
  BY Zenon, <1>1, <1>3 DEF OnPost
<1>5. \/ t = "live" /\ AddSession(d, c)
      \/ t = "failed" /\ UNCHANGED sessions
  <2>1. \/ stage' = [stage EXCEPT ![c] = "live"] /\ AddSession(d, c)
        \/ stage' = [stage EXCEPT ![c] = "failed"] /\ UNCHANGED sessions
    BY Zenon, <1>1, <1>3 DEF OnPost
  <2> QED BY <1>4, <2>1 DEF SrvInv, SrvTypeOK
<1>6. /\ posts' = [posts EXCEPT ![d] = Tail(old)]
      /\ UNCHANGED <<server, fd, id, owner, generator, seen>>
  BY Zenon, <1>1 DEF OnPost
<1>7. stage[c] = "posted" /\ DispatcherOf(c) = d
  BY <1>1, <1>2, <1>3 DEF SrvInv, PostInv
<1>8. c <= generator /\ id[c] = c
  BY <1>7 DEF SrvInv, IdInv
<1>9. /\ stage'[c] = t /\ \A b \in Conns : b # c => stage'[b] = stage[b]
      /\ posts'[d] = Tail(old) /\ \A e \in Dispatchers : e # d => posts'[e] = posts[e]
      /\ \A b \in Conns : DispatcherOf(b)' = DispatcherOf(b)
  BY <1>4, <1>6 DEF SrvInv, SrvTypeOK, DispatcherOf, SessionDispatcher
<1>10. \A e \in Dispatchers, n \in 1..MaxConns, b \in Conns :
         <<n, b>> \in sessions'[e] <=>
           \/ <<n, b>> \in sessions[e]
           \/ t = "live" /\ e = d /\ n = c /\ b = c
  <2>1. CASE t = "failed"
    BY <1>5, <2>1
  <2>2. CASE t = "live"
    <3>1. sessions' = [sessions EXCEPT ![d] = {p \in sessions[d] : p[1] # c} \cup {<<c, c>>}]
      BY <1>5, <1>8, <2>2 DEF AddSession
    <3>2. ASSUME NEW b \in Conns PROVE <<c, b>> \notin sessions[d]
      <4>1. ASSUME <<c, b>> \in sessions[d] PROVE FALSE
        <5>1. stage[b] \in {"live", "closed"} /\ id[b] = c
          BY <4>1 DEF SrvInv, MapInv
        <5>2. b = c
          BY <1>8, <5>1 DEF SrvInv, IdInv
        <5> QED BY <1>7, <5>1, <5>2
      <4> QED BY <4>1
    <3>3. sessions'[d] = {p \in sessions[d] : p[1] # c} \cup {<<c, c>>}
          /\ \A e \in Dispatchers : e # d => sessions'[e] = sessions[e]
      BY <3>1 DEF SrvInv, SrvTypeOK
    <3> QED BY <2>2, <3>2, <3>3
  <2> QED BY Zenon, <2>1, <2>2
<1>11. SrvTypeOK'
  <2>1. stage' \in [Conns -> Stages]
    BY <1>4 DEF SrvInv, SrvTypeOK, Stages
  <2>2. posts' \in [Dispatchers -> Seq(Conns)]
    BY <1>2, <1>6 DEF SrvInv, SrvTypeOK
  <2>3. sessions' \in [Dispatchers -> SUBSET ((1..MaxConns) \X Conns)]
    <3>1. \A S \in SUBSET ((1..MaxConns) \X Conns) :
            {p \in S : p[1] # id[c]} \cup {<<id[c], c>>} \in SUBSET ((1..MaxConns) \X Conns)
      BY <1>8
    <3>2. CASE UNCHANGED sessions
      BY <3>2 DEF SrvInv, SrvTypeOK
    <3>3. CASE AddSession(d, c)
      <4>1. PICK S : S = {p \in sessions[d] : p[1] # id[c]} \cup {<<id[c], c>>}
        BY Zenon
      <4>2. S \in SUBSET ((1..MaxConns) \X Conns)
        BY Zenon, <3>1, <4>1 DEF SrvInv, SrvTypeOK
      <4>3. sessions' = [sessions EXCEPT ![d] = S]
        BY Zenon, <3>3, <4>1 DEF AddSession
      <4> QED BY Zenon, <4>2, <4>3 DEF SrvInv, SrvTypeOK
    <3> QED BY <1>5, <3>2, <3>3
  <2> QED BY <1>6, <2>1, <2>2, <2>3 DEF SrvInv, SrvTypeOK
<1>12. FdInv'
  <2>1. \A b \in Conns : stage'[b] # "none" => stage[b] # "none"
    BY <1>7, <1>9
  <2>2. \A b \in Conns : stage'[b] \in Known => stage[b] \in Known
    BY <1>7, <1>9 DEF Known
  <2>3. \A f \in Fds : owner[f] # None => owner[f] \in Conns
    BY DEF SrvInv, SrvTypeOK
  <2>4. \A b \in Conns :
          stage[b] \in Known \cup {"failed"} => stage'[b] \in Known \cup {"failed"}
    BY <1>7, <1>9 DEF Known
  <2> QED BY <1>6, <2>1, <2>2, <2>3, <2>4 DEF SrvInv, FdInv
<1>13. IdInv'
  <2>1. \A b \in Conns : stage'[b] = "accepted" <=> stage[b] = "accepted"
    BY <1>7, <1>9
  <2>2. \A b \in Conns :
          stage'[b] \notin {"none", "accepted"} <=> stage[b] \notin {"none", "accepted"}
    BY <1>7, <1>9
  <2> QED BY <1>6, <2>1, <2>2 DEF SrvInv, IdInv
<1>14. PostInv'
  <2>1. ASSUME NEW e \in Dispatchers, NEW k \in DOMAIN posts'[e]
        PROVE  \E j \in DOMAIN posts[e] :
                 /\ posts'[e][k] = posts[e][j] /\ posts[e][j] # c
                 /\ j = (IF e = d THEN k + 1 ELSE k)
    <3>1. CASE e = d
      <4>1. k \in 1..(Len(old) - 1) /\ posts'[e][k] = old[k + 1]
        BY <1>2, <1>9, <3>1
      <4>2. k + 1 \in DOMAIN posts[e] /\ 1 \in DOMAIN posts[e] /\ k + 1 # 1
        BY <1>1, <1>2, <3>1, <4>1
      <4>3. posts[e][k + 1] # posts[e][1]
        BY Zenon, <4>2 DEF SrvInv, PostInv
      <4> QED BY <1>1, <1>2, <1>3, <3>1, <4>1, <4>2, <4>3
    <3>2. CASE e # d
      <4>1. posts'[e] = posts[e] /\ k \in DOMAIN posts[e]
        BY <1>9, <3>2
      <4>2. DispatcherOf(posts[e][k]) = e
        BY <4>1 DEF SrvInv, PostInv
      <4>3. posts[e][k] # c
        BY <1>7, <3>2, <4>2
      <4> QED BY <3>2, <4>1, <4>3
    <3> QED BY <3>1, <3>2
  <2>2. ASSUME NEW e \in Dispatchers, NEW k \in DOMAIN posts'[e]
        PROVE  stage'[posts'[e][k]] = "posted" /\ DispatcherOf(posts[e][k])' = e
    <3>1. PICK j \in DOMAIN posts[e] : posts'[e][k] = posts[e][j] /\ posts[e][j] # c
      BY Zenon, <2>1
    <3>2. PICK b \in Conns : b = posts[e][j]
      BY DEF SrvInv, SrvTypeOK
    <3>3. stage[b] = "posted" /\ DispatcherOf(b) = e /\ b # c
      BY <3>1, <3>2 DEF SrvInv, PostInv
    <3>4. stage'[b] = "posted" /\ DispatcherOf(b)' = e
      BY <1>9, <3>3
    <3> QED BY <3>1, <3>2, <3>4 DEF DispatcherOf, SessionDispatcher
  <2>3. ASSUME NEW e \in Dispatchers, NEW j \in DOMAIN posts'[e], NEW k \in DOMAIN posts'[e],
               posts'[e][j] = posts'[e][k]
        PROVE  j = k
    <3>1. PICK h \in DOMAIN posts[e] :
            posts'[e][j] = posts[e][h] /\ h = (IF e = d THEN j + 1 ELSE j)
      BY Zenon, <2>1
    <3>2. PICK i \in DOMAIN posts[e] :
            posts'[e][k] = posts[e][i] /\ i = (IF e = d THEN k + 1 ELSE k)
      BY Zenon, <2>1
    <3>3. h = i
      BY Zenon, <2>3, <3>1, <3>2 DEF SrvInv, PostInv
    <3>4. CASE e = d
      <4>1. j \in 1..(Len(old) - 1) /\ k \in 1..(Len(old) - 1)
        BY <1>2, <1>9, <3>4
      <4> QED BY <3>1, <3>2, <3>3, <3>4, <4>1
    <3> QED BY <3>1, <3>2, <3>3, <3>4
  <2> QED BY Zenon, <2>2, <2>3 DEF PostInv
<1>15. MapInv'
  <2>1. ASSUME NEW e \in Dispatchers, NEW n \in 1..MaxConns, NEW b \in Conns
        PROVE  <<n, b>> \in sessions'[e] <=>
                 stage'[b] \in {"live", "closed"} /\ id'[b] = n /\ DispatcherOf(b)' = e
    <3>1. <<n, b>> \in sessions[e] <=>
            stage[b] \in {"live", "closed"} /\ id[b] = n /\ DispatcherOf(b) = e
      BY DEF SrvInv, MapInv
    <3>2. CASE b = c
      BY <1>6, <1>7, <1>8, <1>9, <1>10, <3>1, <3>2
    <3>3. CASE b # c
      BY <1>6, <1>9, <1>10, <3>1, <3>3
    <3> QED BY <3>2, <3>3
  <2> QED BY Zenon, <2>1 DEF MapInv
<1> QED BY <1>11, <1>12, <1>13, <1>14, <1>15 DEF SrvInv

\* handleEvent closes the session's own descriptor.
LEMMA HandleEventKeeps ==
  ASSUME SrvInv, NEW c \in Conns, HandleEvent(c)
  PROVE  SrvInv'
<1> USE ServerAssumption DEF Conns
<1>1. /\ stage[c] = "live" /\ stage' = [stage EXCEPT ![c] = "closed"]
      /\ owner' = [owner EXCEPT ![fd[c]] = None]
      /\ UNCHANGED <<server, fd, id, generator, seen, posts, sessions>>
  BY Zenon DEF HandleEvent, CloseFd
<1>2. PICK m \in Fds : m = fd[c] /\ owner[m] = c
  BY Zenon, <1>1 DEF SrvInv, FdInv, Known
<1>3. /\ stage'[c] = "closed" /\ \A b \in Conns : b # c => stage'[b] = stage[b]
      /\ owner'[m] = None /\ \A f \in Fds : f # m => owner'[f] = owner[f]
      /\ \A b \in Conns : DispatcherOf(b)' = DispatcherOf(b)
  BY <1>1, <1>2 DEF SrvInv, SrvTypeOK, DispatcherOf, SessionDispatcher
<1>4. SrvTypeOK'
  BY <1>1, <1>2 DEF SrvInv, SrvTypeOK, Stages
<1>5. FdInv'
  <2>1. \A b \in Conns : stage'[b] # "none" => stage[b] # "none"
    BY <1>1, <1>3
  <2>2. ASSUME NEW b \in Conns, stage'[b] \in Known PROVE owner'[fd'[b]] = b
    <3>1. b # c /\ stage[b] \in Known
      BY <1>3, <2>2 DEF Known
    <3>2. fd[b] \in Fds /\ owner[fd[b]] = b
      BY <3>1 DEF SrvInv, FdInv, Known
    <3> QED BY <1>1, <1>2, <1>3, <3>1, <3>2
  <2>3. ASSUME NEW f \in Fds, owner'[f] # None
        PROVE  stage'[owner'[f]] \in Known \cup {"failed"} /\ fd'[owner'[f]] = f
    <3>1. f # m /\ owner'[f] = owner[f] /\ owner[f] \in Conns
      BY <1>3, <2>3 DEF SrvInv, SrvTypeOK
    <3>2. stage[owner[f]] \in Known \cup {"failed"} /\ fd[owner[f]] = f
      BY <2>3, <3>1 DEF SrvInv, FdInv
    <3>3. owner[f] # c
      BY <1>2, <3>1, <3>2
    <3> QED BY <1>1, <1>3, <3>1, <3>2, <3>3
  <2>4. \A b \in Conns : stage[b] # "none" => fd[b] \in Fds /\ server[b] \in Servers
    BY DEF SrvInv, FdInv
  <2> QED BY Zenon, <1>1, <2>1, <2>2, <2>3, <2>4 DEF FdInv
<1>6. IdInv'
  <2>1. \A b \in Conns : stage'[b] = "accepted" <=> stage[b] = "accepted"
    BY <1>1, <1>3
  <2>2. \A b \in Conns :
          stage'[b] \notin {"none", "accepted"} <=> stage[b] \notin {"none", "accepted"}
    BY <1>1, <1>3
  <2> QED BY <1>1, <2>1, <2>2 DEF SrvInv, IdInv
<1>7. PostInv'
  <2>1. \A b \in Conns : stage[b] = "posted" => stage'[b] = "posted"
    BY <1>1, <1>3
  <2>2. \A d \in Dispatchers : \A n \in DOMAIN posts[d] : posts[d][n] \in Conns
    BY DEF SrvInv, SrvTypeOK
  <2> QED BY <1>1, <1>3, <2>1, <2>2 DEF SrvInv, PostInv, DispatcherOf, SessionDispatcher
<1>8. MapInv'
  <2>1. \A b \in Conns : stage'[b] \in {"live", "closed"} <=> stage[b] \in {"live", "closed"}
    BY <1>1, <1>3
  <2>2. ASSUME NEW d \in Dispatchers, NEW n \in 1..MaxConns, NEW b \in Conns
        PROVE  <<n, b>> \in sessions'[d] <=>
                 stage'[b] \in {"live", "closed"} /\ id'[b] = n /\ DispatcherOf(b)' = d
    BY <1>1, <1>3, <2>1 DEF SrvInv, MapInv
  <2> QED BY Zenon, <2>2 DEF MapInv
<1> QED BY <1>4, <1>5, <1>6, <1>7, <1>8 DEF SrvInv

\* removeSession takes the one session with the id out of the map.
LEMMA RemoveSessionKeeps ==
  ASSUME SrvInv, NEW c \in Conns, RemoveSession(c)
  PROVE  SrvInv'
<1> USE ServerAssumption DEF Conns
<1>1. /\ stage[c] = "closed" /\ stage' = [stage EXCEPT ![c] = "removed"]
      /\ UNCHANGED <<server, fd, id, owner, generator, seen, posts>>
  BY Zenon DEF RemoveSession
<1>2. c <= generator /\ id[c] = c
  BY <1>1 DEF SrvInv, IdInv
<1>3. DispatcherOf(c) \in Dispatchers
  <2>1. server[c] \in Servers
    BY <1>1 DEF SrvInv, FdInv
  <2> QED BY <1>2, <2>1, DispatcherExists DEF DispatcherOf
<1>4. PICK d \in Dispatchers : d = DispatcherOf(c)
  BY <1>3
<1>5. sessions' = [sessions EXCEPT ![d] = {p \in sessions[d] : p[1] # c}]
  BY Zenon, <1>2, <1>4 DEF RemoveSession, Erase
<1>6. /\ stage'[c] = "removed" /\ \A b \in Conns : b # c => stage'[b] = stage[b]
      /\ sessions'[d] = {p \in sessions[d] : p[1] # c}
      /\ \A e \in Dispatchers : e # d => sessions'[e] = sessions[e]
      /\ \A b \in Conns : DispatcherOf(b)' = DispatcherOf(b)
  BY <1>1, <1>5 DEF SrvInv, SrvTypeOK, DispatcherOf, SessionDispatcher
<1>7. SrvTypeOK'
  <2>1. {p \in sessions[d] : p[1] # c} \in SUBSET ((1..MaxConns) \X Conns)
    BY DEF SrvInv, SrvTypeOK
  <2>2. sessions' \in [Dispatchers -> SUBSET ((1..MaxConns) \X Conns)]
    BY Zenon, <1>5, <2>1 DEF SrvInv, SrvTypeOK
  <2> QED BY <1>1, <2>2 DEF SrvInv, SrvTypeOK, Stages
<1>8. FdInv'
  <2>1. \A b \in Conns : stage'[b] # "none" => stage[b] # "none"
    BY <1>1, <1>6
  <2>2. \A b \in Conns : stage'[b] \in Known => stage[b] \in Known
    BY <1>1, <1>6 DEF Known
  <2>3. \A f \in Fds : owner[f] # None => owner[f] \in Conns
    BY DEF SrvInv, SrvTypeOK
  <2>4. \A b \in Conns :
          stage[b] \in Known \cup {"failed"} => stage'[b] \in Known \cup {"failed"}
    BY <1>1, <1>6 DEF Known
  <2> QED BY <1>1, <2>1, <2>2, <2>3, <2>4 DEF SrvInv, FdInv
<1>9. IdInv'
  <2>1. \A b \in Conns : stage'[b] = "accepted" <=> stage[b] = "accepted"
    BY <1>1, <1>6
  <2>2. \A b \in Conns :
          stage'[b] \notin {"none", "accepted"} <=> stage[b] \notin {"none", "accepted"}
    BY <1>1, <1>6
  <2> QED BY <1>1, <2>1, <2>2 DEF SrvInv, IdInv
<1>10. PostInv'
  <2>1. \A b \in Conns : stage[b] = "posted" => stage'[b] = "posted"
    BY <1>1, <1>6
  <2>2. \A e \in Dispatchers : \A n \in DOMAIN posts[e] : posts[e][n] \in Conns
    BY DEF SrvInv, SrvTypeOK
  <2> QED BY <1>1, <1>6, <2>1, <2>2 DEF SrvInv, PostInv, DispatcherOf, SessionDispatcher
<1>11. MapInv'
  <2>1. ASSUME NEW e \in Dispatchers, NEW n \in 1..MaxConns, NEW b \in Conns
        PROVE  <<n, b>> \in sessions'[e] <=>
                 stage'[b] \in {"live", "closed"} /\ id'[b] = n /\ DispatcherOf(b)' = e
    <3>1. <<n, b>> \in sessions[e] <=>
            stage[b] \in {"live", "closed"} /\ id[b] = n /\ DispatcherOf(b) = e
      BY DEF SrvInv, MapInv
    <3>2. <<n, b>> \in sessions'[e] <=> <<n, b>> \in sessions[e] /\ ~(e = d /\ n = c)
      BY <1>6
    <3>3. CASE b = c
      BY <1>1, <1>2, <1>4, <1>6, <3>1, <3>2, <3>3
    <3>4. CASE b # c
      <4>1. id[b] # c
        BY <1>2, <3>4 DEF SrvInv, IdInv
      <4> QED BY <1>1, <1>6, <3>1, <3>2, <3>4, <4>1
    <3> QED BY <3>3, <3>4
  <2> QED BY Zenon, <2>1 DEF MapInv
<1> QED BY <1>7, <1>8, <1>9, <1>10, <1>11 DEF SrvInv

\* The sessions that threads keep were made from connections, which have descriptors.
UseInv ==
  /\ held \in SUBSET Conns /\ uses \in 0..MaxUses
  /\ shutBy \in [Conns -> SUBSET Conns]
  /\ \A c \in held : stage[c] # "none"

\* shutdown of a descriptor hits a connection, or nothing.
LEMMA ShutdownType ==
  ASSUME SrvInv, UseInv, NEW c \in Conns, stage[c] # "none", Shutdown(c)
  PROVE  shutBy' \in [Conns -> SUBSET Conns]
<1>1. owner[fd[c]] \in Conns \cup {None}
  BY DEF SrvInv, SrvTypeOK, FdInv
<1> QED BY <1>1 DEF Shutdown, UseInv

\* Every step of the server keeps its invariant.
LEMMA StepKeepsServer ==
  ASSUME OneServer, SrvInv, DoingInv, UseInv, [Next]_vars
  PROVE  SrvInv' /\ UseInv'
<1> USE ServerAssumption
<1>1. ASSUME UNCHANGED <<stage, server, fd, id, owner, generator, seen, posts, sessions>>
      PROVE  SrvInv'
  BY <1>1 DEF SrvInv, SrvTypeOK, FdInv, IdInv, PostInv, MapInv, DispatcherOf, SessionDispatcher
<1>2. ASSUME UNCHANGED <<held, uses, shutBy>>,
             \A c \in Conns : stage[c] # "none" => stage'[c] # "none"
      PROVE  UseInv'
  BY <1>2 DEF UseInv
<1>3. ASSUME NEW c, NEW t, t # "none", stage' = [stage EXCEPT ![c] = t]
      PROVE  \A b \in Conns : stage[b] # "none" => stage'[b] # "none"
  BY <1>3 DEF SrvInv, SrvTypeOK
<1>4. ASSUME NEW s \in Servers, Accept(s) PROVE SrvInv' /\ UseInv'
  <2>1. /\ UNCHANGED <<held, uses, shutBy>>
        /\ \E c \in Conns : stage' = [stage EXCEPT ![c] = "accepted"]
    BY Zenon, <1>4 DEF Accept
  <2>2. \A b \in Conns : stage[b] # "none" => stage'[b] # "none"
    BY <1>3, <2>1
  <2> QED BY <1>2, <1>4, <2>1, <2>2, AcceptKeeps
<1>5. ASSUME NEW s \in Servers, Dispatch(s) PROVE SrvInv' /\ UseInv'
  <2>1. /\ UNCHANGED <<held, uses, shutBy>>
        /\ \E c \in Conns : stage' = [stage EXCEPT ![c] = "posted"]
    BY Zenon, <1>5 DEF Dispatch
  <2>2. \A b \in Conns : stage[b] # "none" => stage'[b] # "none"
    BY <1>3, <2>1
  <2> QED BY <1>2, <1>5, <2>1, <2>2, DispatchKeeps
<1>6. ASSUME NEW d \in Dispatchers, OnPost(d) PROVE SrvInv' /\ UseInv'
  <2>1. /\ UNCHANGED <<held, uses, shutBy>>
        /\ \E c, t : t # "none" /\ stage' = [stage EXCEPT ![c] = t]
    <3>1. "live" # "none" /\ "failed" # "none"
      OBVIOUS
    <3>2. \/ stage' = [stage EXCEPT ![Head(posts[d])] = "live"]
          \/ stage' = [stage EXCEPT ![Head(posts[d])] = "failed"]
      BY Zenon, <1>6 DEF OnPost
    <3>3. UNCHANGED <<held, uses, shutBy>>
      BY Zenon, <1>6 DEF OnPost
    <3> QED BY Zenon, <3>1, <3>2, <3>3
  <2>2. \A b \in Conns : stage[b] # "none" => stage'[b] # "none"
    BY <1>3, <2>1
  <2> QED BY <1>2, <1>6, <2>1, <2>2, OnPostKeeps
<1>7. ASSUME NEW c \in Conns, HandleEvent(c) PROVE SrvInv' /\ UseInv'
  <2>1. UNCHANGED <<held, uses, shutBy>> /\ stage' = [stage EXCEPT ![c] = "closed"]
    BY Zenon, <1>7 DEF HandleEvent
  <2>2. \A b \in Conns : stage[b] # "none" => stage'[b] # "none"
    BY <1>3, <2>1
  <2> QED BY <1>2, <1>7, <2>1, <2>2, HandleEventKeeps
<1>8. ASSUME NEW c \in Conns, RemoveSession(c) PROVE SrvInv' /\ UseInv'
  <2>1. UNCHANGED <<held, uses, shutBy>> /\ stage' = [stage EXCEPT ![c] = "removed"]
    BY Zenon, <1>8 DEF RemoveSession
  <2>2. \A b \in Conns : stage[b] # "none" => stage'[b] # "none"
    BY <1>3, <2>1
  <2> QED BY <1>2, <1>8, <2>1, <2>2, RemoveSessionKeeps
<1>9. ASSUME UNCHANGED <<srvVars, uses>>, UNCHANGED shutBy \/ \E c \in Conns : stage[c] # "none" /\ Shutdown(c)
      PROVE  SrvInv' /\ UseInv'
  <2>1. UNCHANGED <<stage, server, fd, id, owner, generator, seen, posts, sessions>>
        /\ UNCHANGED <<held, uses>>
    BY Zenon, <1>9 DEF srvVars
  <2>2. shutBy' \in [Conns -> SUBSET Conns]
    BY Zenon, <1>9, ShutdownType DEF UseInv
  <2>3. UseInv'
    BY <2>1, <2>2 DEF UseInv
  <2> QED BY <1>1, <2>1, <2>3
<1>10. ASSUME NEW c \in Conns,
              \/ SendOnRead(c) \/ \E pending \in BOOLEAN : CloseOnRead(c, pending)
              \/ DrainSession(c) \/ SessionWriteCallback(c)
       PROVE  SrvInv' /\ UseInv'
  <2>1. /\ stage[c] = "live" /\ UNCHANGED <<srvVars, uses>>
        /\ UNCHANGED shutBy \/ Shutdown(c)
    BY Zenon, <1>10 DEF SendOnRead, CloseOnRead, DrainSession, SessionWriteCallback
  <2>2. stage[c] # "none"
    BY <2>1
  <2> QED BY Zenon, <1>9, <2>1, <2>2
<1>11. ASSUME NEW c \in Conns, HeldEnds(c) PROVE SrvInv' /\ UseInv'
  <2>1. UNCHANGED <<srvVars, uses>> /\ (UNCHANGED shutBy \/ (doing[c] = "closing" /\ Shutdown(c)))
    BY Zenon, <1>11 DEF HeldEnds, CloseEnd
  <2>2. doing[c] = "closing" => stage[c] # "none"
    BY DEF DoingInv, UseInv, Conns
  <2> QED BY Zenon, <1>9, <2>1, <2>2
<1>12. ASSUME NEW c \in Conns, HeldBegins(c) PROVE SrvInv' /\ UseInv'
  <2>1. UNCHANGED <<stage, server, fd, id, owner, generator, seen, posts, sessions>>
        /\ UNCHANGED <<held, shutBy>> /\ uses < MaxUses /\ uses' = uses + 1
    BY Zenon, <1>12 DEF HeldBegins, srvVars
  <2>2. UseInv'
    BY <2>1 DEF UseInv
  <2> QED BY <1>1, <2>1, <2>2
<1>13. ASSUME NEW d \in Dispatchers, NEW n \in 1..MaxConns, GetSession(d, n)
       PROVE  SrvInv' /\ UseInv'
  <2>1. UNCHANGED <<stage, server, fd, id, owner, generator, seen, posts, sessions, uses, shutBy>>
    BY Zenon, <1>13 DEF GetSession
  <2>2. PICK c \in Conns : <<n, c>> \in sessions[d] /\ held' = held \cup {c}
    BY Zenon, <1>13 DEF GetSession
  <2>3. stage[c] # "none"
    BY <2>2 DEF SrvInv, MapInv
  <2>4. UseInv'
    BY <2>1, <2>2, <2>3 DEF UseInv
  <2> QED BY <1>1, <2>1, <2>4
<1>14. ASSUME UNCHANGED vars PROVE SrvInv' /\ UseInv'
  BY Zenon, <1>9, <1>14 DEF vars
<1> QED
  BY Zenon, <1>4, <1>5, <1>6, <1>7, <1>8, <1>10, <1>11, <1>12, <1>13, <1>14 DEF Next

\* Descriptors, ids and the session maps (listenEventCallback, onPost, handleEvent,
\* addSession, removeSession and getSession): if the process has one server, every
\* known connection has its own open descriptor and getSession finds exactly the
\* sessions, for any number of connections, descriptors and dispatchers.
THEOREM FdCustodyHolds == ASSUME OneServer PROVE Spec => []FdCustody
<1>1. Init => SrvInv /\ UseInv
  <2> SUFFICES ASSUME Init PROVE SrvInv /\ UseInv
    OBVIOUS
  <2> USE ServerAssumption DEF Conns
  <2>1. SrvTypeOK
    BY DEF Init, SrvTypeOK, Stages
  <2>2. FdInv
    BY DEF Init, FdInv, Known
  <2>3. IdInv
    BY DEF Init, IdInv
  <2>4. PostInv
    BY DEF Init, PostInv
  <2>5. MapInv
    BY DEF Init, MapInv
  <2>6. UseInv
    BY DEF Init, UseInv
  <2> QED BY <2>1, <2>2, <2>3, <2>4, <2>5, <2>6 DEF SrvInv
<1>2. SrvInv /\ UseInv /\ DoingInv /\ [Next]_vars => SrvInv' /\ UseInv'
  BY StepKeepsServer
<1>3. SocksInv /\ SrvInv /\ UseInv => FdCustody
  <2> SUFFICES ASSUME SocksInv, SrvInv, UseInv PROVE FdCustody
    OBVIOUS
  <2>1. TypeOK
    BY Zenon DEF SocksInv, SrvInv, SrvTypeOK, UseInv, TypeOK
  <2>2. /\ \A c \in Conns : stage[c] \in {"accepted", "posted", "live"} => owner[fd[c]] = c
        /\ \A f \in Fds : owner[f] # None =>
             stage[owner[f]] \in {"accepted", "posted", "live", "failed"}
    BY DEF SrvInv, FdInv, Known
  <2>3. \A b, c \in Conns : b # c /\ id[b] # 0 /\ id[c] # 0 => id[b] # id[c]
    BY DEF SrvInv, IdInv
  <2> QED BY Zenon, <2>1, <2>2, <2>3 DEF FdCustody, SrvInv, MapInv
<1> QED
  BY <1>1, <1>2, <1>3, SocksInvHolds, PTL DEF Spec
=============================================================================
