----------------------------- MODULE EcTcpSocket -----------------------------
(***************************************************************************)
(* ec::TcpSocket (libeventc++11): send and close on a bufferevent whose    *)
(* output the loop's thread writes to the network, calling back when it is *)
(* empty.  The bufferevent is locked (BEV_OPT_THREADSAFE), so another      *)
(* thread may send and close as well; its steps lie between the calls of   *)
(* libevent and the accesses to _isClosing.  Data is counted in chunks.    *)
(* EcTcpServer says when a socket can be used and what a shutdown hits.    *)
(***************************************************************************)
EXTENDS Integers

CONSTANTS
  Socks,     \* the sockets
  MaxChunks  \* bound on the chunks each sends

ASSUME SocketAssumption == MaxChunks \in Nat

VARIABLES
  sock,   \* the sockets' members, and what was asked of them
  doing   \* what another thread is in the middle of on each socket

sockVars == <<sock, doing>>

\* output: chunks in the output buffer; accepted: chunks for which send returned
\* true; written: chunks written to the network; isClosing: _isClosing; writing:
\* EV_WRITE is enabled; deferred: the write callback is scheduled; closed: closeImpl
\* ran; promised: chunks accepted when close(true) was called, -1 before; forced:
\* close(false) was called; missed: another thread set _isClosing after the last
\* write callback.
Sock ==
  [output : 0..MaxChunks, accepted : 0..MaxChunks, written : 0..MaxChunks,
   isClosing : BOOLEAN, writing : BOOLEAN, deferred : BOOLEAN, closed : BOOLEAN,
   promised : -1..MaxChunks, forced : BOOLEAN, missed : BOOLEAN]

SockTypeOK ==
  /\ sock \in [Socks -> Sock]
  /\ doing \in [Socks -> {"nothing", "sending", "closing", "marking"}]

NewSock ==
  [output |-> 0, accepted |-> 0, written |-> 0,
   isClosing |-> FALSE, writing |-> TRUE, deferred |-> FALSE, closed |-> FALSE,
   promised |-> -1, forced |-> FALSE, missed |-> FALSE]

SockInit ==
  /\ sock = [s \in Socks |-> NewSock]
  /\ doing = [s \in Socks |-> "nothing"]

\* bufferevent_disable for writing
SockDisable(s) == sock' = [sock EXCEPT ![s].writing = FALSE] /\ UNCHANGED doing

\* ~TcpSocket: nothing is left of the bufferevent.
SockDestroy(s) == sock' = [sock EXCEPT ![s] = NewSock] /\ UNCHANGED doing
-----------------------------------------------------------------------------
\* bufferevent_write
Write(s) == sock' = [sock EXCEPT ![s].output = @ + 1, ![s].accepted = @ + 1]

\* The test at the head of send; a chunk it refuses changes nothing.
MaySend(s) == ~sock[s].isClosing /\ sock[s].accepted < MaxChunks

\* send on the loop's thread
Send(s) ==
  /\ MaySend(s)
  /\ Write(s)
  /\ UNCHANGED doing

\* send on another thread: the test, then the write
SendBegin(s) ==
  /\ doing[s] = "nothing"
  /\ MaySend(s)
  /\ doing' = [doing EXCEPT ![s] = "sending"]
  /\ UNCHANGED sock

SendEnd(s) ==
  /\ doing[s] = "sending"
  /\ doing' = [doing EXCEPT ![s] = "nothing"]
  /\ IF sock[s].accepted < MaxChunks THEN Write(s) ELSE UNCHANGED sock
-----------------------------------------------------------------------------
\* closeImpl, up to the shutdown
Closed(r) == [r EXCEPT !.isClosing = FALSE, !.writing = FALSE, !.closed = TRUE]

\* Whether close returns with the closing left to the write callback.
Waits(s, pending) == pending /\ sock[s].output > 0

Asked(r, pending) ==
  [r EXCEPT !.promised = IF pending /\ @ = -1 THEN r.accepted ELSE @,
            !.forced = @ \/ ~pending]

\* close on the loop's thread
Close(s, pending) ==
  /\ sock' = [sock EXCEPT ![s] =
       IF Waits(s, pending) THEN [Asked(@, pending) EXCEPT !.isClosing = TRUE]
                            ELSE Closed(Asked(@, pending))]
  /\ UNCHANGED doing

\* close on another thread: the test, then the mark or the closing
CloseBegin(s, pending) ==
  /\ doing[s] = "nothing"
  /\ sock' = [sock EXCEPT ![s] = Asked(@, pending)]
  /\ doing' = [doing EXCEPT ![s] = IF Waits(s, pending) THEN "marking" ELSE "closing"]

CloseMark(s) ==
  /\ doing[s] = "marking"
  /\ doing' = [doing EXCEPT ![s] = "nothing"]
  /\ sock' = [sock EXCEPT ![s].isClosing = TRUE,
                          ![s].missed = @ \/ (sock[s].output = 0 /\ ~sock[s].deferred)]

CloseEnd(s) ==
  /\ doing[s] = "closing"
  /\ doing' = [doing EXCEPT ![s] = "nothing"]
  /\ sock' = [sock EXCEPT ![s] = Closed(@)]
-----------------------------------------------------------------------------
\* libevent writes a chunk; the last one schedules the write callback.
Drain(s) ==
  /\ sock[s].output > 0 /\ sock[s].writing
  /\ sock' = [sock EXCEPT ![s].output = @ - 1, ![s].written = @ + 1,
                          ![s].deferred = @ \/ sock[s].output = 1]
  /\ UNCHANGED doing

\* writeCallback: checkClosing
CloseNowAnyway(s) == sock[s].isClosing
CloseNow(s) == sock[s].isClosing /\ sock[s].output = 0

WriteCallback(s) ==
  /\ sock[s].deferred
  /\ sock' = [sock EXCEPT ![s] =
       IF CloseNow(s) THEN Closed([@ EXCEPT !.deferred = FALSE])
                      ELSE [@ EXCEPT !.deferred = FALSE]]
  /\ UNCHANGED doing
-----------------------------------------------------------------------------
\* close(true) loses nothing, whichever thread calls it and however sends and
\* callbacks interleave: when closeImpl has run without a close(false) having been
\* called, all that send had accepted before the first close has been written.
CloseWaits ==
  \A s \in Socks : sock[s].closed /\ ~sock[s].forced => sock[s].written >= sock[s].promised
=============================================================================
