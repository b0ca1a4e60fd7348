----------------------------- MODULE HttpServer -----------------------------
(***************************************************************************)
(* ec::HttpServer and HttpRequest (libeventc++11) on libevent's evhttp,    *)
(* and the load generator libev_http_client: connections that ask once and *)
(* count what comes back.  A handler is the list of calls it makes on its  *)
(* request.  Everything on the server runs on its loop's thread.           *)
(***************************************************************************)
EXTENDS Integers, Sequences, SequencesExt, FiniteSets

CONSTANTS
  Conns,         \* connections, one request on each
  Paths,         \* paths that are asked for or have handlers; the client's is ""
  Scripts,       \* handlers: sequences of <<"setHeader", key, value>>, <<"setBody", text>>,
                 \* <<"setChunk", text>>
  BufSize,       \* BUFSIZE of the client
  MaxHandlers    \* bound on calls of regHandler

VARIABLES
  _http, freed,   \* the evhttp is there; the server was destroyed
  _handlers,      \* path -> handler
  regs,           \* the calls of regHandler on a server that listens
  conn,           \* the connections
  chunks_recvd, bytes_recvd, closed   \* counters of the client

httpVars == <<_http, freed, _handlers, regs, conn, chunks_recvd, bytes_recvd, closed>>

\* regs: how many calls of regHandler came before the reply; out: the parts of
\* the reply; got: how many of them have arrived.
NewConn == [state |-> "new", path |-> "", keep |-> FALSE,
            regs |-> 0, out |-> <<>>, headers |-> <<>>, got |-> 0]

HttpInit ==
  /\ _http = FALSE /\ freed = FALSE
  /\ _handlers = [p \in {} |-> <<>>] /\ regs = <<>>
  /\ conn = [c \in Conns |-> NewConn]
  /\ chunks_recvd = 0 /\ bytes_recvd = 0 /\ closed = 0

-----------------------------------------------------------------------------
(* HttpServer.                                                             *)

\* listen succeeds; if evhttp_new or the bind fails, or it listens already,
\* nothing changes.
listen ==
  /\ ~_http /\ ~freed /\ _http' = TRUE
  /\ UNCHANGED <<freed, _handlers, regs, conn, chunks_recvd, bytes_recvd, closed>>

\* Slip: a path that has a handler keeps it.
WithHandlerSlip(p, h) ==
  [q \in DOMAIN _handlers \cup {p} |-> IF q \in DOMAIN _handlers THEN _handlers[q] ELSE h]
WithHandler(p, h) ==
  [q \in DOMAIN _handlers \cup {p} |-> IF q = p THEN h ELSE _handlers[q]]

\* Without an evhttp nothing is registered.
regHandler(p, h) ==
  /\ _http /\ Len(regs) < MaxHandlers
  /\ _handlers' = WithHandler(p, h)
  /\ regs' = Append(regs, <<p, h>>)
  /\ UNCHANGED <<_http, freed, conn, chunks_recvd, bytes_recvd, closed>>

\* ~HttpServer; the connections end with it.
Free ==
  /\ _http /\ _http' = FALSE /\ freed' = TRUE
  /\ UNCHANGED <<_handlers, regs, conn, chunks_recvd, bytes_recvd, closed>>

-----------------------------------------------------------------------------
(* The reply: what libevent has been given to send, the HttpRequest's      *)
(* _buffer and the output headers.                                         *)

NoReply == [out |-> <<>>, started |-> FALSE, buffer |-> <<>>, headers |-> <<>>]

\* evbuffer_add_printf takes the text as a format.
Formatted(text) == IF text = "%%" THEN "%" ELSE text

\* evhttp_send_reply_chunk drains the buffer; an empty one sends nothing, and
\* before the start the bytes go out as they are.
send_reply_chunk(r) ==
  IF r.buffer = <<>> THEN r
  ELSE [r EXCEPT !.out = Append(@, [part |-> IF r.started THEN "chunk" ELSE "raw", data |-> r.buffer]),
                 !.buffer = <<>>]

setHeader(r, k, v) ==
  [r EXCEPT !.headers = Append(SelectSeq(@, LAMBDA h : h[1] # k), <<k, v>>)]
setBody(r, text) == [r EXCEPT !.buffer = Append(@, Formatted(text))]
setChunk(r, text) == send_reply_chunk(setBody(r, text))

RunHandler(script) ==
  FoldLeft(LAMBDA r, call : CASE call[1] = "setHeader" -> setHeader(r, call[2], call[3])
                              [] call[1] = "setBody" -> setBody(r, call[2])
                              [] call[1] = "setChunk" -> setChunk(r, call[2]),
           NoReply, script)

send_reply_start(r, status) ==
  [r EXCEPT !.out = Append(@, [part |-> "start", data |-> <<status>>]), !.started = TRUE]
send_reply_end(r) == [r EXCEPT !.out = Append(@, [part |-> "end", data |-> <<>>])]

\* mainCallback: the handler, the Connection header of the request, the reply.
mainCallback(script, keep) ==
  LET r == RunHandler(script)
      echoed == IF keep THEN [r EXCEPT !.headers = Append(@, <<"Connection", "keep-alive">>)] ELSE r
  IN send_reply_end(send_reply_chunk(send_reply_start(echoed, 200)))

genericCallback == send_reply_end(send_reply_start(NoReply, 404))

\* evhttp calls the handler of the path, or the general one.
Dispatch(c) ==
  /\ conn[c].state = "asked" /\ _http
  /\ LET p == conn[c].path
         r == IF p \in DOMAIN _handlers THEN mainCallback(_handlers[p], conn[c].keep) ELSE genericCallback
     IN conn' = [conn EXCEPT ![c].state = "answered", ![c].regs = Len(regs),
                             ![c].out = r.out, ![c].headers = r.headers]
  /\ UNCHANGED <<_http, freed, _handlers, regs, chunks_recvd, bytes_recvd, closed>>

-----------------------------------------------------------------------------
(* The client.                                                             *)

\* The body of the loop of main, with the path "" and keep-alive; what other
\* programs ask for is not counted.
Counted(c) == IF conn[c].path = "" THEN 1 ELSE 0
Running == \A c \in Conns : conn[c].state # "gone"

\* When evhttp_make_request answers -1 there is no request; the loop goes on.
make_request(c, p, keep) ==
  /\ conn[c].state = "new"
  /\ p = "" => keep /\ Running
  /\ \E state \in {"asked", "failed"} :
       conn' = [conn EXCEPT ![c].state = state, ![c].path = p, ![c].keep = keep]
  /\ UNCHANGED <<_http, freed, _handlers, regs, chunks_recvd, bytes_recvd, closed>>

\* A NULL of evhttp_connection_new is used all the same: the program ends, and its
\* connections with it.
NullConnection(c) ==
  /\ conn[c].state = "new" /\ Running
  /\ conn' = [d \in Conns |->
       IF d = c \/ (conn[d].path = "" /\ conn[d].state \in {"asked", "answered"})
       THEN [conn[d] EXCEPT !.state = "gone"] ELSE conn[d]]
  /\ UNCHANGED <<_http, freed, _handlers, regs, chunks_recvd, bytes_recvd, closed>>

NextPart(c) == conn[c].out[conn[c].got + 1]

\* chunkcb: at most BUFSIZE bytes of the chunk are counted.
chunkcb(c) ==
  /\ conn[c].state = "answered" /\ NextPart(c).part = "chunk"
  /\ conn' = [conn EXCEPT ![c].got = @ + 1]
  /\ chunks_recvd' = chunks_recvd + Counted(c)
  /\ bytes_recvd' = bytes_recvd + Counted(c) * Min({BufSize, Len(NextPart(c).data)})
  /\ UNCHANGED <<_http, freed, _handlers, regs, closed>>

StartArrives(c) ==
  /\ conn[c].state = "answered" /\ NextPart(c).part = "start"
  /\ conn' = [conn EXCEPT ![c].got = @ + 1]
  /\ UNCHANGED <<_http, freed, _handlers, regs, chunks_recvd, bytes_recvd, closed>>

\* reqcb: the reply has ended, is no reply, or the connection is refused, times
\* out or breaks.
reqcb(c) ==
  /\ conn[c].state \in {"asked", "answered"}
  /\ conn' = [conn EXCEPT ![c].state =
       IF @ = "answered" /\ NextPart(c).part = "end" THEN "done" ELSE "broken"]
  /\ closed' = closed + Counted(c)
  /\ UNCHANGED <<_http, freed, _handlers, regs, chunks_recvd, bytes_recvd>>

HttpNext ==
  \/ listen \/ Free \/ \E p \in Paths, h \in Scripts : regHandler(p, h)
  \/ \E c \in Conns : \/ \E p \in Paths, keep \in BOOLEAN : make_request(c, p, keep)
                      \/ NullConnection(c) \/ Dispatch(c) \/ StartArrives(c) \/ chunkcb(c) \/ reqcb(c)

-----------------------------------------------------------------------------
(* Properties.                                                             *)

\* The handler registered last for a path among the first n, if any.
Registered(p, n) ==
  LET mine == SelectSeq(SubSeq(regs, 1, n), LAMBDA r : r[1] = p)
  IN IF mine = <<>> THEN {} ELSE {mine[Len(mine)][2]}

Calls(h, name) == SelectSeq(h, LAMBDA call : call[1] = name)
Plain(h) == Calls(h, "setChunk") = <<>> /\ \A i \in 1..Len(h) : h[i][1] = "setBody" => h[i][2] # "%%"
Body(h) == [i \in 1..Len(Calls(h, "setBody")) |-> Calls(h, "setBody")[i][2]]

\* A request gets one whole reply, by the handler that was registered last for
\* its path when it was dispatched, or 404: first the status, then all that the
\* handler put in the body, then the end; a header of the reply appears once,
\* with the value set last.  This is so of handlers that do not send chunks
\* before the status, nor a text that is a format, and do not set Connection when
\* the request asks to keep the connection.  The client's counters agree: one
\* call of reqcb for a request that was made, however it ends, and one of chunkcb
\* for a chunk.
HttpAnswers ==
  /\ \A c \in Conns : conn[c].state \in {"answered", "done"} =>
       LET H == Registered(conn[c].path, conn[c].regs)
           Start(s) == [part |-> "start", data |-> <<s>>]
           End == [part |-> "end", data |-> <<>>]
       IN /\ H = {} => conn[c].out = <<Start(404), End>>
          /\ \A h \in H : Plain(h) =>
               /\ conn[c].out = (IF Body(h) = <<>> THEN <<Start(200), End>>
                                 ELSE <<Start(200), [part |-> "chunk", data |-> Body(h)], End>>)
               /\ \A i, j \in 1..Len(conn[c].headers) :
                    conn[c].headers[i][1] = conn[c].headers[j][1] =>
                      i = j \/ (conn[c].keep /\ conn[c].headers[i][1] = "Connection")
               /\ \A i \in 1..Len(h) :
                    h[i][1] = "setHeader" /\ (\A j \in (i + 1)..Len(h) : h[j][1] = "setHeader" => h[j][2] # h[i][2])
                      => Contains(conn[c].headers, <<h[i][2], h[i][3]>>)
  /\ LET ours == {c \in Conns : conn[c].path = ""}
         Chunks(c) == Cardinality({i \in 1..conn[c].got : conn[c].out[i].part = "chunk"})
     IN /\ closed = Cardinality({c \in ours : conn[c].state \in {"done", "broken"}})
        /\ chunks_recvd = MapThenSumSet(Chunks, ours)
        /\ bytes_recvd <= chunks_recvd * BufSize
=============================================================================
