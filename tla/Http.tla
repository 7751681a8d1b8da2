-------------------------------- MODULE Http --------------------------------
(***************************************************************************)
(* HTTP messages: rlib/net/proto/rhttp.c.  The header block is a sequence  *)
(* of lines, a value the set of tokens it holds (a Content-Length that is  *)
(* no number holds none); a line without a colon has the name "".  A       *)
(* buffer is a sequence of pieces: a head is two of them, so that it can   *)
(* arrive in two.                                                          *)
(***************************************************************************)
EXTENDS Integers, Sequences, SequencesExt

Line(n, v) == [name |-> n, value |-> v]

Part(id) == [k |-> "part", id |-> id]      \* a head without its last bytes
Headers(m)  == [k |-> "head", m |-> m]        \* ... and those, with CRLF CRLF
Size(n)  == [k |-> "size", n |-> n]        \* a chunk size
CRLF     == [k |-> "crlf"]
Byte(id) == [k |-> "byte", id |-> id]      \* a body byte of message id

\* The matching lines of a header block; malformed lines match no field.
Matching(m, field) == SelectSeq(m.hdr, LAMBDA l : l.name = field)

has_header(m, field) == Matching(m, field) # <<>>
has_header_of_value(m, field, tok) ==
  \E i \in DOMAIN m.hdr : m.hdr[i].name = field /\ tok \in m.hdr[i].value
get_header(m, field) == Matching(m, field)[1].value
add_header(m, field, v) == [m EXCEPT !.hdr = Append(@, Line(field, v))]
remove_header(m, field) == [m EXCEPT !.hdr = SelectSeq(@, LAMBDA l : l.name # field)]
set_header(m, field, v) == add_header(remove_header(m, field), field, v)

request_new(id, method, v11) ==
  [id |-> id, method |-> method, v11 |-> v11, hdr |-> <<Line("Host", {"h"})>>, body |-> <<>>]
response_new(id, status) ==
  [id |-> id, status |-> status, v11 |-> TRUE, hdr |-> <<>>, body |-> <<>>]
set_body_buffer(m, buf) == [m EXCEPT !.body = buf]
get_buffer(m) == <<Part(m.id), Headers([m EXCEPT !.body = <<>>])>> \o m.body

\* r_http_request_parse and r_http_response_parse: a head ends at the first
\* CRLF CRLF; what precedes it must begin with a start line.
HeadEnds(buf) == {i \in DOMAIN buf : buf[i].k = "head"}
new_from_buffer(buf) ==
  LET Fails(e) == [err |-> e]
  IN IF HeadEnds(buf) = {} THEN Fails("BUF_TOO_SMALL")
     ELSE IF 2 \notin HeadEnds(buf) \/ 1 \in HeadEnds(buf) \/ buf[1] # Part(buf[2].m.id)
     THEN Fails("DECODE_ERROR")
     ELSE [err |-> "OK", msg |-> buf[2].m, rest |-> SubSeq(buf, 3, Len(buf))]
\* The request parser hands incomplete input back to the caller ...
request_new_from_buffer(buf) ==
  LET r == new_from_buffer(buf) IN
  CASE r.err = "BUF_TOO_SMALL" -> r @@ [rest |-> buf]
    [] r.err = "OK" /\ ~has_header(r.msg, "Host") -> [err |-> "MISSING_HOST", rest |-> <<>>]
    [] r.err = "OK" -> r
    [] OTHER -> r @@ [rest |-> <<>>]
\* ... the response parser returns a remainder only with a response.
response_new_from_buffer(buf) ==
  LET r == new_from_buffer(buf) IN IF r.err = "OK" THEN r ELSE r @@ [rest |-> <<>>]

is_keepalive(m) ==
  /\ ~has_header_of_value(m, "Connection", "close")
  /\ has_header_of_value(m, "Connection", "keep-alive") \/ m.v11

\* A length, -1 when there is none: a Content-Length that is no number.
Length(m) == LET v == get_header(m, "Content-Length") IN
             IF v = {} THEN -1 ELSE CHOOSE n \in v : TRUE
Chunked(m) == "chunked" \in get_header(m, "Transfer-Encoding")

request_calc_body_size(m) ==
  IF has_header(m, "Transfer-Encoding") THEN IF Chunked(m) THEN -1 ELSE 0
  ELSE IF has_header(m, "Content-Length") /\ Length(m) >= 0 THEN Length(m) ELSE 0

NoBody(m, method) == method = "HEAD" \/ m.status \in 100..199 \cup {204, 304}
response_get_body_parse_type(m, method) ==
  IF NoBody(m, method) THEN "SIZED"
  ELSE IF method = "CONNECT" /\ m.status \in 200..299 THEN "TUNNEL"
  ELSE IF has_header(m, "Transfer-Encoding") THEN IF Chunked(m) THEN "CHUNKED" ELSE "CLOSE"
  ELSE IF has_header(m, "Content-Length") THEN "SIZED" ELSE "CLOSE"
response_calc_body_size(m, method) ==
  IF NoBody(m, method) THEN 0
  ELSE IF response_get_body_parse_type(m, method) = "SIZED" THEN Length(m) ELSE -1

\* r_http_chunked_decode: the body and the number of pieces it took.  One
\* CRLF is one piece.
RECURSIVE Chunks(_, _, _)
\* The empty line that ends the trailers: a CRLF right after a CRLF.
Trailers(buf, p) ==
  {i \in p..Len(buf) : buf[i] = CRLF /\ buf[i - 1] = CRLF}
Chunks(buf, p, body) ==
  LET eol == SelectInSubSeq(buf, p, Len(buf), LAMBDA t : t = CRLF) IN
  IF eol = 0 THEN [err |-> "BUF_TOO_SMALL"]
  ELSE IF buf[p].k # "size" THEN [err |-> "DECODE_ERROR"]
  ELSE LET n == buf[p].n IN
  IF n = 0
  THEN LET ends == Trailers(buf, eol + 1) IN
       IF ends = {} THEN [err |-> "BUF_TOO_SMALL"]
       ELSE [err |-> "OK", body |-> body, used |-> CHOOSE i \in ends : \A j \in ends : i <= j]
  ELSE IF Len(buf) - eol < n + 1 THEN [err |-> "BUF_TOO_SMALL"]
  ELSE IF buf[eol + n + 1] # CRLF THEN [err |-> "DECODE_ERROR"]
  ELSE Chunks(buf, eol + n + 2, body \o SubSeq(buf, eol + 1, eol + n))
chunked_decode(buf) == Chunks(buf, 1, <<>>)

-----------------------------------------------------------------------------
(***************************************************************************)
(* The HTTP client of rlib/net/rhttpclient.c as functions of its state C:  *)
(*   req    the requests: parser state, connection, outcome                *)
(*   conn   the connections made so far                                    *)
(*   idle   the pool, a pointer array                                      *)
(*   reqs   the requests under way                                         *)
(*   jobs   the deferred closes in the callback queue of the loop          *)
(*   c2s    what each connection has sent                                  *)
(* and its settings: keepalive, timeout (an idle timeout is set), verify   *)
(* (insecure, or a trust store that accepts the server), route (a connect  *)
(* does not fail at once), resolver (it finds the name), then (the request *)
(* the callback of a request starts, 0 for none).                          *)
(***************************************************************************)
EOF == [k |-> "eof"]
RST == [k |-> "rst"]          \* the socket reports an error
HELLO == [k |-> "hello"]      \* the TLS handshake of one side
BYE == [k |-> "bye"]          \* close_notify
Record(buf) == [k |-> "rec", buf |-> buf]

HEADER_MAX == 6               \* R_HTTP_CLIENT_MAX_HEADER, in pieces

\* r_ptr_array_remove_first_fast: the last element takes the slot.
remove_fast(s, x) ==
  IF ~Contains(s, x) THEN s
  ELSE LET i == SelectInSeq(s, LAMBDA y : y = x) IN
       SubSeq([s EXCEPT ![i] = Last(s)], 1, Len(s) - 1)

req_ctx_new(m, tls) ==
  [msg |-> m, conn |-> 0, inbuf |-> <<>>, res |-> <<>>, body |-> <<>>, size |-> 0, consumed |-> 0,
   type |-> "SIZED", tls |-> tls, reused |-> FALSE, retried |-> FALSE, finished |-> FALSE,
   result |-> "none", via |-> <<>>]
conn_new(C, id) ==
  [C EXCEPT !.conn = Append(@, [tls |-> C.req[id].tls, req |-> id, timer |-> FALSE, recving |-> FALSE,
                                closing |-> FALSE, io |-> "connecting"]),
            !.c2s = Append(@, <<>>), !.req[id].conn = Len(C.conn) + 1]

Put(C, c, buf) == IF C.conn[c].io = "up" THEN [C EXCEPT !.c2s[c] = @ \o buf] ELSE C
tcp_abort(C, c) == [Put(C, c, <<EOF>>) EXCEPT !.conn[c].io = "closed"]

conn_close(C, c, defer) ==
  IF C.conn[c].closing THEN C
  ELSE LET C1 == [C EXCEPT !.conn[c].closing = TRUE, !.conn[c].timer = FALSE] IN
       IF defer THEN [C1 EXCEPT !.jobs = Append(@, c)] ELSE tcp_abort(C1, c)
conn_do_close(C) == [tcp_abort(C, C.jobs[1]) EXCEPT !.jobs = Tail(@)]
conn_evict_stays(C, c) == conn_close(C, c, TRUE)
conn_evict(C, c) ==
  IF C.conn[c].closing THEN C
  ELSE [conn_close(C, c, TRUE) EXCEPT !.idle = remove_fast(@, c)]
conn_idle_timeout(C, c) == conn_evict([C EXCEPT !.conn[c].timer = FALSE], c)

\* The connection to reuse (0 for none) and the state once it left the pool;
\* a pooled connection whose socket was closed is evicted on the way.
RECURSIVE pool_acquire(_, _, _)
pool_acquire(C, tls, i) ==
  IF i > Len(C.idle) THEN [C |-> C, c |-> 0]
  ELSE LET c == C.idle[i] IN
  IF C.conn[c].closing \/ C.conn[c].tls # tls THEN pool_acquire(C, tls, i + 1)
  ELSE IF C.conn[c].io = "closed" THEN pool_acquire(conn_evict(C, c), tls, i)
  ELSE [c |-> c, C |-> [C EXCEPT !.conn[c].timer = FALSE, !.idle = remove_fast(@, c)]]

req_reusable(r, C) ==
  /\ C.keepalive /\ ~C.conn[r.conn].closing
  /\ r.res # <<>> /\ r.type \in {"SIZED", "CHUNKED"}
  /\ is_keepalive(r.res[1]) /\ is_keepalive(r.msg)
  /\ Len(r.inbuf) = IF r.type = "CHUNKED" THEN r.consumed ELSE IF r.size > 0 THEN r.size ELSE 0

\* What becomes of the connection of a request that is done with it.
Detach(C, id, park, defer) ==
  LET c == C.req[id].conn
      C1 == [C EXCEPT !.req[id].conn = 0, !.conn[c].req = 0]
  IN IF c = 0 THEN C
     ELSE IF park THEN [C1 EXCEPT !.conn[c].timer = C.timeout, !.idle = Append(@, c)]
     ELSE conn_close(C1, c, defer)

\* The callback of a request may start another one, before the connection is
\* detached.
RECURSIVE request_to_addr(_, _, _)
Finished(C, id, result) ==
  [C EXCEPT !.req[id].finished = TRUE, !.req[id].result = result]
Completed(C, id, r, defer) ==
  [Detach(C, id, r.result = "OK" /\ r.conn # 0 /\ req_reusable(r, C), defer)
     EXCEPT !.reqs = @ \ {id}]
CompletedIn(C, id, defer) == Completed(C, id, C.req[id], defer)
Complete(C, id, result, defer) ==
  CompletedIn(IF C.then[id] = 0 THEN Finished(C, id, result)
              ELSE request_to_addr(Finished(C, id, result), C.then[id], FALSE),
              id, defer)
req_complete(C, id, result, defer) ==
  IF C.req[id].finished THEN C ELSE Complete(C, id, result, defer)

req_connect(C, id, defer) ==
  LET C1 == conn_new([C EXCEPT !.req[id].reused = FALSE], id) IN
  IF C.route THEN C1 ELSE req_complete(C1, id, "CONNECT_FAILED", defer)

req_fail(C, id, result, defer) ==
  IF C.req[id].finished THEN C
  ELSE IF C.req[id].reused /\ ~C.req[id].retried /\ C.req[id].res = <<>>
  THEN req_connect([Detach(C, id, FALSE, defer) EXCEPT !.req[id].retried = TRUE, !.req[id].inbuf = <<>>],
                   id, defer)
  ELSE req_complete(C, id, result, defer)

req_send(C, id) ==
  LET m == C.req[id].msg
      c == C.req[id].conn
      m2 == IF C.keepalive /\ ~has_header(m, "Connection")
            THEN add_header(m, "Connection", {"keep-alive"}) ELSE m
      wire == IF C.conn[c].tls THEN <<Record(get_buffer(m2))>> ELSE get_buffer(m2)
  IN [Put(C, c, wire) EXCEPT !.req[id].msg = m2, !.req[id].via = Append(@, c), !.conn[c].recving = TRUE]

req_dispatch(C, id, defer) ==
  LET a == pool_acquire(C, C.req[id].tls, 1) IN
  IF a.c = 0 THEN req_connect(a.C, id, defer)
  ELSE req_send([a.C EXCEPT !.req[id].conn = a.c, !.req[id].reused = TRUE, !.conn[a.c].req = id], id)
request_to_addr(C, id, defer) == req_dispatch([C EXCEPT !.reqs = @ \cup {id}], id, defer)

\* r_http_client_request: the address comes from the resolver, later.
request(C, id) == [C EXCEPT !.reqs = @ \cup {id}]
req_resolved(C, id) ==
  IF C.resolver THEN req_dispatch(C, id, TRUE) ELSE req_complete(C, id, "RESOLVE_FAILED", TRUE)

\* The body of a response whose head is parsed.
BodyDone(C, id, n, b) ==
  req_complete([C EXCEPT !.req[id].consumed = n, !.req[id].body = b], id, "OK", TRUE)
Dechunked(C, id, d) ==
  IF d.err = "OK" THEN BodyDone(C, id, d.used, d.body)
  ELSE IF d.err = "BUF_TOO_SMALL" THEN C
  ELSE req_complete(C, id, "PARSE_FAILED", TRUE)
Body_short(C, id) ==
  LET r == C.req[id]
      n == IF Len(r.inbuf) < r.size THEN Len(r.inbuf) ELSE r.size
  IN CASE r.type = "SIZED" /\ r.size <= 0 -> BodyDone(C, id, 0, <<>>)
       [] r.type = "SIZED" /\ r.size > 0 ->
            IF Len(r.inbuf) >= r.size - 1 THEN BodyDone(C, id, 0, SubSeq(r.inbuf, 1, n)) ELSE C
       [] r.type = "CLOSE" -> C
       [] r.type = "CHUNKED" -> Dechunked(C, id, chunked_decode(r.inbuf))
       [] OTHER -> req_complete(C, id, "PARSE_FAILED", TRUE)
Body(C, id) ==
  LET r == C.req[id]
  IN CASE r.type = "SIZED" /\ r.size <= 0 -> BodyDone(C, id, 0, <<>>)
       [] r.type = "SIZED" /\ r.size > 0 ->
            IF Len(r.inbuf) >= r.size THEN BodyDone(C, id, 0, SubSeq(r.inbuf, 1, r.size)) ELSE C
       [] r.type = "CLOSE" -> C
       [] r.type = "CHUNKED" -> Dechunked(C, id, chunked_decode(r.inbuf))
       [] OTHER -> req_complete(C, id, "PARSE_FAILED", TRUE)

req_recv_data(C, id, buf) ==
  LET r == C.req[id]
      in == r.inbuf \o buf
      p == response_new_from_buffer(in)
  IN IF buf = <<EOF>>
     THEN IF r.res # <<>> /\ r.type = "CLOSE"
          THEN req_complete([C EXCEPT !.req[id].body = r.inbuf], id, "OK", TRUE)
          ELSE req_fail(C, id, "RECV_FAILED", TRUE)
     ELSE IF r.res # <<>> THEN Body([C EXCEPT !.req[id].inbuf = in], id)
     ELSE IF p.err = "OK"
     THEN Body([C EXCEPT !.req[id].inbuf = p.rest, !.req[id].res = <<p.msg>>,
                         !.req[id].size = response_calc_body_size(p.msg, r.msg.method),
                         !.req[id].type = response_get_body_parse_type(p.msg, r.msg.method)], id)
     ELSE IF p.err = "BUF_TOO_SMALL" /\ Len(in) <= HEADER_MAX
     THEN [C EXCEPT !.req[id].inbuf = p.rest]
     ELSE req_complete([C EXCEPT !.req[id].inbuf = p.rest], id, "PARSE_FAILED", TRUE)

conn_deliver(C, c, buf) ==
  IF C.conn[c].req = 0 \/ C.req[C.conn[c].req].finished THEN conn_evict(C, c)
  ELSE req_recv_data(C, C.conn[c].req, buf)

tls_handshake_done(C, c) == IF C.conn[c].req = 0 THEN C ELSE req_send(C, C.conn[c].req)
tls_error(C, c) == IF C.conn[c].req = 0 THEN conn_evict(C, c)
                   ELSE req_fail(C, C.conn[c].req, "TLS_FAILED", TRUE)
\* r_tls_client_incoming_data calls back once for each record.
conn_recv(C, c, buf) ==
  IF ~C.conn[c].tls \/ buf = <<EOF>> THEN conn_deliver(C, c, buf)
  ELSE CASE buf[1] = HELLO -> IF C.verify THEN tls_handshake_done(C, c) ELSE tls_error(C, c)
         [] buf[1] = BYE -> conn_deliver(C, c, <<EOF>>)
         [] OTHER -> conn_deliver(C, c, buf[1].buf)
conn_error(C, c) == IF C.conn[c].req = 0 THEN conn_evict(C, c)
                    ELSE req_fail(C, C.conn[c].req, "RECV_FAILED", TRUE)
conn_connected(C, c, ok) ==
  LET C1 == [C EXCEPT !.conn[c].io = IF ok THEN "up" ELSE "closed"] IN
  IF C.conn[c].req = 0 THEN C1
  ELSE IF ~ok THEN req_fail(C1, C.conn[c].req, "CONNECT_FAILED", TRUE)
  ELSE IF C.conn[c].tls THEN Put([C1 EXCEPT !.conn[c].recving = TRUE], c, <<HELLO>>)
  ELSE req_send(C1, C.conn[c].req)

-----------------------------------------------------------------------------
(***************************************************************************)
(* The HTTP server of rlib/net/rhttpserver.c as functions of its state S:  *)
(*   ctx    a context for each accepted connection                         *)
(*   jobs   the callback queue of the loop: deferred handlers, and sends   *)
(*   s2c    what each connection has sent                                  *)
(*   listen whether it listens; answer, the response a handler makes of a  *)
(*          request (<<>>: no handler, or one that returns NULL)           *)
(*   log    the requests handlers were called with                         *)
(* and of the send queue below it, r_ev_tcp_send and r_ev_tcp_close, which *)
(* the module EvTCP models.                                                *)
(***************************************************************************)
SERVER_HEADER_MAX == 6        \* 64 KiB, in pieces

client_ctx_new(tls) ==
  [req |-> <<>>, size |-> 0, inbuf |-> <<>>, keepalive |-> FALSE, tls |-> tls, secure |-> FALSE,
   listed |-> TRUE, closing |-> FALSE, closed |-> FALSE, qsend |-> <<>>]
tcp_connection_ready(S, c, tls) ==
  [S EXCEPT !.ctx = @ @@ (c :> client_ctx_new(tls)), !.s2c = @ @@ (c :> <<>>)]

tcp_send(S, c, buf, last) ==
  IF S.ctx[c].closing \/ S.ctx[c].closed THEN S
  ELSE [S EXCEPT !.ctx[c].qsend = Append(@, [buf |-> buf, last |-> last]),
                 !.jobs = IF S.ctx[c].qsend = <<>> THEN Append(@, [k |-> "send", c |-> c]) ELSE @]
Fin(S, c) == [S EXCEPT !.ctx[c].closed = TRUE, !.s2c[c] = Append(@, EOF)]
client_ctx_close(S, c) ==
  LET x == S.ctx[c]
      S1 == [S EXCEPT !.ctx[c].listed = FALSE]
  IN IF x.closed \/ x.closing THEN S1
     ELSE IF x.qsend = <<>> THEN Fin(S1, c)
     ELSE [S1 EXCEPT !.ctx[c].closing = TRUE]

\* r_ev_tcp_send_iocb: the queue goes out, the sent callback of a response
\* that ends its connection closes it.
RECURSIVE send_iocb(_, _)
send_iocb(S, c) ==
  IF S.ctx[c].closed THEN S
  ELSE IF S.ctx[c].qsend = <<>> THEN IF S.ctx[c].closing THEN Fin(S, c) ELSE S
  ELSE LET h == S.ctx[c].qsend[1]
           S1 == [S EXCEPT !.ctx[c].qsend = Tail(@), !.s2c[c] = @ \o h.buf]
       IN send_iocb(IF h.last THEN client_ctx_close(S1, c) ELSE S1, c)

Respond(S, c, res) ==
  IF S.ctx[c].tls
  THEN LET S1 == IF S.ctx[c].secure THEN tcp_send(S, c, <<Record(get_buffer(res))>>, FALSE) ELSE S IN
       IF S.ctx[c].keepalive THEN S1
       ELSE client_ctx_close(tcp_send([S1 EXCEPT !.ctx[c].secure = FALSE], c, <<BYE>>, FALSE), c)
  ELSE tcp_send(S, c, get_buffer(res), ~S.ctx[c].keepalive)
\* A response on a persistent connection is given a length.
tcp_response_ready(S, c, res) ==
  LET framed == has_header(res, "Content-Length") \/ has_header(res, "Transfer-Encoding") IN
  Respond(S, c, IF S.ctx[c].keepalive /\ ~framed
                                THEN set_header(res, "Content-Length", {Len(res.body)}) ELSE res)

\* r_http_server_process_request_full: the handler runs from the loop.
client_ctx_process(S, c) ==
  [S EXCEPT !.jobs = Append(@, [k |-> "handler", c |-> c, m |-> S.ctx[c].req[1]]), !.ctx[c].req = <<>>]
request_handler(S, c, m) ==
  LET a == S.answer[m.id]
      res == IF a # <<>> THEN a[1] ELSE response_new(m.id, 404)
  IN tcp_response_ready([S EXCEPT !.log = Append(@, m.id)], c, res)
Run(S) ==
  LET j == S.jobs[1]
      S1 == [S EXCEPT !.jobs = Tail(@)]
  IN IF j.k = "send" THEN send_iocb(S1, j.c) ELSE request_handler(S1, j.c, j.m)

ErrorAndClose(S, c, status) ==
  tcp_response_ready([S EXCEPT !.ctx[c].keepalive = FALSE], c, response_new(0, status))

\* The loop of r_http_client_ctx_tcp_recv: heads, then the body each asks for.
RECURSIVE Parse(_, _)
ProcessBody(S, c) ==
  LET x == S.ctx[c]
      m == set_body_buffer(x.req[1], SubSeq(x.inbuf, 1, x.size))
      S1 == client_ctx_process([S EXCEPT !.ctx[c].req = <<m>>,
                                         !.ctx[c].inbuf = SubSeq(@, x.size + 1, Len(@))], c)
  IN IF x.size < 0 THEN ErrorAndClose(S, c, 501)
     ELSE IF Len(x.inbuf) < x.size THEN S
     ELSE IF S1.ctx[c].inbuf # <<>> THEN Parse(S1, c) ELSE S1
Parse(S, c) ==
  LET x == S.ctx[c]
      p == request_new_from_buffer(x.inbuf)
  IN IF x.req # <<>> THEN ProcessBody(S, c)
     ELSE IF p.err = "OK"
     THEN ProcessBody([S EXCEPT !.ctx[c].req = <<p.msg>>, !.ctx[c].inbuf = p.rest,
                                !.ctx[c].size = request_calc_body_size(p.msg),
                                !.ctx[c].keepalive = is_keepalive(p.msg)], c)
     ELSE IF p.err = "BUF_TOO_SMALL"
     THEN IF Len(x.inbuf) > SERVER_HEADER_MAX THEN ErrorAndClose(S, c, 431) ELSE S
     ELSE [ErrorAndClose(S, c, 400) EXCEPT !.ctx[c].inbuf = p.rest]

tcp_recv(S, c, buf) ==
  IF buf # <<EOF>> THEN Parse([S EXCEPT !.ctx[c].inbuf = @ \o buf], c)
  ELSE LET S1 == [S EXCEPT !.ctx[c].keepalive = FALSE] IN
       IF S.ctx[c].req # <<>> THEN client_ctx_process(S1, c) ELSE client_ctx_close(S1, c)
tls_recv(S, c, buf) ==
  CASE buf = <<EOF>> -> client_ctx_close(S, c)
    [] buf[1] = HELLO -> tcp_send([S EXCEPT !.ctx[c].secure = TRUE], c, <<HELLO>>, FALSE)
    [] OTHER -> tcp_recv(S, c, buf[1].buf)
Receive(S, c, buf) == IF S.ctx[c].tls THEN tls_recv(S, c, buf) ELSE tcp_recv(S, c, buf)

\* r_http_server_stop aborts every connection in the clients array; a peer
\* sees the end of the stream, or an error that discards what was under way.
close_client_ctx(x) == IF x.closed \/ ~x.listed THEN x
                       ELSE [x EXCEPT !.closed = TRUE, !.listed = FALSE, !.qsend = <<>>]
stop(S, sign) ==
  [S EXCEPT !.listen = FALSE, !.ctx = [c \in DOMAIN @ |-> close_client_ctx(@[c])],
            !.s2c = [c \in DOMAIN @ |-> IF S.ctx[c].closed \/ ~S.ctx[c].listed THEN @[c]
                                        ELSE IF sign = RST THEN <<RST>> ELSE Append(@[c], sign)]]
do_listen(S) == [S EXCEPT !.listen = TRUE]

-----------------------------------------------------------------------------
(***************************************************************************)
(* The HTTP client and the HTTP server connected: a program starts         *)
(* requests, TCP delivers what one end sent to the other in pieces of any  *)
(* size, both loops run their callbacks, the idle timer of a pooled        *)
(* connection may fire at any time, and the server may stop and listen     *)
(* again.  A plan fixes the requests, the answers of the handlers and the  *)
(* settings.  In some plans connection 1 belongs to another client, which  *)
(* sends its requests at once (plan.raw).                                  *)
(***************************************************************************)
CONSTANTS Plans,    \* the plans
          SPLIT     \* TCP may deliver a head in two pieces to the client

VARIABLES plan, cl, sv, started, stops
vars == <<plan, cl, sv, started, stops>>

Ids == DOMAIN plan.req

Init ==
  /\ plan \in Plans
  /\ LET raw == plan.raw # <<>> IN
     /\ cl = [req |-> plan.req, reqs |-> {}, idle |-> <<>>, jobs |-> <<>>,
              conn |-> IF raw THEN <<[tls |-> FALSE, req |-> 0, timer |-> FALSE, recving |-> FALSE,
                                      closing |-> FALSE, io |-> "raw"]>> ELSE <<>>,
              c2s |-> IF raw THEN <<plan.raw>> ELSE <<>>,
              keepalive |-> plan.keepalive, timeout |-> plan.timeout, verify |-> plan.verify,
              route |-> plan.route, resolver |-> plan.resolver, then |-> plan.then]
     /\ sv = [ctx |-> IF raw THEN 1 :> client_ctx_new(FALSE) ELSE <<>>, jobs |-> <<>>,
              s2c |-> IF raw THEN 1 :> <<>> ELSE <<>>, listen |-> TRUE,
              answer |-> plan.answer, log |-> <<>>]
  /\ started = {} /\ stops = 0

\* The program calls r_http_client_request or r_http_client_request_to_addr.
Start(id) ==
  /\ id \notin started /\ id \notin {plan.then[i] : i \in Ids}
  /\ started' = started \cup {id}
  /\ cl' = IF plan.resolve THEN request(cl, id) ELSE request_to_addr(cl, id, FALSE)
  /\ UNCHANGED <<plan, sv, stops>>
Resolved(id) ==
  /\ plan.resolve /\ id \in started \cap cl.reqs
  /\ cl.req[id].conn = 0 /\ cl.req[id].via = <<>>
  /\ cl' = req_resolved(cl, id)
  /\ UNCHANGED <<plan, sv, started, stops>>

Connect(c) ==
  /\ cl.conn[c].io = "connecting"
  /\ sv' = IF sv.listen THEN tcp_connection_ready(sv, c, cl.conn[c].tls) ELSE sv
  /\ cl' = conn_connected(cl, c, sv.listen)
  /\ UNCHANGED <<plan, started, stops>>

\* TCP delivers n pieces of a stream; the end of a stream, an error and a TLS
\* record are delivered alone.
Alone(t) == t.k \in {"eof", "rst", "rec", "hello", "bye"}
Deliverable(s, n) == n = 1 \/ \A i \in 1..n : ~Alone(s[i])
Splits(s, n) == s[n].k = "part"

ClientRecv(c, n) ==
  /\ cl.conn[c].io = "up" /\ cl.conn[c].recving
  /\ LET s == sv.s2c[c] IN
     /\ n <= Len(s) /\ Deliverable(s, n) /\ (Splits(s, n) => SPLIT)
     /\ sv' = [sv EXCEPT !.s2c[c] = SubSeq(s, n + 1, Len(s))]
     /\ cl' = IF s[1] = RST THEN conn_error(cl, c) ELSE conn_recv(cl, c, SubSeq(s, 1, n))
  /\ UNCHANGED <<plan, started, stops>>
ClientJob == cl.jobs # <<>> /\ cl' = conn_do_close(cl) /\ UNCHANGED <<plan, sv, started, stops>>
IdleTimeout(c) ==
  /\ cl.conn[c].timer
  /\ cl' = conn_idle_timeout(cl, c)
  /\ UNCHANGED <<plan, sv, started, stops>>

ServerRecv(c, n) ==
  /\ ~sv.ctx[c].closed /\ ~sv.ctx[c].closing
  /\ LET s == cl.c2s[c] IN
     /\ n <= Len(s) /\ Deliverable(s, n)
     /\ cl' = [cl EXCEPT !.c2s[c] = SubSeq(s, n + 1, Len(s))]
     /\ sv' = Receive(sv, c, SubSeq(s, 1, n))
  /\ UNCHANGED <<plan, started, stops>>
ServerJob == sv.jobs # <<>> /\ sv' = Run(sv) /\ UNCHANGED <<plan, cl, started, stops>>
Stop(sign) ==
  /\ stops < plan.stops /\ sv.listen
  /\ sv' = stop(sv, sign) /\ stops' = stops + 1
  /\ UNCHANGED <<plan, cl, started>>
Listen == ~sv.listen /\ sv' = do_listen(sv) /\ UNCHANGED <<plan, cl, started, stops>>

Next ==
  \/ \E id \in Ids : Start(id)
  \/ \E id \in Ids : Resolved(id)
  \/ \E c \in DOMAIN cl.conn : Connect(c)
  \/ \E c \in DOMAIN sv.s2c : \E n \in 1..Len(sv.s2c[c]) : ClientRecv(c, n)
  \/ ClientJob
  \/ \E c \in DOMAIN cl.conn : IdleTimeout(c)
  \/ \E c \in DOMAIN sv.ctx : \E n \in 1..Len(cl.c2s[c]) : ServerRecv(c, n)
  \/ ServerJob
  \/ \E sign \in {EOF, RST} : Stop(sign)
  \/ Listen
Spec == Init /\ [][Next]_vars

-----------------------------------------------------------------------------
(***************************************************************************)
(* Instances of Http: two requests of a program, and the pipelined         *)
(* requests of another client.                                             *)
(***************************************************************************)
Close == Line("Connection", {"close"})
CL(n) == Line("Content-Length", {n})
Chunked_ == Line("Transfer-Encoding", {"chunked"})
ChunkedBody(id) == <<Size(1), CRLF, Byte(id), CRLF, Size(0), CRLF, CRLF>>

Get(id)   == request_new(id, "GET", TRUE)
Old(id)   == request_new(id, "GET", FALSE)
Probe(id) == request_new(id, "HEAD", TRUE)
Last_(id) == [Get(id) EXCEPT !.hdr = Append(@, Close)]
Post(id)  == [request_new(id, "POST", TRUE) EXCEPT !.hdr = Append(@, CL(1)), !.body = <<Byte(id)>>]
Upload(id) == [Post(id) EXCEPT !.hdr = <<Line("Host", {"h"}), Chunked_>>, !.body = ChunkedBody(id)]
Hostless(id) == [Get(id) EXCEPT !.hdr = <<Line("", {})>>]

Ok(id, hdr, body) == [response_new(id, 200) EXCEPT !.hdr = hdr, !.body = body]
Sized(id)  == <<Ok(id, <<CL(2)>>, <<Byte(id), Byte(id)>>)>>
Chunky(id) == <<Ok(id, <<Chunked_>>, ChunkedBody(id))>>
Bare(id)   == <<Ok(id, <<>>, <<Byte(id)>>)>>
Ending(id) == <<Ok(id, <<CL(1), Close>>, <<Byte(id)>>)>>
Gone(id)   == <<response_new(id, 204)>>
\* The answer to HEAD has the length of the body it does not carry.
ToHead(id) == <<Ok(id, <<CL(2)>>, <<>>)>>
Missing(id) == <<>>

Default ==
  [req |-> <<req_ctx_new(Get(1), FALSE), req_ctx_new(Get(2), FALSE)>>,
   answer |-> <<Sized(1), Sized(2)>>, then |-> <<0, 0>>, raw |-> <<>>, keepalive |-> TRUE,
   timeout |-> TRUE, verify |-> TRUE, route |-> TRUE, resolver |-> TRUE, resolve |-> FALSE, stops |-> 0]

\* One after the other or at once, the first of any shape.
Pairs ==
  {[Default EXCEPT !.req[1].msg = q, !.answer[1] = a] :
     q \in {Get(1), Old(1), Last_(1), Post(1)}, a \in {Sized(1), Chunky(1), Bare(1), Ending(1), Gone(1), Missing(1)}}
  \cup {[Default EXCEPT !.req[1].msg = Probe(1), !.answer[1] = ToHead(1)],
        [Default EXCEPT !.req[1].msg = Upload(1)], [Default EXCEPT !.req[1].msg = Hostless(1)]}
\* Settings and failures; the callback of request 1 may start request 2.
Settings ==
  {[Default EXCEPT !.then = t, !.stops = n, !.req[1].tls = tls, !.req[2].tls = tls, !.resolve = r,
                   !.answer[1] = a] :
     t \in {<<0, 0>>, <<2, 0>>}, n \in 0..1, tls \in BOOLEAN, r \in BOOLEAN, a \in {Sized(1), Chunky(1)}}
  \cup {[Default EXCEPT !.keepalive = FALSE], [Default EXCEPT !.timeout = FALSE],
        [Default EXCEPT !.route = FALSE, !.then = <<2, 0>>],
        [Default EXCEPT !.resolver = FALSE, !.resolve = TRUE],
        [Default EXCEPT !.verify = FALSE, !.req[1].tls = TRUE, !.then = <<2, 0>>]}
\* Another client pipelines two requests, or sends what is no request.
Wire(m) == get_buffer(m)
Raws ==
  {[Default EXCEPT !.req = <<>>, !.then = <<>>, !.raw = Wire(p) \o Wire(q)] :
     p \in {Get(1), Post(1), Last_(1)}, q \in {Get(2), Post(2), Last_(2)}}
  \cup {[Default EXCEPT !.req = <<>>, !.then = <<>>, !.raw = <<Part(1), Part(2), Part(1), Part(2), Part(1), Part(2), Part(1)>>],
        [Default EXCEPT !.req = <<>>, !.then = <<>>, !.raw = Wire(Get(1)) \o <<Byte(1), Byte(1)>> \o Wire(Get(2))]}
AllPlans == Pairs \cup Settings \cup Raws
SplitPlans == {Default}

\* The body the handler of a request sends, as the client is to see it.
Expected(id) ==
  LET a == plan.answer[id] IN
  IF a = <<>> THEN <<>> ELSE SelectSeq(a[1].body, LAMBDA t : t.k = "byte")

\* r_http_client_req_complete gives a request its own response, whole: no byte
\* of another exchange of the connection, none missing, whatever the framing,
\* the pieces it arrived in, and the connections reused before; a body that
\* ends with the connection may have been cut short by a server that stopped.
OwnResponse ==
  \A id \in Ids : cl.req[id].result = "OK" =>
    LET r == cl.req[id] IN
    /\ r.res[1].id \in {id, 0}
    /\ r.res[1].id = id => r.body = Expected(id) \/ (r.type = "CLOSE" /\ stops > 0)

\* A connection in the pool (client->idle) serves no request, is not being
\* closed, is there once and on the timer exactly when there is one; nothing
\* of an earlier exchange is still to come on it; and a connection that serves
\* a request serves one that is not finished.
Ends == {EOF, RST, BYE}
PoolSound ==
  /\ \A i \in DOMAIN cl.idle : LET c == cl.idle[i] IN
       /\ cl.conn[c].req = 0 /\ ~cl.conn[c].closing /\ cl.conn[c].timer = plan.timeout
       /\ \A j \in DOMAIN cl.idle : cl.idle[j] = c => i = j
       /\ \A j \in DOMAIN sv.s2c[c] : sv.s2c[c][j] \in Ends
  /\ \A c \in DOMAIN cl.conn : LET id == cl.conn[c].req IN
       /\ id # 0 => cl.req[id].conn = c /\ ~cl.req[id].finished
       /\ cl.conn[c].timer => Contains(cl.idle, c)

\* The handler is called at most once each time a request is sent; a request
\* is sent a second time, and no third, only when the first connection was one
\* that had served another request before (r_http_client_req_fail).
Count(id) == Cardinality({i \in DOMAIN sv.log : sv.log[i] = id})
HandledOnce ==
  \A id \in Ids : LET via == cl.req[id].via IN
    /\ Count(id) <= Len(via) /\ Len(via) <= 2
    /\ Len(via) = 2 => via[1] # via[2] /\ \E o \in Ids \ {id} : Contains(cl.req[o].via, via[1])

\* Nothing is left to do for either end; a timer may still be armed.
Quiet ==
  /\ cl.jobs = <<>> /\ sv.jobs = <<>> /\ Ids \ {plan.then[i] : i \in Ids} \subseteq started
  /\ ~\E c \in DOMAIN cl.conn : cl.conn[c].io = "connecting"
  /\ ~\E c \in DOMAIN sv.s2c : sv.s2c[c] # <<>> /\ cl.conn[c].io = "up" /\ cl.conn[c].recving
  /\ ~\E c \in DOMAIN sv.ctx : cl.c2s[c] # <<>> /\ ~sv.ctx[c].closed /\ ~sv.ctx[c].closing
  /\ ~(plan.resolve /\ \E id \in cl.reqs : cl.req[id].conn = 0)
\* Every request ends with its callback called, with a response when nothing
\* failed on the way, and every connection either
\* waits in the pool, open at both ends, or is closed at both.  A pipelined
\* client is answered in order, all of its requests up to one that asks to
\* close, as the comment on ctx->keepalive says.  (An error response is sent at
\* once and may so precede the answers whose handlers are still to run.)
Answers(s) == LET h == SelectSeq(s, LAMBDA t : t.k = "head") IN [i \in DOMAIN h |-> h[i].m.id]
Garbage == plan.raw[2].m = Get(1) /\ plan.raw[3].k = "byte"
Completes ==
  Quiet =>
    /\ cl.reqs = {} /\ \A id \in Ids : cl.req[id].finished
    /\ plan.stops = 0 /\ plan.route /\ plan.resolver /\ plan.verify =>
         \A id \in Ids : cl.req[id].result = "OK"
    /\ plan.raw = <<>> => \A c \in DOMAIN cl.conn :
         IF Contains(cl.idle, c) THEN cl.conn[c].io = "up" /\ ~sv.ctx[c].closed
         ELSE cl.conn[c].io = "closed" /\ (c \in DOMAIN sv.ctx => sv.ctx[c].closed)
    /\ plan.raw # <<>> =>
         LET a == Answers(sv.s2c[1])
             closed == Contains(sv.s2c[1], EOF)
         IN CASE Answers(plan.raw) # <<1, 2>> -> a = <<0>> /\ closed
              [] Garbage -> Contains(a, 0) /\ closed
              [] plan.raw[2].m = Last_(1) -> a # <<>> /\ a[1] = 1
              [] OTHER -> a = <<1, 2>> /\ closed = Contains(plan.raw, Headers(Last_(2)))
\* "On success remainder is the post-header bytes; on BUF_TOO_SMALL it re-holds
\* the pending data" (r_http_client_req_recv_data): the response of a server
\* that keeps to HTTP is parsed, in whatever pieces TCP delivers its head.
ResponseParsed == \A id \in Ids : cl.req[id].result # "PARSE_FAILED"
=============================================================================
