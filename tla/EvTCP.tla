------------------------------- MODULE EvTCP --------------------------------
(***************************************************************************)
(* A TCP connection on the event loop: rlib/ev/revtcp.c on the readiness   *)
(* backends, with the epoll watcher of EvIO below it, the socket of the    *)
(* kernel and its peer, and the program in its callbacks.                  *)
(*                                                                         *)
(* A buffer of the send queue is a number; it has BufSize chunks, the unit *)
(* in which the kernel takes data.                                         *)
(***************************************************************************)
EXTENDS EvIO

CONSTANTS MaxIn,    \* bound on the data the peer sends
          MaxRoom,  \* the kernel's send buffer, in chunks
          MaxSend,  \* bound on buffers the program sends
          BufSize   \* chunks of a buffer

ASSUME EvTCPAssumption == MaxIn \in Nat /\ MaxRoom \in Nat /\ MaxSend \in Nat /\ BufSize \in Nat \ {0}

VARIABLES inq, arrived, eof, \* unread data; data received; the peer has closed
          broken, soerr, \* the connection was reset; SO_ERROR is set
          room, wire,    \* free send buffer; chunks the kernel has taken
          shut,          \* the write side is shut down
          sockclosed,    \* r_socket_close was called
          recv_iocb_ctx, send_iocb_ctx, \* nodes, or 0
          qsend, closing,
          close_cb,      \* the callback of a graceful close is stored
          pc,            \* where the loop thread is
          from,          \* who called r_ev_tcp_send_iocb: "bcbs" or "node"
          evs, itnext,   \* r_ev_io_invoke_iocb: the events and the next node
          res,           \* the local of r_ev_tcp_recv_iocb and r_ev_tcp_send_iocb
          bcbs,          \* r_ev_tcp_send_iocb_ev: how often it is queued, and in the detached list
          acbs, calling, \* queued callbacks; the detached list
          nsend,         \* history: buffers accepted by r_ev_tcp_send
          requests, closecbs, \* history: accepted closes; close callbacks run
          superseded,    \* history: closes superseded by an abort
          sendfailed,    \* history: a send failed and its buffer is still queued
          receiving,     \* history: the program wants to be called with data
          stale          \* a freed node was used

kernel == <<inq, arrived, eof, broken, soerr, room, wire, shut, sockclosed>>
tcp == <<recv_iocb_ctx, send_iocb_ctx, qsend, closing, close_cb>>
loop == <<pc, from, evs, itnext, res, bcbs, acbs, calling>>
hist == <<nsend, requests, closecbs, superseded, sendfailed, receiving, stale>>
vars == <<evio, kernel, tcp, loop, hist>>

Callbacks == {"user", "recvcb", "eoscb", "donecb", "senderrcb", "errcb", "closecb"}
Places == Callbacks \cup {"bcbs", "wait", "poll", "node", "recv", "send", "error", "acbs"}
Items == [op : {"stop"}, node : NodeIds] \cup {[op |-> "finalize"]}
           \cup [op : {"close"}, call : BOOLEAN]

TypeOK ==
  /\ EvIOTypeOK
  /\ inq \in 0 .. MaxIn /\ arrived \in 0 .. MaxIn /\ room \in 0 .. MaxRoom
  /\ \A f \in {eof, broken, soerr, shut, sockclosed, closing, close_cb, receiving, stale, sendfailed, edge} : f \in BOOLEAN
  /\ wire \in Seq((1 .. MaxSend) \X (1 .. BufSize)) /\ qsend \in Seq(1 .. MaxSend)
  /\ recv_iocb_ctx \in NodeIds \cup {0} /\ send_iocb_ctx \in NodeIds \cup {0}
  /\ pc \in Places /\ from \in {"bcbs", "node"}
  /\ evs \subseteq REvIOEvents /\ itnext \in NodeIds \cup {0}
  /\ res \in {"OK", "WOULD_BLOCK", "FAILED"}
  /\ bcbs \in [queued : Nat, called : Nat] /\ acbs \in Seq(Items) /\ calling \in Seq(Items)
  /\ nsend \in 0 .. MaxSend /\ requests \in Nat /\ closecbs \in Nat /\ superseded \in Nat

\* A connection that is established, by r_ev_tcp_accept or after r_ev_tcp_connect.
Init ==
  /\ r_ev_io_init
  /\ inq = 0 /\ arrived = 0 /\ eof = FALSE /\ broken = FALSE /\ soerr = FALSE
  /\ room = MaxRoom /\ wire = <<>> /\ shut = FALSE /\ sockclosed = FALSE
  /\ recv_iocb_ctx = 0 /\ send_iocb_ctx = 0 /\ qsend = <<>>
  /\ closing = FALSE /\ close_cb = FALSE
  /\ pc = "user" /\ from = "bcbs" /\ evs = {} /\ itnext = 0 /\ res = "OK"
  /\ bcbs = [queued |-> 0, called |-> 0] /\ acbs = <<>> /\ calling = <<>>
  /\ nsend = 0 /\ requests = 0 /\ closecbs = 0 /\ superseded = 0 /\ sendfailed = FALSE
  /\ receiving = FALSE /\ stale = FALSE

\* The callbacks that are still to run, in their order, and the nodes they stop.
Queued == calling \o acbs
Stops == {i \in DOMAIN Queued : Queued[i].op = "stop"}
Deferred == {Queued[i].node : i \in Stops}
FreeId(id) == id \notin Ids(iocbq) \cup {itnext} \cup Deferred

(***************************************************************************)
(* The program.                                                            *)
(***************************************************************************)
Program == ~stale /\ pc \in Callbacks

r_ev_tcp_recv_start ==
  /\ Program /\ recv_iocb_ctx = 0 /\ handle
  /\ \E id \in NodeIds :
       /\ FreeId(id) /\ \A j \in NodeIds : FreeId(j) => id <= j
       /\ r_ev_io_start(id, {Readable})
       /\ recv_iocb_ctx' = id
  /\ receiving' = TRUE
  /\ UNCHANGED <<kernel, send_iocb_ctx, qsend, closing, close_cb, loop, nsend, requests, closecbs, superseded, sendfailed, stale>>

r_ev_tcp_recv_stop ==
  /\ Program /\ recv_iocb_ctx # 0
  /\ r_ev_io_stop(recv_iocb_ctx)
  /\ recv_iocb_ctx' = 0 /\ receiving' = FALSE
  /\ UNCHANGED <<kernel, send_iocb_ctx, qsend, closing, close_cb, loop, nsend, requests, closecbs, superseded, sendfailed, stale>>

\* mutant: the newest buffer is sent first
SendStack ==
  /\ Program /\ ~closed /\ ~closing /\ nsend < MaxSend
  /\ nsend' = nsend + 1
  /\ qsend' = <<nsend + 1>> \o qsend
  /\ bcbs' = [bcbs EXCEPT !.queued = @ + (IF qsend = <<>> THEN 1 ELSE 0)]
  /\ UNCHANGED <<evio, kernel, recv_iocb_ctx, send_iocb_ctx, closing, close_cb, pc, from, evs, itnext, res, acbs, calling, requests, closecbs, superseded, sendfailed, receiving, stale>>

\* The send path is called for the buffer that makes the queue non-empty.
r_ev_tcp_send ==
  /\ Program /\ ~closed /\ ~closing /\ nsend < MaxSend
  /\ nsend' = nsend + 1
  /\ qsend' = Append(qsend, nsend + 1)
  /\ bcbs' = [bcbs EXCEPT !.queued = @ + (IF qsend = <<>> THEN 1 ELSE 0)]
  /\ UNCHANGED <<evio, kernel, recv_iocb_ctx, send_iocb_ctx, closing, close_cb, pc, from, evs, itnext, res, acbs, calling, requests, closecbs, superseded, sendfailed, receiving, stale>>

\* The watches are stopped and the close callback is queued.
r_ev_tcp_teardown(q, call) ==
  /\ StopAndClose(recv_iocb_ctx, send_iocb_ctx)
  /\ recv_iocb_ctx' = 0 /\ send_iocb_ctx' = 0
  /\ acbs' = Append(q, [op |-> "close", call |-> call])

\* mutant: the queue is not looked at
CloseAtOnce ==
  /\ Program /\ ~closed /\ ~closing
  /\ requests' = requests + 1 /\ receiving' = FALSE
  /\ shut' = TRUE /\ r_ev_tcp_teardown(acbs, TRUE) /\ UNCHANGED <<closing, close_cb>>
  /\ UNCHANGED <<inq, arrived, eof, broken, soerr, room, wire, sockclosed, qsend, pc, from, evs, itnext, res, bcbs, calling, nsend, closecbs, superseded, sendfailed, stale>>

r_ev_tcp_close ==
  /\ Program /\ ~closed /\ ~closing
  /\ requests' = requests + 1 /\ receiving' = FALSE
  /\ IF qsend = <<>> THEN
       shut' = TRUE /\ r_ev_tcp_teardown(acbs, TRUE) /\ UNCHANGED <<closing, close_cb>>
     ELSE
       /\ closing' = TRUE /\ close_cb' = TRUE
       /\ IF recv_iocb_ctx # 0 THEN r_ev_io_stop(recv_iocb_ctx) ELSE UNCHANGED evio
       /\ recv_iocb_ctx' = 0
       /\ UNCHANGED <<shut, send_iocb_ctx, acbs>>
  /\ UNCHANGED <<inq, arrived, eof, broken, soerr, room, wire, sockclosed, qsend, pc, from, evs, itnext, res, bcbs, calling, nsend, closecbs, superseded, sendfailed, stale>>

\* A graceful close that is draining is superseded.
r_ev_tcp_abort ==
  /\ Program /\ ~closed
  /\ requests' = requests + 1 /\ receiving' = FALSE
  /\ superseded' = superseded + (IF close_cb THEN 1 ELSE 0) /\ sendfailed' = FALSE
  /\ closing' = FALSE /\ close_cb' = FALSE /\ qsend' = <<>> /\ sockclosed' = TRUE
  /\ r_ev_tcp_teardown(acbs, TRUE)
  /\ UNCHANGED <<inq, arrived, eof, broken, soerr, room, wire, shut, pc, from, evs, itnext, res, bcbs, calling, nsend, closecbs, stale>>

(***************************************************************************)
(* The loop around the watcher: other callbacks of the program, bcbs, the  *)
(* wait, the dispatch to the nodes, acbs.                                  *)
(***************************************************************************)
At(place) == ~stale /\ pc = place

\* r_cbqueue_call_pop of bcbs: what is queued from now on waits for the next pass.
UserEnd ==
  /\ At("user") /\ pc' = "bcbs"
  /\ bcbs' = [queued |-> 0, called |-> bcbs.queued]
  /\ UNCHANGED <<evio, kernel, tcp, from, evs, itnext, res, acbs, calling, hist>>

\* r_ev_tcp_send_iocb_ev
SendEv ==
  /\ At("bcbs") /\ bcbs.called > 0
  /\ bcbs' = [bcbs EXCEPT !.called = @ - 1] /\ from' = "bcbs" /\ res' = "OK" /\ pc' = "send"
  /\ UNCHANGED <<evio, kernel, tcp, evs, itnext, acbs, calling, hist>>

BcbsEnd ==
  /\ At("bcbs") /\ bcbs.called = 0 /\ pc' = "wait"
  /\ UNCHANGED <<evio, kernel, tcp, from, evs, itnext, res, bcbs, acbs, calling, hist>>

\* What the kernel would report for the socket now.
Ready ==
  (IF inq > 0 \/ eof \/ broken THEN {Readable} ELSE {})
    \cup (IF room > 0 \/ broken THEN {Writable} ELSE {})
    \cup (IF soerr THEN {Error} ELSE {})

WaitBegin ==
  /\ At("wait") /\ ApplyChanges(Ready) /\ pc' = "poll"
  /\ UNCHANGED <<kernel, tcp, from, evs, itnext, res, bcbs, acbs, calling, hist>>

\* A closed watcher is skipped; the others see every event that came.
PollEvents ==
  /\ At("poll") /\ edge /\ Reported(Ready) # {}
  /\ edge' = FALSE /\ evs' = Reported(Ready)
  /\ itnext' = (IF closed THEN 0 ELSE FirstNode) /\ pc' = "node"
  /\ UNCHANGED <<iocbq, events, active, changing, closed, handle, kernel, tcp, from, res, bcbs, acbs, calling, hist>>

\* The wait ends for another reason.
PollOther ==
  /\ At("poll") /\ ~(edge /\ Reported(Ready) # {})
  /\ edge' = FALSE /\ pc' = "node" /\ itnext' = 0 /\ evs' = {}
  /\ UNCHANGED <<iocbq, events, active, changing, closed, handle, kernel, tcp, from, res, bcbs, acbs, calling, hist>>

\* Where r_ev_tcp_iocb goes on after its part for Readable, and for Writable.
AfterRecv == IF Writable \in evs THEN "send" ELSE IF Error \in evs THEN "error" ELSE "node"
AfterSend == IF from = "bcbs" THEN "bcbs" ELSE IF Error \in evs THEN "error" ELSE "node"

\* r_ev_io_invoke_iocb calls r_ev_tcp_iocb for the next node.
InvokeIocb ==
  /\ At("node") /\ itnext # 0
  /\ IF itnext \in Ids(iocbq) THEN
       /\ itnext' = NextNode(itnext)
       /\ pc' = (IF Readable \in evs THEN "recv" ELSE AfterRecv)
       /\ UNCHANGED stale
     ELSE stale' = TRUE /\ UNCHANGED <<pc, itnext>>
  /\ from' = "node"
  /\ res' = (IF Readable \in evs THEN "WOULD_BLOCK" ELSE "OK")
  /\ UNCHANGED <<evio, kernel, tcp, evs, bcbs, acbs, calling, nsend, requests, closecbs, superseded, sendfailed, receiving>>

\* r_cbqueue_call_pop of acbs
InvokeEnd ==
  /\ At("node") /\ itnext = 0
  /\ calling' = acbs /\ acbs' = <<>> /\ pc' = "acbs"
  /\ UNCHANGED <<evio, kernel, tcp, from, evs, itnext, res, bcbs, hist>>

(***************************************************************************)
(* r_ev_tcp_recv_iocb.                                                     *)
(***************************************************************************)
\* After r_ev_tcp_recv_iocb; res is then the local of r_ev_tcp_send_iocb.
RecvLeave == pc' = AfterRecv /\ res' = "OK"

\* The node is stopped by a later callback; recv (NULL) or the error handler.
r_ev_tcp_recv_teardown ==
  /\ acbs' = IF recv_iocb_ctx # 0 THEN Append(acbs, [op |-> "stop", node |-> recv_iocb_ctx]) ELSE acbs
  /\ recv_iocb_ctx' = 0 /\ receiving' = FALSE /\ pc' = "eoscb"

\* The loop ends because the program closed the socket in the callback before.
RecvClosed ==
  /\ At("recv") /\ sockclosed
  /\ IF res = "WOULD_BLOCK" THEN RecvLeave /\ UNCHANGED <<acbs, recv_iocb_ctx, receiving>>
                            ELSE r_ev_tcp_recv_teardown /\ UNCHANGED res
  /\ UNCHANGED <<evio, kernel, send_iocb_ctx, qsend, closing, close_cb, from, evs, itnext, bcbs, calling, nsend, requests, closecbs, superseded, sendfailed, stale>>

RecvData ==
  /\ At("recv") /\ ~sockclosed /\ inq > 0
  /\ inq' = inq - 1 /\ res' = "OK" /\ pc' = "recvcb"
  /\ UNCHANGED <<evio, arrived, eof, broken, soerr, room, wire, shut, sockclosed, tcp, from, evs, itnext, bcbs, acbs, calling, hist>>

\* End of the stream, an error, or (whatever there is to read) the allocator of
\* the program has returned NULL.
RecvEnd ==
  /\ At("recv") /\ ~sockclosed
  /\ (inq = 0 /\ (soerr \/ eof \/ broken) /\ soerr' = FALSE) \/ UNCHANGED soerr
  /\ r_ev_tcp_recv_teardown
  /\ UNCHANGED <<evio, inq, arrived, eof, broken, room, wire, shut, sockclosed, send_iocb_ctx, qsend, closing, close_cb, from, evs, itnext, res, bcbs, calling, nsend, requests, closecbs, superseded, sendfailed, stale>>

RecvBlocks ==
  /\ At("recv") /\ ~sockclosed /\ ~soerr /\ inq = 0 /\ ~eof /\ ~broken
  /\ RecvLeave
  /\ UNCHANGED <<evio, kernel, tcp, from, evs, itnext, bcbs, acbs, calling, hist>>

(***************************************************************************)
(* r_ev_tcp_send_iocb.                                                     *)
(***************************************************************************)
Chunks(b, n) == [i \in 1 .. n |-> <<b, i>>]

\* The kernel takes what it has room for; the buffer leaves the queue.
SendOk ==
  /\ At("send") /\ qsend # <<>> /\ ~broken /\ ~shut /\ ~sockclosed /\ room > 0
  /\ LET n == IF room < BufSize THEN room ELSE BufSize IN
       /\ room' = room - n
       /\ wire' = wire \o Chunks(Head(qsend), n)
  /\ qsend' = Tail(qsend) /\ res' = "OK" /\ pc' = "donecb"
  /\ UNCHANGED <<evio, inq, arrived, eof, broken, soerr, shut, sockclosed, recv_iocb_ctx, send_iocb_ctx, closing, close_cb, from, evs, itnext, bcbs, acbs, calling, hist>>

\* mutant: only a failed send finishes the close
SendLeaveFailed(r, q) ==
  IF closing /\ r = "FAILED" THEN
    closing' = FALSE /\ shut' = TRUE /\ acbs' = Append(q, [op |-> "finalize"])
  ELSE acbs' = q /\ UNCHANGED <<closing, shut>>

\* The tail of r_ev_tcp_send_iocb with r as res; r_ev_tcp_finalize_close.
SendLeave(r, q) ==
  IF closing /\ r # "WOULD_BLOCK" THEN
    closing' = FALSE /\ shut' = TRUE /\ acbs' = Append(q, [op |-> "finalize"])
  ELSE acbs' = q /\ UNCHANGED <<closing, shut>>

SendDrained ==
  /\ At("send") /\ qsend = <<>>
  /\ SendLeave(res, acbs) /\ pc' = AfterSend
  /\ UNCHANGED <<evio, inq, arrived, eof, broken, soerr, room, wire, sockclosed, recv_iocb_ctx, send_iocb_ctx, qsend, close_cb, from, evs, itnext, res, bcbs, calling, hist>>

\* A writable watch is started once and stays.
SendBlocks ==
  /\ At("send") /\ qsend # <<>> /\ ~broken /\ ~shut /\ ~sockclosed /\ room = 0
  /\ IF send_iocb_ctx # 0 THEN UNCHANGED <<evio, send_iocb_ctx>>
     ELSE \E id \in NodeIds :
            /\ FreeId(id) /\ \A j \in NodeIds : FreeId(j) => id <= j
            /\ r_ev_io_start(id, {Writable}) /\ send_iocb_ctx' = id
  /\ res' = "WOULD_BLOCK" /\ pc' = AfterSend
  /\ UNCHANGED <<kernel, recv_iocb_ctx, qsend, closing, close_cb, from, evs, itnext, bcbs, acbs, calling, hist>>

\* The watch is stopped later and the error handler called; the queue stays.
SendFails ==
  /\ At("send") /\ qsend # <<>> /\ (broken \/ shut \/ sockclosed)
  /\ soerr' = FALSE
  /\ acbs' = IF send_iocb_ctx # 0 THEN Append(acbs, [op |-> "stop", node |-> send_iocb_ctx]) ELSE acbs
  /\ send_iocb_ctx' = 0 /\ res' = "FAILED" /\ pc' = "senderrcb" /\ sendfailed' = TRUE
  /\ UNCHANGED <<evio, inq, arrived, eof, broken, room, wire, shut, sockclosed, recv_iocb_ctx, qsend, closing, close_cb, from, evs, itnext, bcbs, calling, nsend, requests, closecbs, superseded, receiving, stale>>

\* r_ev_tcp_error_iocb; getsockopt fails on a socket that was closed meanwhile.
ErrorIocb ==
  /\ At("error")
  /\ soerr' = FALSE /\ pc' = (IF soerr \/ sockclosed THEN "errcb" ELSE "node")
  /\ UNCHANGED <<evio, inq, arrived, eof, broken, room, wire, shut, sockclosed, tcp, from, evs, itnext, res, bcbs, acbs, calling, hist>>

\* A callback of the program returns.
Return ==
  /\ ~stale
  /\ \/ pc = "recvcb" /\ pc' = "recv" /\ UNCHANGED <<res, acbs, closing, shut>>
     \/ pc = "eoscb" /\ RecvLeave /\ UNCHANGED <<acbs, closing, shut>>
     \/ pc = "donecb" /\ pc' = "send" /\ UNCHANGED <<res, acbs, closing, shut>>
     \/ pc = "senderrcb" /\ SendLeave(res, acbs) /\ pc' = AfterSend /\ UNCHANGED res
     \/ pc = "errcb" /\ pc' = "node" /\ UNCHANGED <<res, acbs, closing, shut>>
     \/ pc = "closecb" /\ pc' = "acbs" /\ UNCHANGED <<res, acbs, closing, shut>>
  /\ UNCHANGED <<evio, inq, arrived, eof, broken, soerr, room, wire, sockclosed, recv_iocb_ctx, send_iocb_ctx, qsend, close_cb, from, evs, itnext, bcbs, calling, hist>>

(***************************************************************************)
(* acbs.                                                                   *)
(***************************************************************************)
\* r_ev_tcp_io_stop_after
AcbStop ==
  /\ At("acbs") /\ calling # <<>> /\ calling[1].op = "stop"
  /\ r_ev_io_stop(calling[1].node) /\ calling' = Tail(calling)
  /\ UNCHANGED <<kernel, tcp, pc, from, evs, itnext, res, bcbs, acbs, hist>>

r_ev_tcp_finalize_teardown ==
  /\ At("acbs") /\ calling # <<>> /\ calling[1].op = "finalize"
  /\ r_ev_tcp_teardown(acbs, close_cb) /\ close_cb' = FALSE /\ calling' = Tail(calling)
  /\ UNCHANGED <<kernel, qsend, closing, pc, from, evs, itnext, res, bcbs, hist>>

\* The callback given to r_ev_tcp_close or r_ev_tcp_abort.
AcbClose ==
  /\ At("acbs") /\ calling # <<>> /\ calling[1].op = "close"
  /\ calling' = Tail(calling)
  /\ IF calling[1].call THEN closecbs' = closecbs + 1 /\ pc' = "closecb"
                        ELSE UNCHANGED <<closecbs, pc>>
  /\ UNCHANGED <<evio, kernel, tcp, from, evs, itnext, res, bcbs, acbs, nsend, requests, superseded, sendfailed, receiving, stale>>

AcbsEnd ==
  /\ At("acbs") /\ calling = <<>> /\ pc' = "user"
  /\ UNCHANGED <<evio, kernel, tcp, from, evs, itnext, res, bcbs, acbs, calling, hist>>

(***************************************************************************)
(* The kernel and the peer.                                                *)
(***************************************************************************)
Arrive ==
  /\ arrived < MaxIn /\ ~eof /\ ~broken /\ ~sockclosed
  /\ inq' = inq + 1 /\ arrived' = arrived + 1 /\ Edge({Readable})
  /\ UNCHANGED <<iocbq, events, active, changing, closed, handle, eof, broken, soerr, room, wire, shut, sockclosed, tcp, loop, hist>>

PeerEof ==
  /\ ~eof /\ ~broken /\ ~sockclosed
  /\ eof' = TRUE /\ Edge({Readable})
  /\ UNCHANGED <<iocbq, events, active, changing, closed, handle, inq, arrived, broken, soerr, room, wire, shut, sockclosed, tcp, loop, hist>>

Reset ==
  /\ ~broken /\ ~sockclosed
  /\ broken' = TRUE /\ soerr' = TRUE /\ Edge(REvIOEvents)
  /\ UNCHANGED <<iocbq, events, active, changing, closed, handle, inq, arrived, eof, room, wire, shut, sockclosed, tcp, loop, hist>>

\* The peer acknowledges data; a full buffer becomes writable.
Drain ==
  /\ room < MaxRoom /\ ~broken /\ ~sockclosed
  /\ room' = room + 1
  /\ IF room = 0 THEN Edge({Writable}) ELSE UNCHANGED edge
  /\ UNCHANGED <<iocbq, events, active, changing, closed, handle, inq, arrived, eof, broken, soerr, wire, shut, sockclosed, tcp, loop, hist>>

Kernel == Arrive \/ PeerEof \/ Reset \/ Drain

Dispatch ==
  \/ UserEnd \/ SendEv \/ BcbsEnd \/ WaitBegin \/ PollEvents
  \/ InvokeIocb \/ InvokeEnd
  \/ RecvClosed \/ RecvData \/ RecvEnd \/ RecvBlocks
  \/ SendOk \/ SendDrained \/ SendBlocks \/ SendFails \/ ErrorIocb \/ Return
  \/ AcbStop \/ r_ev_tcp_finalize_teardown \/ AcbClose \/ AcbsEnd

(***************************************************************************)
(* The program of the specification stops and closes where no other node   *)
(* of the watcher is still to be called, sends only before it closes,      *)
(* starts receiving once and answers a failed send with an abort; the      *)
(* specifications at the end relax each of these.                          *)
(***************************************************************************)
LastNode == pc \in {"user", "closecb"} \/ itnext = 0
FirstStart == requests = 0 /\ Readable \notin events

Operation ==
  \/ FirstStart /\ r_ev_tcp_recv_start
  \/ LastNode /\ r_ev_tcp_recv_stop
  \/ requests = 0 /\ r_ev_tcp_send
  \/ LastNode /\ ~sendfailed /\ r_ev_tcp_close
  \/ LastNode /\ r_ev_tcp_abort

Next == Dispatch \/ PollOther \/ Kernel \/ Operation

Spec == Init /\ [][Next]_vars

\* The loop thread runs and the peer reads.  Nothing but an event of the socket
\* has to end the wait, except when acbs is not empty and the deadline is now.
Fairness == WF_vars(Dispatch \/ (acbs # <<>> /\ PollOther)) /\ WF_vars(Drain)

FairSpec == Spec /\ Fairness

(***************************************************************************)
(* Properties.                                                             *)
(***************************************************************************)
\* The chunks of the buffers 1 .. n.
AllChunks(n) == [k \in 1 .. n * BufSize |-> <<1 + ((k - 1) \div BufSize), 1 + ((k - 1) % BufSize)>>]

\* Until the connection is aborted the kernel has taken the first buffers that
\* r_ev_tcp_send accepted, whole, and the others are queued: nothing is lost,
\* repeated or reordered by the send path, whoever calls it.
DataInOrder ==
  ~sockclosed => LET taken == nsend - Len(qsend) IN
                 wire = AllChunks(taken) /\ qsend = [i \in 1 .. Len(qsend) |-> taken + i]

\* The write side of a connection that works is shut down by r_ev_tcp_close
\* only after everything that was queued has been given to the kernel.
FlushBeforeFin == (shut /\ ~broken /\ ~sockclosed) => Len(wire) = nsend * BufSize

\* The close callbacks that are to be called from q.
CloseCalls(q) == Cardinality({i \in DOMAIN q : q[i].op = "close" /\ q[i].call})

\* Every accepted r_ev_tcp_close or r_ev_tcp_abort has its callback called
\* once, or is superseded by an abort; until then the callback is stored in the
\* connection or queued in acbs.
CloseCbAccounted ==
  requests = closecbs + superseded + (IF close_cb THEN 1 ELSE 0) + CloseCalls(Queued)

\* Once a close callback has been called no receive, send or error callback of
\* the connection is called.
QuietAfterClose ==
  closecbs > 0 => pc \notin {"recvcb", "eoscb", "donecb", "senderrcb", "errcb"}

\* r_ev_io_invoke_iocb never goes on to a node that r_ev_io_stop has freed, and
\* every node that is still to be stopped is registered and named once: by the
\* connection or by one deferred stop.
NoStaleNode ==
  /\ ~stale
  /\ Deferred \cup ({recv_iocb_ctx, send_iocb_ctx} \ {0}) \subseteq Ids(iocbq)
  /\ recv_iocb_ctx = send_iocb_ctx => recv_iocb_ctx = 0
  /\ {recv_iocb_ctx, send_iocb_ctx} \cap Deferred = {}
  /\ \A i, j \in Stops : Queued[i].node = Queued[j].node => i = j

\* A connection ends in order: what was queued before the FIN, one callback for
\* each close or abort and none of another kind behind it, and no node of the
\* connection used once it was freed.
ClosesCleanly == FlushBeforeFin /\ CloseCbAccounted /\ QuietAfterClose /\ NoStaleNode

\* A close or abort ends with a close callback.
CloseCompletes == (requests > 0) ~> (closecbs > 0)

\* Data that is there while the program receives is read, by the edge that
\* r_ev_tcp_recv_start or the arrival causes.
DataDelivered == (receiving /\ inq > 0) ~> (inq = 0 \/ ~receiving)

\* A queued buffer is given to the kernel, or the program is told of a failure,
\* or it gives up: the send path is always left with a callback or a watch.
SendsComplete == (qsend # <<>>) ~> (qsend = <<>> \/ sendfailed)

\* What is under way comes to its end: data on both sides, and the close.
Progresses == CloseCompletes /\ DataDelivered /\ SendsComplete

\* After r_ev_tcp_recv_stop, r_ev_tcp_close or r_ev_tcp_abort no receive
\* callback is called.
NoRecvAfterStop == [][(pc' = "recvcb" /\ pc # "recvcb") => receiving]_vars

\* Once a close has been accepted r_ev_tcp_send refuses.
LateSendRefused == [][requests > 0 => nsend' = nsend]_vars

-----------------------------------------------------------------------------
(***************************************************************************)
(* EvTCP for TLC, and programs that do more than Operation of EvTCP does.  *)
(***************************************************************************)
\* Closes and aborts in any of its callbacks.
AnyPlaceSpec == Init /\ [][Next \/ r_ev_tcp_close \/ r_ev_tcp_abort]_vars

\* Stops and starts receiving again.
Restart == requests = 0 /\ r_ev_tcp_recv_start
RestartSpec == Init /\ [][Next \/ Restart]_vars /\ Fairness

\* Answers a failed send with a graceful close.
CloseFailedSpec == Init /\ [][Next \/ (LastNode /\ r_ev_tcp_close)]_vars /\ Fairness

\* Sends after it has closed.
LateSendSpec == Init /\ [][Next \/ r_ev_tcp_send]_vars
=============================================================================
