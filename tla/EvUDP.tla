-------------------------------- MODULE EvUDP --------------------------------
(***************************************************************************)
(* A datagram socket on the event loop: rlib/ev/revudp.c, on the readiness *)
(* backends over the epoll watcher of EvIO, and on the completion backend  *)
(* with overlapped operations.  Datagrams are numbers.  The handler for    *)
(* errors only takes note; the allocator of the program does not fail.     *)
(***************************************************************************)
EXTENDS EvIO

CONSTANTS MaxSend, MaxIn, MaxFail, \* bounds on datagrams sent, received, refused by the kernel
          Room                     \* datagrams the kernel's send buffer takes

VARIABLES s,   \* struct REvUDP, its references and its callbacks queued with the loop
          k,   \* the kernel: arrived datagrams, room, a socket error, operations in flight
          pc,  \* where the loop thread is
          detached, \* the callbacks of bcbs that r_cbqueue_call_pop has still to call
          h    \* history

udpvars == <<evio, s, k, pc, detached, h>>

Node == CHOOSE id \in NodeIds : TRUE
Backends == {"readiness", "iocp"}

r_ev_udp_new(backend) ==
  [backend |-> backend, qsend |-> <<>>, bcbs |-> 0, refs |-> 1, recv_iocb_ctx |-> 0, recv_data |-> "none",
   iocp_recv_active |-> FALSE, iocp_associated |-> FALSE, ctx |-> 0, ret |-> "user"]

Init ==
  /\ r_ev_io_init
  /\ \E b \in Backends : s = r_ev_udp_new(b)
  /\ k = [inq |-> 0, room |-> Room, soerr |-> FALSE, rop |-> "none", sops |-> <<>>]
  /\ pc = "user" /\ detached = 0
  /\ h = [nsend |-> 0, nrecv |-> 0, held |-> TRUE, sent |-> <<>>, done |-> <<>>, dropped |-> <<>>,
          notified |-> <<>>, blocked |-> FALSE, undrained |-> FALSE, late |-> FALSE]

Iocp == s.backend = "iocp"
Bool(b) == IF b THEN 1 ELSE 0
First(q) == IF q = <<>> THEN <<>> ELSE <<Head(q)>>
Failed(n) == Len(h.dropped) + n <= MaxFail

(***************************************************************************)
(* The completion backend's send queue: n datagrams at its head fail       *)
(* synchronously, the next one is in flight.                               *)
(***************************************************************************)
r_ev_udp_iocp_post_send(s0, h0, n) ==
  LET q == s0.qsend
      rest == SubSeq(q, n + 1, Len(q))
      first == First(rest)
      lost == SubSeq(q, 1, n)
  IN  /\ n <= Len(q) /\ Failed(n)
      /\ s' = [s0 EXCEPT !.qsend = rest, !.refs = @ + Len(first)]
      /\ k' = [k EXCEPT !.sops = @ \o [i \in 1 .. Len(first) |-> "flight"]]
      /\ h' = [h0 EXCEPT !.sent = @ \o first, !.dropped = @ \o lost, !.notified = @ \o lost]

r_ev_udp_iocp_post_recv(s0) ==
  /\ s' = [s0 EXCEPT !.iocp_associated = TRUE, !.refs = @ + 1]
  /\ k' = [k EXCEPT !.rop = "armed"]

(***************************************************************************)
(* The program, in a callback of its own or of the source.                 *)
(***************************************************************************)
Program == h.held /\ pc \in {"user", "recvcb", "donecb"}

\* mutant: the callback is queued for every datagram but the first
SendLater ==
  /\ Program /\ h.nsend < MaxSend
  /\ LET s1 == [s EXCEPT !.qsend = Append(@, h.nsend + 1)]
         h1 == [h EXCEPT !.nsend = @ + 1]
         first == Len(s1.qsend) = 2
     IN  IF first /\ s.iocp_associated THEN \E n \in 0 .. MaxFail : r_ev_udp_iocp_post_send(s1, h1, n)
         ELSE s' = [s1 EXCEPT !.bcbs = @ + Bool(first), !.refs = @ + Bool(first)] /\ h' = h1 /\ UNCHANGED k
  /\ UNCHANGED <<evio, pc>>

\* Queued; the datagram that makes the queue non-empty starts the send path.
r_ev_udp_send ==
  /\ Program /\ h.nsend < MaxSend
  /\ LET s1 == [s EXCEPT !.qsend = Append(@, h.nsend + 1)]
         h1 == [h EXCEPT !.nsend = @ + 1]
         first == Len(s1.qsend) = 1
     IN  IF first /\ s.iocp_associated THEN \E n \in 0 .. MaxFail : r_ev_udp_iocp_post_send(s1, h1, n)
         ELSE s' = [s1 EXCEPT !.bcbs = @ + Bool(first), !.refs = @ + Bool(first)] /\ h' = h1 /\ UNCHANGED k
  /\ UNCHANGED <<evio, pc>>

r_ev_udp_recv_start ==
  /\ Program /\ s.recv_iocb_ctx = 0 /\ ~s.iocp_recv_active
  /\ IF Iocp THEN
       r_ev_udp_iocp_post_recv([s EXCEPT !.recv_data = "set", !.iocp_recv_active = TRUE]) /\ UNCHANGED evio
     ELSE
       /\ r_ev_io_start(Node, {Readable})
       /\ s' = [s EXCEPT !.recv_iocb_ctx = Node, !.recv_data = "set"]
       /\ UNCHANGED k
  /\ UNCHANGED <<pc, h>>

\* The data is released with the watcher's node; an operation in flight is cancelled.
r_ev_udp_recv_stop ==
  /\ Program
  /\ IF Iocp THEN
       /\ s' = [s EXCEPT !.iocp_recv_active = FALSE]
       /\ k' = [k EXCEPT !.rop = IF @ = "armed" THEN "aborted" ELSE @]
       /\ UNCHANGED evio
     ELSE
       /\ s.recv_iocb_ctx # 0
       /\ r_ev_io_stop(Node)
       /\ s' = [s EXCEPT !.recv_iocb_ctx = 0, !.recv_data = "released"]
       /\ UNCHANGED k
  /\ UNCHANGED <<pc, h>>

\* A reference dropped; the last one clears what is still queued.
r_ev_udp_free(s1, h1) ==
  IF s1.refs > 0 THEN s' = s1 /\ h' = h1
  ELSE s' = [s1 EXCEPT !.qsend = <<>>] /\ h' = [h1 EXCEPT !.notified = @ \o s1.qsend]

Unref(s0, h0) == r_ev_udp_free([s0 EXCEPT !.refs = @ - 1], h0)

\* The program has stopped receiving and drops its reference.
Release ==
  /\ h.held /\ pc = "user" /\ s.recv_iocb_ctx = 0 /\ ~s.iocp_recv_active
  /\ Unref(s, [h EXCEPT !.held = FALSE])
  /\ UNCHANGED <<evio, k, pc>>

(***************************************************************************)
(* The loop: the program, queued callbacks, the wait.                      *)
(***************************************************************************)
\* What is queued from now on waits for the next pass.
UserEnd ==
  /\ pc = "user" /\ pc' = "bcbs" /\ detached' = s.bcbs
  /\ UNCHANGED <<evio, s, k, h>>

r_ev_udp_send_iocb_ev ==
  /\ pc = "bcbs" /\ detached > 0 /\ s.bcbs > 0
  /\ s' = [s EXCEPT !.bcbs = @ - 1] /\ detached' = detached - 1
  /\ pc' = "send"
  /\ UNCHANGED <<evio, k, h>>

Ready == (IF k.inq > 0 THEN {Readable} ELSE {}) \cup (IF k.soerr THEN {Readable, Error} ELSE {})

BcbsEnd ==
  /\ pc = "bcbs" /\ detached = 0
  /\ IF s.refs = 0 \/ Iocp THEN UNCHANGED evio ELSE ApplyChanges(Ready)
  /\ pc' = "poll"
  /\ UNCHANGED <<s, k, h>>

\* r_ev_udp_iocb for the events of epoll: it is called when a node is registered.
r_ev_udp_iocb ==
  /\ pc = "poll" /\ ~Iocp /\ edge /\ Reported(Ready) # {} /\ iocbq # <<>>
  /\ edge' = FALSE
  /\ pc' = "recv"
  /\ h' = [h EXCEPT !.undrained = FALSE]
  /\ UNCHANGED <<iocbq, events, active, changing, closed, handle, s, k>>

\* The wait ends for another reason, or no node is registered for the event.
PollOther ==
  /\ pc = "poll" /\ pc' = "user"
  /\ Iocp \/ ~edge \/ Reported(Ready) = {} \/ iocbq = <<>>
  /\ edge' = FALSE
  /\ h' = [h EXCEPT !.undrained = @ \/ (edge /\ Reported(Ready) # {})]
  /\ UNCHANGED <<iocbq, events, active, changing, closed, handle, s, k>>

(***************************************************************************)
(* r_ev_udp_recv_iocb: a buffer is allocated, then the socket is read.     *)
(***************************************************************************)
Late == [h EXCEPT !.late = @ \/ s.recv_data = "released"]

RecvOk ==
  /\ pc = "recv" /\ ~k.soerr /\ k.inq > 0
  /\ k' = [k EXCEPT !.inq = @ - 1]
  /\ s' = [s EXCEPT !.ret = "recv"]
  /\ h' = [Late EXCEPT !.nrecv = @ + 1] /\ pc' = "recvcb"
  /\ UNCHANGED evio

RecvBlocks ==
  /\ pc = "recv" /\ ~k.soerr /\ k.inq = 0
  /\ h' = Late /\ pc' = "error"
  /\ UNCHANGED <<evio, s, k>>

\* Draining stops until the next event.
RecvFails ==
  /\ pc = "recv" /\ k.soerr
  /\ k' = [k EXCEPT !.soerr = FALSE]
  /\ h' = [Late EXCEPT !.undrained = TRUE] /\ pc' = "error"
  /\ UNCHANGED <<evio, s>>

\* The error a receive has not consumed.
r_ev_udp_error_iocb ==
  /\ pc = "error" /\ pc' = "user"
  /\ k' = [k EXCEPT !.soerr = FALSE]
  /\ UNCHANGED <<evio, s, h>>

(***************************************************************************)
(* r_ev_udp_send_iocb                                                      *)
(***************************************************************************)
SendDrained ==
  /\ pc = "send" /\ s.qsend = <<>> /\ pc' = "bcbs"
  /\ Unref(s, h) /\ UNCHANGED <<evio, k>>

SendOk ==
  /\ pc = "send" /\ s.qsend # <<>> /\ k.room > 0
  /\ k' = [k EXCEPT !.room = @ - 1]
  /\ s' = [s EXCEPT !.qsend = Tail(@), !.ctx = Head(s.qsend), !.ret = "send"]
  /\ h' = [h EXCEPT !.sent = Append(@, Head(s.qsend)), !.done = Append(@, Head(s.qsend))]
  /\ pc' = "donecb"
  /\ UNCHANGED evio

SendBlocks ==
  /\ pc = "send" /\ s.qsend # <<>> /\ k.room = 0 /\ pc' = "bcbs"
  /\ Unref(s, [h EXCEPT !.blocked = TRUE]) /\ UNCHANGED <<evio, k>>

\* This datagram is dropped and reported, the rest is drained.
SendFails ==
  /\ pc = "send" /\ s.qsend # <<>> /\ Failed(1)
  /\ s' = [s EXCEPT !.qsend = Tail(@)]
  /\ h' = [h EXCEPT !.dropped = Append(@, Head(s.qsend)), !.notified = Append(@, Head(s.qsend))]
  /\ UNCHANGED <<evio, k, pc>>

(***************************************************************************)
(* The completion backend.                                                 *)
(***************************************************************************)
\* A datagram arrived: the receive callback, then the operation is armed again.
r_ev_udp_iocp_recv_complete ==
  /\ pc = "poll" /\ k.rop = "ok"
  /\ k' = [k EXCEPT !.rop = "none"]
  /\ s' = [s EXCEPT !.ret = "rearm"]
  /\ h' = [h EXCEPT !.nrecv = @ + 1] /\ pc' = "recvcb"
  /\ UNCHANGED evio

\* It was cancelled, or failed and is armed again.
RecvCompleteFailed ==
  /\ pc = "poll" /\ k.rop \in {"aborted", "failed"}
  /\ IF k.rop = "failed" /\ s.iocp_recv_active
     THEN r_ev_udp_iocp_post_recv([s EXCEPT !.refs = @ - 1]) /\ UNCHANGED h
     ELSE k' = [k EXCEPT !.rop = "none"] /\ Unref(s, h)
  /\ UNCHANGED <<evio, pc>>

\* The datagram at the head of the queue is taken for the one that completed.
r_ev_udp_iocp_send_complete ==
  /\ pc = "poll" /\ k.sops # <<>> /\ Head(k.sops) # "flight"
  /\ LET d == Head(s.qsend)
         s1 == [s EXCEPT !.qsend = Tail(@)]
     IN  IF s.qsend = <<>> THEN k' = [k EXCEPT !.sops = Tail(@)] /\ Unref(s, h) /\ UNCHANGED pc
         ELSE IF Head(k.sops) = "ok" THEN
           /\ k' = [k EXCEPT !.sops = Tail(@)]
           /\ s' = [s1 EXCEPT !.ctx = d, !.ret = "post"]
           /\ h' = [h EXCEPT !.done = Append(@, d)] /\ pc' = "donecb"
         ELSE
           LET first == First(s1.qsend) IN
           /\ k' = [k EXCEPT !.sops = Tail(@) \o [i \in 1 .. Len(first) |-> "flight"]]
           /\ Unref([s1 EXCEPT !.refs = @ + Len(first)],
                    [h EXCEPT !.dropped = Append(@, d), !.notified = Append(@, d), !.sent = @ \o first])
           /\ UNCHANGED pc
  /\ UNCHANGED evio

\* A callback returns to the code that called it.
CallbackEnd ==
  /\ pc \in {"recvcb", "donecb"}
  /\ LET h1 == IF pc = "donecb" THEN [h EXCEPT !.notified = Append(@, s.ctx)] ELSE h
         s1 == [s EXCEPT !.ctx = 0, !.ret = "user"]
         s2 == [s1 EXCEPT !.refs = @ - 1]
     IN  CASE s.ret \in {"recv", "send"} -> pc' = s.ret /\ s' = s1 /\ h' = h1 /\ UNCHANGED k
           [] s.ret = "post" -> pc' = "poll" /\ \E n \in 0 .. MaxFail : r_ev_udp_iocp_post_send(s2, h1, n)
           [] s.ret = "rearm" ->
                /\ pc' = "poll"
                /\ IF s.iocp_recv_active THEN r_ev_udp_iocp_post_recv(s2) /\ h' = h1
                                         ELSE Unref(s1, h1) /\ UNCHANGED k
  /\ UNCHANGED evio

(***************************************************************************)
(* The kernel.                                                             *)
(***************************************************************************)
Arrives ==
  /\ h.nrecv + k.inq < MaxIn
  /\ k' = [k EXCEPT !.inq = @ + 1]
  /\ Edge({Readable})
  /\ UNCHANGED <<iocbq, events, active, changing, closed, handle, s, pc, h>>

SocketError ==
  /\ ~k.soerr /\ ~Iocp /\ Failed(1)
  /\ k' = [k EXCEPT !.soerr = TRUE] /\ Edge({Readable, Error})
  /\ UNCHANGED <<iocbq, events, active, changing, closed, handle, s, pc, h>>

Drains ==
  /\ k.room < Room /\ k' = [k EXCEPT !.room = @ + 1]
  /\ UNCHANGED <<evio, s, pc, h>>

Completes ==
  /\ \/ k.rop = "armed" /\ k.inq > 0 /\ k' = [k EXCEPT !.rop = "ok", !.inq = @ - 1]
     \/ k.rop = "armed" /\ Failed(1) /\ k' = [k EXCEPT !.rop = "failed"]
     \/ \E i \in DOMAIN k.sops, r \in {"ok", "failed"} :
          /\ k.sops[i] = "flight" /\ (r = "failed" => Failed(1))
          /\ k' = [k EXCEPT !.sops[i] = r]
  /\ UNCHANGED <<evio, s, pc, h>>

(***************************************************************************)
(* What the program does: it stops receiving outside the receive callback  *)
(* and starts again when the cancelled operation has ended; on the         *)
(* completion backend it does not send from the done callback.             *)
(***************************************************************************)
Operation ==
  \/ r_ev_udp_send /\ ~(Iocp /\ pc = "donecb")
  \/ r_ev_udp_recv_start /\ k.rop = "none" /\ ~(Iocp /\ pc = "recvcb")
  \/ r_ev_udp_recv_stop /\ (Iocp \/ pc # "recvcb")
  \/ Release

Loop ==
  \/ UserEnd \/ r_ev_udp_send_iocb_ev
  \/ /\ \/ BcbsEnd \/ r_ev_udp_iocb \/ PollOther
        \/ RecvOk \/ RecvBlocks \/ RecvFails \/ r_ev_udp_error_iocb
        \/ SendDrained \/ SendOk \/ SendBlocks \/ SendFails
        \/ r_ev_udp_iocp_recv_complete \/ RecvCompleteFailed \/ r_ev_udp_iocp_send_complete \/ CallbackEnd
     /\ UNCHANGED detached

Kernel == Arrives \/ SocketError \/ Drains \/ Completes

Next == Loop \/ ((Operation \/ Kernel) /\ UNCHANGED detached)
Spec == Init /\ [][Next]_udpvars

(***************************************************************************)
(* Properties.                                                             *)
(***************************************************************************)
Increasing(q) == \A i, j \in DOMAIN q : i < j => q[i] < q[j]

\* A datagram r_ev_udp_send accepted is handed to the kernel at most once and in
\* the order of the calls; it is queued, or done was called for it, or it was
\* dropped and reported, and never two of these; its datanotify is called
\* exactly once, at the latest when the source is freed.
SendAccounted ==
  /\ Increasing(h.sent)
  /\ IsInjective(h.done \o h.dropped \o s.qsend)
  /\ s.refs > 0 => Range(h.done \o h.dropped \o s.qsend) = 1 .. h.nsend
  /\ IsInjective(h.notified)
  /\ Range(h.notified) = (1 .. h.nsend) \ (Range(s.qsend) \cup {s.ctx})

\* While datagrams are queued the send path is on its way: its callback is
\* queued, it runs, or an overlapped send is pending -- unless the kernel's
\* buffer was full once, see SendResumes.  While the program receives, a
\* datagram that waits is noticed: the watcher is to be reported or applied, or
\* the overlapped receive is armed; after an error, or when its event came while
\* the program had stopped receiving, with the next event.
Served ==
  /\ s.qsend # <<>> => h.blocked \/ s.bcbs > 0 \/ pc \in {"send", "donecb"} \/ k.sops # <<>>
  /\ s.recv_iocb_ctx # 0 /\ k.inq > 0 => h.undrained \/ edge \/ changing \/ pc \in {"recv", "recvcb"}
  /\ s.iocp_recv_active => k.rop # "none" \/ pc = "recvcb"

\* The source is not freed while a callback or an operation still refers to it.
RefsExact ==
  s.refs = Bool(h.held) + s.bcbs + Len(k.sops) + Bool(k.rop # "none")
             + Bool(pc = "send" \/ (pc \in {"donecb", "recvcb"} /\ s.ret \in {"send", "post", "rearm"}))

\* Not with this code: a datagram that met a full kernel buffer is sent later
\* (the done callback fires on completion).
SendResumes == s.qsend # <<>> ~> s.qsend = <<>>

\* Not with this code when recv_stop is called in the receive callback: the
\* program's data is not used once it was released.
QuietAfterStop == ~h.late
=============================================================================
