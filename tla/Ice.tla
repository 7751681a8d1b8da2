-------------------------------- MODULE Ice ---------------------------------
(***************************************************************************)
(* One agent of rlib's ICE transport (rlib/rtc/rrtcicetransport.c): the    *)
(* check list and its pacing, retransmission, role conflict, nomination,   *)
(* server-reflexive gathering, RFC 4571 framed TCP connections and the     *)
(* life cycle of the candidate sockets.  Every operator takes the agent's  *)
(* record a and returns it after the C function of the same name; what the *)
(* function sends is appended to a.out.  TURN is in IceTurn.               *)
(*                                                                         *)
(* A candidate is [addr, proto, pri, tt].  A pair borrows the UDP socket   *)
(* of its local candidate (conn = 0) or a TCP connection (conn > 0); conn  *)
(* is 0 and udp FALSE in a pair whose connection was dropped.              *)
(***************************************************************************)
EXTENDS Integers, Sequences, SequencesExt

CONSTANTS CHECK_MAX_SENDS,   \* R_RTC_ICE_CHECK_MAX_SENDS
          TCP_MAX_CONNS,     \* R_RTC_ICE_TCP_MAX_CONNS
          TCP_RX_MAX,        \* R_RTC_ICE_TCP_RX_MAX, in octets of the model
          SHIFT              \* stands for 2^32 in a pair priority


NoCand == [addr |-> "none", proto |-> "none", pri |-> 0, tt |-> "none"]
HDR == 2                     \* R_RTC_ICE_TCP_FRAME_HDR
PAYLOAD == 1                 \* every message is one octet long in the model
Other(role) == IF role = "CONTROLLING" THEN "CONTROLLED" ELSE "CONTROLLING"

Message(k, tid) == [k |-> k, tid |-> tid, from |-> "none", to |-> "none", conn |-> 0,
                    key |-> "none", ufrag |-> "none", role |-> "none", tie |-> 0,
                    use |-> FALSE, pri |-> 0, code |-> 0]

Emit(a, from, to, conn, m) ==
  [a EXCEPT !.out = Append(@, [m EXCEPT !.from = from, !.to = to, !.conn = conn])]

ConnIdx(a, c) == IF \E i \in 1..Len(a.conns) : a.conns[i].id = c
                 THEN CHOOSE i \in 1..Len(a.conns) : a.conns[i].id = c ELSE 0
IsOpen(a, l) == l \in DOMAIN a.sock /\ a.sock[l] = "open"

(* The socket or connection a pair borrows is still there. *)
Live(a, p) == IF p.conn # 0 THEN ConnIdx(a, p.conn) # 0 ELSE p.udp /\ IsOpen(a, p.l)

r_rtc_ice_transport_new(ufrag, pwd, tie) ==
  [ufrag |-> ufrag, pwd |-> pwd, rpwd |-> "none", rufrag |-> "none", loop |-> FALSE,
   state |-> "NEW", role |-> "CONTROLLING", tie |-> tie, nominated |-> FALSE,
   sel |-> [l |-> NoCand, r |-> "none", conn |-> 0], send |-> FALSE, checks |-> << >>,
   remote |-> << >>, sock |-> [l \in {} |-> "none"], conns |-> << >>, srflx |-> << >>,
   ta |-> FALSE, next |-> 1, out |-> << >>, got |-> << >>, found |-> {}, dangling |-> FALSE]

r_rtc_ice_pair_priority(role, local, remote) ==
  LET g == IF role = "CONTROLLING" THEN local ELSE remote
      d == IF role = "CONTROLLING" THEN remote ELSE local
      lo == IF g < d THEN g ELSE d
      hi == IF g < d THEN d ELSE g
  IN lo * SHIFT + 2 * hi + (IF g > d THEN 1 ELSE 0)

r_rtc_ice_recompute_priorities(a) ==
  [a EXCEPT !.checks = [i \in DOMAIN @ |-> [a.checks[i] EXCEPT !.pri =
                          r_rtc_ice_pair_priority(a.role, a.checks[i].l.pri, a.checks[i].r.pri)]]]

r_rtc_ice_find_pair(a, l, addr) ==
  LET S == {i \in 1..Len(a.checks) : a.checks[i].l = l /\ a.checks[i].r.addr = addr}
  IN IF S = {} THEN 0 ELSE CHOOSE i \in S : \A j \in S : i <= j

r_rtc_ice_add_pair(a, l, udp, conn, r) ==
  [a EXCEPT !.checks = Append(@,
     [l |-> l, r |-> r, udp |-> udp, conn |-> conn, st |-> "WAITING", nom |-> FALSE,
      use |-> FALSE, tid |-> 0, nsent |-> 0, timer |-> FALSE,
      pri |-> r_rtc_ice_pair_priority(a.role, l.pri, r.pri)])]

r_rtc_ice_build_check(a, p, tid) ==
  [Message("req", tid) EXCEPT !.key = a.rpwd, !.ufrag = a.rufrag, !.role = a.role,
                              !.tie = a.tie, !.use = p.nom, !.pri = p.l.pri]

(* First pair of the highest priority among those in state st, or 0. *)
Best(a, st) ==
  LET S == {i \in 1..Len(a.checks) : a.checks[i].st = st}
      T == {i \in S : \A j \in S : a.checks[i].pri >= a.checks[j].pri}
  IN IF S = {} THEN 0 ELSE CHOOSE i \in T : \A j \in T : i <= j
r_rtc_ice_best_succeeded(a) == Best(a, "SUCCEEDED")
r_rtc_ice_next_waiting(a) == Best(a, "WAITING")

r_rtc_ice_maybe_failed(a) ==
  IF a.nominated \/ a.state = "FAILED" \/ a.ta \/ a.srflx # << >>
     \/ \E i \in DOMAIN a.checks : a.checks[i].st # "FAILED"
  THEN a ELSE [a EXCEPT !.state = "FAILED"]

r_rtc_ice_transmit_check(a, i, fresh) ==
  LET p == IF fresh THEN [a.checks[i] EXCEPT !.tid = a.next, !.nsent = 0] ELSE a.checks[i]
      b == [a EXCEPT !.next = IF fresh THEN @ + 1 ELSE @,
                     !.checks[i] = [p EXCEPT !.st = "IN_PROGRESS", !.nsent = @ + 1, !.timer = TRUE]]
  IN IF Live(a, p) THEN Emit(b, p.l.addr, p.r.addr, p.conn, r_rtc_ice_build_check(a, p, p.tid))
     ELSE [b EXCEPT !.dangling = TRUE]

r_rtc_ice_schedule_checks(a) ==
  IF a.ta \/ a.nominated \/ ~a.loop \/ a.rpwd = "none" \/ r_rtc_ice_next_waiting(a) = 0
  THEN a ELSE [a EXCEPT !.ta = TRUE]

r_rtc_ice_ta_tick(a0) ==
  LET a == [a0 EXCEPT !.ta = FALSE]
      i == r_rtc_ice_next_waiting(a)
  IN IF a.nominated THEN a
     ELSE r_rtc_ice_schedule_checks(IF i = 0 THEN a ELSE r_rtc_ice_transmit_check(a, i, TRUE))

r_rtc_ice_check_timeout(a0, i) ==
  LET a == [a0 EXCEPT !.checks[i].timer = FALSE]
      p == a.checks[i]
      f == [a EXCEPT !.checks[i].st = "FAILED"]
      j == r_rtc_ice_best_succeeded(f)
  IN CASE p.st # "IN_PROGRESS" \/ a.nominated -> a
       [] p.nsent < CHECK_MAX_SENDS -> r_rtc_ice_transmit_check(a, i, FALSE)
       [] p.nom /\ a.role = "CONTROLLING" /\ j # 0 ->
            r_rtc_ice_transmit_check([f EXCEPT !.checks[j].nom = TRUE], j, TRUE)
       [] OTHER -> r_rtc_ice_maybe_failed(f)

-----------------------------------------------------------------------------
(* Server-reflexive gathering. *)
r_rtc_ice_srflx_transmit(a, k, fresh) ==
  LET q == IF fresh THEN [a.srflx[k] EXCEPT !.tid = a.next, !.nsent = 0] ELSE a.srflx[k]
      b == [a EXCEPT !.next = IF fresh THEN @ + 1 ELSE @, !.srflx[k] = [q EXCEPT !.nsent = @ + 1]]
  IN IF IsOpen(a, q.l) THEN Emit(b, q.l.addr, q.server, 0, Message("stun", q.tid))
     ELSE [b EXCEPT !.dangling = TRUE]

r_rtc_ice_srflx_timeout(a, k) ==
  IF a.srflx[k].nsent >= CHECK_MAX_SENDS THEN [a EXCEPT !.srflx = RemoveAt(@, k)]
  ELSE r_rtc_ice_srflx_transmit(a, k, FALSE)

(* TRUE and the new agent when the response answers a gathering request. *)
r_rtc_ice_srflx_response(a, m) ==
  LET S == {k \in 1..Len(a.srflx) : a.srflx[k].tid = m.tid}
      k == CHOOSE n \in S : TRUE
  IN [hit |-> S # {},
      a |-> IF S = {} \/ a.srflx[k].server # m.from THEN a
            ELSE [a EXCEPT !.srflx = RemoveAt(@, k), !.found = @ \cup {a.srflx[k].l.addr}]]

r_rtc_ice_transport_gather_srflx_candidates(a, server) ==
  LET open == SetToSeq({l \in DOMAIN a.sock : l.proto = "UDP" /\ a.sock[l] = "open"})
  IN FoldLeft(LAMBDA b, l : r_rtc_ice_srflx_transmit(
               [b EXCEPT !.srflx = Append(@, [l |-> l, server |-> server, tid |-> 0, nsent |-> 0])],
               Len(b.srflx) + 1, TRUE), a, open)

-----------------------------------------------------------------------------
(* Binding requests and responses. *)
r_rtc_ice_select_pair(a, i) ==
  LET p == a.checks[i]
  IN IF a.nominated THEN a
     ELSE [a EXCEPT !.nominated = TRUE, !.state = "CONNECTED", !.send = TRUE,
                    !.sel = [l |-> p.l, r |-> p.r.addr, conn |-> p.conn]]

r_rtc_ice_check_integrity(m, pwd) == pwd # "none" /\ m.key = pwd

r_rtc_ice_maybe_select_controlled(a, i) ==
  IF a.role = "CONTROLLED" /\ a.checks[i].use /\ a.checks[i].st = "SUCCEEDED"
  THEN r_rtc_ice_select_pair(a, i) ELSE a

r_rtc_ice_reply(a, src, m) == Emit(a, src.local.addr, src.addr, src.conn, m)
create_stun_response_binding(a, tid) == [Message("ok", tid) EXCEPT !.key = a.pwd]
create_error_response(a, tid, code) == [Message("err", tid) EXCEPT !.key = a.pwd, !.code = code]

(* The conflict of RFC 8445 7.3.1.1: what the agent becomes, or refuses. *)
Conflict(a, m) ==
  CASE m.role # a.role -> "none"
    [] a.role = "CONTROLLING" -> IF a.tie >= m.tie THEN "refuse" ELSE "switch"
    [] OTHER -> IF a.tie >= m.tie THEN "switch" ELSE "refuse"

\* mutant: a request does not trigger a check of its own
request_triggers_nothing(a0, m, src) ==
  LET b == IF Conflict(a0, m) = "switch"
           THEN r_rtc_ice_recompute_priorities([a0 EXCEPT !.role = Other(@)]) ELSE a0
      c == r_rtc_ice_reply(b, src, create_stun_response_binding(b, m.tid))
      i == r_rtc_ice_find_pair(c, src.local, src.addr)
  IN CASE ~r_rtc_ice_check_integrity(m, a0.pwd) \/ m.ufrag # a0.ufrag -> a0
       [] Conflict(a0, m) = "refuse" -> r_rtc_ice_reply(a0, src, create_error_response(a0, m.tid, 487))
       [] i # 0 /\ m.use -> r_rtc_ice_maybe_select_controlled([c EXCEPT !.checks[i].use = TRUE], i)
       [] OTHER -> c
\* The triggered check of pair i of d, and its nomination.
Triggered(a0, m, d, i) ==
  LET e == IF a0.rpwd # "none" /\ d.checks[i].st \notin {"IN_PROGRESS", "SUCCEEDED"}
           THEN r_rtc_ice_transmit_check(d, i, TRUE) ELSE d
  IN IF m.use THEN r_rtc_ice_maybe_select_controlled([e EXCEPT !.checks[i].use = TRUE], i) ELSE e
r_rtc_ice_handle_binding_request(a0, m, src) ==
  LET b == IF Conflict(a0, m) = "switch"
           THEN r_rtc_ice_recompute_priorities([a0 EXCEPT !.role = Other(@)]) ELSE a0
      c == r_rtc_ice_reply(b, src, create_stun_response_binding(b, m.tid))
      prflx == [addr |-> src.addr, proto |-> IF src.conn # 0 THEN "TCP" ELSE "UDP",
                pri |-> m.pri, tt |-> "none"]
      d == IF r_rtc_ice_find_pair(c, src.local, src.addr) # 0 THEN c
           ELSE r_rtc_ice_add_pair([c EXCEPT !.remote = Append(@, prflx)],
                                   src.local, src.conn = 0, src.conn, prflx)
  IN CASE ~r_rtc_ice_check_integrity(m, a0.pwd) \/ m.ufrag # a0.ufrag -> a0
       [] Conflict(a0, m) = "refuse" -> r_rtc_ice_reply(a0, src, create_error_response(a0, m.tid, 487))
       [] src.local = NoCand -> c
       [] OTHER -> Triggered(a0, m, d, r_rtc_ice_find_pair(d, src.local, src.addr))

r_rtc_ice_handle_binding_response(a, m) ==
  LET x == r_rtc_ice_srflx_response(a, m)
      S == {i \in 1..Len(a.checks) : a.checks[i].st = "IN_PROGRESS" /\ a.checks[i].tid = m.tid}
      i == CHOOSE n \in S : \A j \in S : n <= j
      b == [a EXCEPT !.checks[i].timer = FALSE]
      ok == [b EXCEPT !.checks[i].st = "SUCCEEDED"]
  IN CASE x.hit -> x.a
       [] ~r_rtc_ice_check_integrity(m, a.rpwd) \/ S = {} -> a
       [] m.k = "err" /\ m.code = 487 ->
            r_rtc_ice_transmit_check([r_rtc_ice_recompute_priorities([b EXCEPT !.role = Other(@)])
                                        EXCEPT !.checks[i].nom = FALSE], i, TRUE)
       [] m.k = "err" /\ m.code # 487 -> [b EXCEPT !.checks[i].st = "FAILED"]
       [] a.role = "CONTROLLED" -> r_rtc_ice_maybe_select_controlled(ok, i)
       [] b.checks[i].nom -> r_rtc_ice_select_pair(ok, i)
       [] a.nominated -> ok
       [] OTHER -> r_rtc_ice_transmit_check([ok EXCEPT !.checks[i].nom = TRUE], i, TRUE)

r_rtc_ice_handle_stun(a, m, src) ==
  IF m.k = "req" THEN r_rtc_ice_handle_binding_request(a, m, src)
  ELSE r_rtc_ice_handle_binding_response(a, m)

(* What the source of a message is not STUN goes to the application. *)
Dispatch(a, m, src) ==
  IF m.k = "data" THEN [a EXCEPT !.got = Append(@, m.tid)] ELSE r_rtc_ice_handle_stun(a, m, src)

r_rtc_ice_local_for_sock(a, addr) ==
  LET S == {l \in DOMAIN a.sock : a.sock[l] = "open" /\ l.addr = addr}
  IN IF S = {} THEN NoCand ELSE CHOOSE l \in S : TRUE

r_rtc_ice_transport_udp_packet_cb(a, m) ==
  Dispatch(a, m, [local |-> r_rtc_ice_local_for_sock(a, m.to), addr |-> m.from, conn |-> 0])

-----------------------------------------------------------------------------
(* TCP connections.  An octet of the stream is <<message, position>>. *)
r_rtc_ice_tcp_frame(m) == [n \in 1..HDR + PAYLOAD |-> <<m, n>>]

r_rtc_ice_drop_conn(a, c) ==
  [a EXCEPT !.sel.conn = IF @ = c THEN 0 ELSE @,
            !.send = IF a.sel.conn = c THEN FALSE ELSE @,
            !.state = IF a.sel.conn = c /\ @ = "CONNECTED" THEN "DISCONNECTED" ELSE @,
            !.checks = [i \in DOMAIN @ |-> IF @[i].conn # c THEN @[i]
                          ELSE [@[i] EXCEPT !.timer = FALSE, !.conn = 0, !.st = "FAILED"]],
            !.conns = SelectSeq(@, LAMBDA x : x.id # c)]

r_rtc_ice_tcp_dispatch(a, c, m) ==
  LET x == a.conns[ConnIdx(a, c)]
  IN Dispatch(a, m, [local |-> x.local, addr |-> x.remote, conn |-> c])

RECURSIVE Frames(_, _, _)
Frames(a, c, rx) ==          \* the dispatch loop of tcp_recv_cb, and the slide after it
  CASE ConnIdx(a, c) = 0 -> a
    [] Len(rx) < HDR \/ Len(rx) < HDR + PAYLOAD -> [a EXCEPT !.conns[ConnIdx(a, c)].rx = rx]
    [] OTHER -> Frames(r_rtc_ice_tcp_dispatch(a, c, rx[HDR + 1][1]), c,
                       SubSeq(rx, HDR + PAYLOAD + 1, Len(rx)))

\* mutant: a partial frame left in the accumulator is forgotten
tcp_recv_forgets(a, c, octets) == Frames(a, c, octets)
r_rtc_ice_tcp_recv_cb(a, c, octets) ==
  LET rx == a.conns[ConnIdx(a, c)].rx \o octets
  IN IF octets = << >> \/ Len(rx) > TCP_RX_MAX THEN r_rtc_ice_drop_conn(a, c)
     ELSE Frames(a, c, rx)

r_rtc_ice_tcp_conn_new(a, id, local, remote, up) ==
  [a EXCEPT !.conns = Append(@, [id |-> id, local |-> local, remote |-> remote.addr,
                                 cand |-> remote, up |-> up, rx |-> << >>])]

(* The peer at the (ephemeral) address dialled our listener; refused at the cap. *)
r_rtc_ice_tcp_on_accept(a, id, local, from) ==
  IF ~IsOpen(a, local) \/ Len(a.conns) >= TCP_MAX_CONNS THEN a
  ELSE r_rtc_ice_tcp_conn_new(a, id, local, [NoCand EXCEPT !.addr = from], TRUE)

r_rtc_ice_tcp_connected(a0, c, ok) ==
  LET x == a0.conns[ConnIdx(a0, c)]
      a == [a0 EXCEPT !.conns[ConnIdx(a0, c)].up = TRUE]
      b == IF r_rtc_ice_find_pair(a, x.local, x.remote) # 0 THEN a
           ELSE r_rtc_ice_add_pair(a, x.local, FALSE, c, x.cand)
  IN IF ~ok THEN [a0 EXCEPT !.conns = SelectSeq(@, LAMBDA y : y.id # c)]
     ELSE r_rtc_ice_schedule_checks(b)

r_rtc_ice_tcp_connect(a, local, remote) ==
  LET b == r_rtc_ice_tcp_conn_new(a, a.next, local, remote, FALSE)
  IN [b EXCEPT !.state = IF @ = "NEW" THEN "CHECKING" ELSE @, !.next = @ + 1]

r_rtc_ice_tcp_conn_exists(a, l, addr) ==
  \E i \in DOMAIN a.conns : a.conns[i].local = l /\ a.conns[i].remote = addr

r_rtc_ice_tcp_start_candidate(a, l) ==
  IF l.tt # "active" \/ ~a.loop \/ a.rpwd = "none" THEN a
  ELSE FoldLeft(LAMBDA b, r : IF r.proto = "TCP" /\ r.tt = "passive"
                                /\ ~r_rtc_ice_tcp_conn_exists(b, l, r.addr)
                             THEN r_rtc_ice_tcp_connect(b, l, r) ELSE b, a, a.remote)

-----------------------------------------------------------------------------
(* Candidates, start and close. *)
r_rtc_ice_pair_local_with_remotes(a, l) ==
  FoldLeft(LAMBDA b, r : IF r.proto # "UDP" \/ r_rtc_ice_find_pair(b, l, r.addr) # 0 THEN b
                         ELSE r_rtc_ice_schedule_checks(r_rtc_ice_add_pair(b, l, TRUE, 0, r)),
           a, a.remote)

Opened(a, l) == [a EXCEPT !.sock = [x \in DOMAIN @ \cup {l} |-> IF x = l THEN "open" ELSE @[x]],
                          !.state = IF @ = "NEW" THEN "CHECKING" ELSE @]
r_rtc_ice_transport_setup_udp(a, l) == r_rtc_ice_pair_local_with_remotes(Opened(a, l), l)
r_rtc_ice_transport_setup_tcp_passive(a, l) == Opened(a, l)

candidate_socket_start(a, l) ==
  CASE l.tt = "active" -> r_rtc_ice_tcp_start_candidate(a, l)
    [] IsOpen(a, l) -> a
    [] l.proto = "TCP" -> r_rtc_ice_transport_setup_tcp_passive(a, l)
    [] OTHER -> r_rtc_ice_transport_setup_udp(a, l)

r_rtc_ice_transport_start(a) ==
  IF a.loop THEN a
  ELSE FoldLeft(LAMBDA b, l : candidate_socket_start(b, l), [a EXCEPT !.loop = TRUE],
               SetToSeq(DOMAIN a.sock))

(* The socket of every local candidate is released; timers stay armed. *)
r_rtc_ice_transport_close(a) ==
  [a EXCEPT !.sock = [l \in DOMAIN @ |-> "null"], !.state = "CLOSED"]

r_rtc_ice_add_host_candidate(a, l) ==
  LET b == [a EXCEPT !.sock = [x \in DOMAIN @ \cup {l} |-> IF x = l THEN "null" ELSE @[x]]]
  IN IF l \in DOMAIN a.sock THEN a ELSE IF a.loop THEN candidate_socket_start(b, l) ELSE b

r_rtc_ice_transport_set_remote_credentials(a, ufrag, pwd) ==
  [a EXCEPT !.rufrag = ufrag, !.rpwd = pwd]

r_rtc_ice_pair_new_remote_cb(a, l, r) ==
  CASE l.proto = "TCP" -> r_rtc_ice_tcp_start_candidate(a, l)
    [] ~IsOpen(a, l) \/ r.proto # "UDP" \/ r_rtc_ice_find_pair(a, l, r.addr) # 0 -> a
    [] OTHER -> r_rtc_ice_schedule_checks(r_rtc_ice_add_pair(a, l, TRUE, 0, r))

r_rtc_ice_transport_add_remote_candidate(a, r) ==
  FoldLeft(LAMBDA b, l : r_rtc_ice_pair_new_remote_cb(b, l, r),
          [a EXCEPT !.remote = Append(@, r)], SetToSeq(DOMAIN a.sock))

r_rtc_ice_transport_set_role(a, role) == [a EXCEPT !.role = role]

(* The application sends on the selected pair; WRONG_STATE changes nothing. *)
r_rtc_ice_transport_send_udp(a, tid) ==
  IF a.sel.conn # 0 \/ IsOpen(a, a.sel.l)
  THEN Emit(a, a.sel.l.addr, a.sel.r, a.sel.conn, Message("data", tid)) ELSE a
r_rtc_ice_transport_send(a, tid) == IF a.send THEN r_rtc_ice_transport_send_udp(a, tid) ELSE a

-----------------------------------------------------------------------------
(***************************************************************************)
(* Two ICE agents with an application script each, a network               *)
(* that loses and reorders datagrams and delivers TCP streams in order but *)
(* cut anywhere, a STUN server that may not answer, and the loop's timers. *)
(* The plan chosen by Init fixes the roles, the candidates, what each side *)
(* is told of the other and how often the network misbehaves.              *)
(***************************************************************************)
CONSTANT Plans
VARIABLES plan, ag, pc, net, stream, loss, eofs, sent

ivars == <<plan, ag, pc, net, stream, loss, eofs, sent>>
Agents == {"A", "B"}
Peer(x) == IF x = "A" THEN "B" ELSE "A"
STUN == "stun-server"
Conns == 1..4 \cup 51..54        \* bound on connection numbers

(* The agent whose candidate has the address; the STUN server; or nobody. *)
Owner(addr) ==
  CASE \E l \in DOMAIN ag["A"].sock : l.addr = addr -> "A"
    [] \E l \in DOMAIN ag["B"].sock : l.addr = addr -> "B"
    [] OTHER -> "none"

(* Connection c of agent A is known to B as c + 50, and the reverse. *)
PeerConn(c) == IF c > 50 THEN c - 50 ELSE c + 50

(* After a handler ran: datagrams join the network, frames the peer's stream. *)
Flush(x, a) ==
  LET dg == {m \in Range(a.out) : m.conn = 0 /\ m.to \notin plan.black}
      frames(s) == FoldLeft(LAMBDA t, m : IF m.conn = 0 THEN t
                                          ELSE [t EXCEPT ![Peer(x)][PeerConn(m.conn)] = @ \o r_rtc_ice_tcp_frame(m)],
                            s, a.out)
  IN /\ ag' = [ag EXCEPT ![x] = [a EXCEPT !.out = << >>]]
     /\ net' = net \cup dg
     /\ stream' = frames(stream)

(* A call of the application's script. *)
Do(a, x, s) ==
  CASE s.op = "role" -> r_rtc_ice_transport_set_role(a, s.arg)
    [] s.op = "local" -> r_rtc_ice_add_host_candidate(a, s.arg)
    [] s.op = "start" -> r_rtc_ice_transport_start(a)
    [] s.op = "cred" -> r_rtc_ice_transport_set_remote_credentials(a, Peer(x), Peer(x))
    [] s.op = "remote" -> r_rtc_ice_transport_add_remote_candidate(a, s.arg)
    [] s.op = "srflx" -> r_rtc_ice_transport_gather_srflx_candidates(a, STUN)
    [] s.op = "close" -> r_rtc_ice_transport_close(a)

(* The first plan.pre[x] calls were made before the two sides can interact. *)
Init ==
  /\ plan \in Plans
  /\ ag = [x \in Agents |-> FoldLeft(LAMBDA a, s : Do(a, x, s),
                                     r_rtc_ice_transport_new(x, x, plan.tie[x]),
                                     SubSeq(plan.script[x], 1, plan.pre[x]))]
  /\ pc = [x \in Agents |-> plan.pre[x] + 1]
  /\ net = plan.stray
  /\ stream = [x \in Agents |-> [c \in Conns |-> << >>]]
  /\ loss = plan.loss
  /\ eofs = plan.eofs
  /\ sent = {}

Call(x) ==
  /\ pc[x] <= Len(plan.script[x])
  /\ Flush(x, Do(ag[x], x, plan.script[x][pc[x]]))
  /\ pc' = [pc EXCEPT ![x] = @ + 1]
  /\ UNCHANGED <<plan, loss, eofs, sent>>

(* A datagram reaches a socket that is open; the STUN server answers. *)
Datagram(m) ==
  /\ m \in net /\ Owner(m.to) # "none"
  /\ LET x == Owner(m.to)
     IN IF r_rtc_ice_local_for_sock(ag[x], m.to) = NoCand
        THEN net' = net \ {m} /\ UNCHANGED <<ag, stream>>
        ELSE LET a == r_rtc_ice_transport_udp_packet_cb(ag[x], m)
             IN /\ ag' = [ag EXCEPT ![x] = [a EXCEPT !.out = << >>]]
                /\ net' = (net \ {m}) \cup {o \in Range(a.out) : o.conn = 0 /\ o.to \notin plan.black}
                /\ UNCHANGED stream
  /\ UNCHANGED <<plan, pc, loss, eofs, sent>>
Reflect(m) ==
  /\ m \in net /\ m.to = STUN
  /\ net' = (net \ {m}) \cup {[m EXCEPT !.k = "ok", !.to = m.from, !.from = STUN]}
  /\ UNCHANGED <<plan, ag, pc, stream, loss, eofs, sent>>
Lose(m) ==
  /\ m \in net /\ loss > 0 /\ loss' = loss - 1
  /\ net' = net \ {m}
  /\ UNCHANGED <<plan, ag, pc, stream, eofs, sent>>

(* The dial of connection i of x completes, or is refused. *)
Dialled(x, i) ==
  LET c == ag[x].conns[i].id
      l == r_rtc_ice_local_for_sock(ag[Peer(x)], ag[x].conns[i].remote)
      b == r_rtc_ice_tcp_on_accept(ag[Peer(x)], PeerConn(c), l, "ephemeral")
      ok == b # ag[Peer(x)]
  IN /\ ~ag[x].conns[i].up
     /\ ag' = [ag EXCEPT ![x] = r_rtc_ice_tcp_connected(@, c, ok), ![Peer(x)] = b]
     /\ UNCHANGED <<plan, pc, net, stream, loss, eofs, sent>>

(* n octets of the stream, or its end when the network drops the connection. *)
Octets(x, c, n) ==
  /\ ConnIdx(ag[x], c) # 0 /\ n \in 1..Len(stream[x][c])
  /\ LET a == r_rtc_ice_tcp_recv_cb(ag[x], c, SubSeq(stream[x][c], 1, n))
         up == [stream EXCEPT ![x][c] = SubSeq(@, n + 1, Len(@))]
     IN /\ ag' = [ag EXCEPT ![x] = [a EXCEPT !.out = << >>]]
        /\ stream' = FoldLeft(LAMBDA t, m : IF m.conn = 0 THEN t
                                ELSE [t EXCEPT ![Peer(x)][PeerConn(m.conn)] = @ \o r_rtc_ice_tcp_frame(m)],
                              up, a.out)
        /\ net' = net \cup {o \in Range(a.out) : o.conn = 0}
  /\ UNCHANGED <<plan, pc, loss, eofs, sent>>
Eof(x, c) ==
  /\ ConnIdx(ag[x], c) # 0 /\ ag[x].conns[ConnIdx(ag[x], c)].up
  /\ \/ eofs > 0 /\ eofs' = eofs - 1
     \/ ConnIdx(ag[Peer(x)], PeerConn(c)) = 0 /\ stream[x][c] = << >> /\ UNCHANGED eofs
  /\ ag' = [ag EXCEPT ![x] = r_rtc_ice_tcp_recv_cb(@, c, << >>)]
  /\ UNCHANGED <<plan, pc, net, stream, loss, sent>>

(* Timers.  A retransmission timer fires once its exchange is over: the     *)
(* request and its answer were lost or refused, and both sides have started. *)
InFlight(x, tid) == \/ \E m \in net : m.tid = tid /\ (Owner(m.from) = x \/ Owner(m.to) = x)
TaTick(x) == /\ ag[x].ta
             /\ Flush(x, r_rtc_ice_ta_tick(ag[x]))
             /\ UNCHANGED <<plan, pc, loss, eofs, sent>>
CheckTimeout(x, i) ==
  /\ ag["A"].loop /\ ag["B"].loop
  /\ ag[x].checks[i].timer /\ ~InFlight(x, ag[x].checks[i].tid)
  /\ \A c \in Conns : stream["A"][c] = << >> /\ stream["B"][c] = << >>
  /\ Flush(x, r_rtc_ice_check_timeout(ag[x], i))
  /\ UNCHANGED <<plan, pc, loss, eofs, sent>>
SrflxTimeout(x, k) ==
  /\ ~InFlight(x, ag[x].srflx[k].tid)
  /\ Flush(x, r_rtc_ice_srflx_timeout(ag[x], k))
  /\ UNCHANGED <<plan, pc, loss, eofs, sent>>

(* Once connected, each application sends one packet. *)
AppSend(x) ==
  /\ x \notin sent /\ ag[x].state = "CONNECTED"
  /\ sent' = sent \cup {x}
  /\ Flush(x, r_rtc_ice_transport_send(ag[x], 1000))
  /\ UNCHANGED <<plan, pc, loss, eofs>>

Next ==
  \/ \E x \in Agents : Call(x) \/ TaTick(x) \/ AppSend(x)
  \/ \E m \in net : Datagram(m) \/ Reflect(m) \/ Lose(m)
  \/ \E x \in Agents : \E i \in 1..Len(ag[x].conns) : Dialled(x, i)
  \/ \E x \in Agents, c \in Conns : Eof(x, c) \/ \E n \in {1, Len(stream[x][c])} : Octets(x, c, n)
  \/ \E x \in Agents : \E i \in 1..Len(ag[x].checks) : CheckTimeout(x, i)
  \/ \E x \in Agents : \E k \in 1..Len(ag[x].srflx) : SrflxTimeout(x, k)

Spec == Init /\ [][Next]_ivars

-----------------------------------------------------------------------------

Udp(a, p) == [addr |-> a, proto |-> "UDP", pri |-> p, tt |-> "none"]
Tcp(a, t) == [addr |-> a, proto |-> "TCP", pri |-> 1, tt |-> t]
A1 == Udp("a1", 2)
B1 == Udp("b1", 2)
B2 == Udp("b2", 1)
Op(o, x) == [op |-> o, arg |-> x]
Go == <<Op("cred", NoCand), Op("start", NoCand)>>
Ties == {[A |-> 1, B |-> 2], [A |-> 2, B |-> 1]}
Roles == {"CONTROLLING", "CONTROLLED"}
Stray == [Message("req", 900) EXCEPT !.from = "old", !.to = "a1", !.key = "A", !.ufrag = "previous"]

Plan(ra, rb, la, lb, sa, sb) ==
  [role |-> [A |-> ra, B |-> rb], tie |-> [A |-> 1, B |-> 2],
   script |-> [A |-> <<Op("role", ra)>> \o [i \in DOMAIN la |-> Op("local", la[i])] \o Go \o sa,
               B |-> <<Op("role", rb)>> \o [i \in DOMAIN lb |-> Op("local", lb[i])] \o Go \o sb],
   pre |-> [A |-> Len(la) + Len(sa) + 3, B |-> Len(lb) + Len(sb) + 3], loss |-> 0, eofs |-> 0, black |-> {}, stray |-> {}]

(* One pair: every combination of roles and tie-breakers, a lost message,  *)
(* and one side that only learns the other from its checks.                *)
OnePair ==
  {[Plan(ra, rb, <<A1>>, <<B1>>, <<Op("remote", B1)>>, sb) EXCEPT !.tie = t, !.loss = 1, !.pre = [A |-> 4, B |-> 4]] :
     ra \in Roles, rb \in Roles, t \in Ties, sb \in {<<Op("remote", A1)>>, << >>}}
(* Two pairs, one of them black-holed: the valid one must be found. *)
TwoPairs ==
  {[Plan("CONTROLLING", "CONTROLLED", <<A1>>, <<B1, B2>>,
         <<Op("remote", B1), Op("remote", B2)>>, <<Op("remote", A1)>>) EXCEPT !.black = bl, !.stray = {Stray}] :
     bl \in {{}, {"b1"}, {"b2"}}}
TcpPlans ==
  {[Plan("CONTROLLING", "CONTROLLED", <<Tcp("at", "active")>>, <<Tcp("bt", "passive")>>,
         <<Op("remote", Tcp("bt", "passive"))>>, << >>) EXCEPT !.eofs = e] : e \in {0, 1}}
SrflxPlans ==
  {[Plan("CONTROLLING", "CONTROLLED", <<A1>>, <<B1>>, <<Op("srflx", NoCand), Op("remote", B1)>>,
         <<Op("close", NoCand)>>) EXCEPT !.black = bl, !.pre = [A |-> 4, B |-> 4]] : bl \in {{}, {"b1"}, {STUN, "b1"}}}

AllPlans == OnePair \cup TwoPairs \cup TcpPlans \cup SrflxPlans

-----------------------------------------------------------------------------
Quiet ==
  /\ net = {} /\ \A x \in Agents, c \in Conns : stream[x][c] = << >>
  /\ \A x \in Agents :
       /\ pc[x] > Len(plan.script[x]) /\ ~ag[x].ta /\ ag[x].srflx = << >>
       /\ \A i \in DOMAIN ag[x].checks : ~ag[x].checks[i].timer
       /\ \A i \in DOMAIN ag[x].conns : ag[x].conns[i].up
       /\ ag[x].state = "CONNECTED" => x \in sent
Closes == \E x \in Agents : Op("close", NoCand) \in Range(plan.script[x])

(* When nothing is in flight and no timer runs, both agents are connected,  *)
(* in opposite roles, whatever roles and tie-breakers they started with and*)
(* whichever message was lost (r_rtc_ice_resolve_role_conflict, the check  *)
(* retransmissions, triggered checks and nomination).                      *)
Established ==
  Quiet /\ ~Closes /\ plan.eofs = eofs =>
    /\ \A x \in Agents : ag[x].state = "CONNECTED"
    /\ ag["A"].role # ag["B"].role

(* What a connected agent sends on its selected pair reaches the other      *)
(* agent's application once, over UDP, and over a TCP stream cut anywhere  *)
(* (r_rtc_ice_transport_send, r_rtc_ice_tcp_recv_cb).                      *)
Delivered ==
  \A x \in Agents : Quiet /\ ~Closes /\ loss = plan.loss /\ eofs = plan.eofs /\ x \in sent => ag[Peer(x)].got = <<1000>>

(* Until the application closes the agent, no check, binding request or     *)
(* answer is sent on a socket or connection that was released (pairs and   *)
(* timers borrow them: r_rtc_ice_drop_conn).                               *)
Borrowed == ~Closes => \A x \in Agents : ~ag[x].dangling
=============================================================================
