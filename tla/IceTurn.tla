------------------------------ MODULE IceTurn ------------------------------
(***************************************************************************)
(* The TURN client of the ICE transport (rrtcicetransport.c, 879-1735 and  *)
(* 2002-2115): Allocate with its 401 challenge, the allocation's refresh   *)
(* timer, permissions, channels, stale nonces, and the relayed data path,  *)
(* against a TURN server that rotates its nonce, expires what is not       *)
(* refreshed and may lose datagrams.  c is the transport, c.allocs its     *)
(* allocations, c.out what a handler sent to the server.                   *)
(***************************************************************************)
EXTENDS Integers, Sequences, FiniteSets, SequencesExt

CONSTANTS Bases,              \* host candidates whose sockets are open
          Peers,              \* remote candidates: [ip, port]
          CHECK_MAX_SENDS, 
          REFRESH_CAP,        \* the 240 s cap of schedule_refresh
          PERM_LIFE, CHAN_LIFE, LIFETIME,    \* the server's lifetimes
          CHAN_MIN, CHAN_MAX, \* R_STUN_CHANNEL_NUMBER_MIN and _MAX
          MaxTime, MaxFaults, MaxSends

VARIABLES c, sv, up, down, now, rot, loss, delivered

vars == <<c, sv, up, down, now, rot, loss, delivered>>
SERVER == "turn-server"
NoAlloc == [tid |-> 0, expiry |-> 0, perm |-> [p \in {} |-> 0], chan |-> [n \in {} |-> 0]]

Msg(m, base, tid) == [m |-> m, base |-> base, tid |-> tid, nonce |-> 0, code |-> 0,
                      life |-> 0, peer |-> "none", num |-> 0, pay |-> 0]
Emit(x, m) == [x EXCEPT !.out = Append(@, m)]
Fresh(x) == [x EXCEPT !.tid = @ + 1]          \* r_rand_entropy_fill of a transaction id

-----------------------------------------------------------------------------
(* Allocate. *)
r_rtc_ice_build_allocate(q) == [Msg("alloc", q.base, q.tid) EXCEPT !.nonce = IF q.authed THEN q.nonce ELSE 0]

r_rtc_ice_turn_transmit(x, k, fresh) ==
  LET y == IF fresh THEN Fresh(x) ELSE x
      q == IF fresh THEN [x.turn[k] EXCEPT !.tid = y.tid, !.nsent = 1]
           ELSE [x.turn[k] EXCEPT !.nsent = @ + 1]
  IN Emit([y EXCEPT !.turn[k] = q], r_rtc_ice_build_allocate(q))

r_rtc_ice_turn_timeout(x, k) ==
  IF x.turn[k].nsent >= CHECK_MAX_SENDS THEN [x EXCEPT !.turn = RemoveAt(@, k)]
  ELSE r_rtc_ice_turn_transmit(x, k, FALSE)

r_rtc_ice_transport_gather_relay_candidates(x) ==
  FoldLeft(LAMBDA y, b : r_rtc_ice_turn_transmit(
             [y EXCEPT !.turn = Append(@, [base |-> b, tid |-> 0, nsent |-> 0, authed |-> FALSE, nonce |-> 0])],
             Len(y.turn) + 1, TRUE), x, SetToSeq(Bases))

r_rtc_ice_turn_alloc_new(q, life) ==
  [base |-> q.base, nonce |-> q.nonce, lifetime |-> IF life > 0 THEN life ELSE LIFETIME,
   refresh |-> 0, released |-> FALSE, perms |-> << >>, channels |-> << >>, next |-> CHAN_MIN]

\* mutant: the timer is armed at the whole lifetime
schedule_refresh_whole(a, t) == [a EXCEPT !.refresh = t + a.lifetime + 1]
r_rtc_ice_turn_schedule_refresh(a, t) ==
  LET half == a.lifetime \div 2
      secs == IF half < 1 THEN 1 ELSE IF half > REFRESH_CAP THEN REFRESH_CAP ELSE half
  IN [a EXCEPT !.refresh = t + secs]

(* The relay candidate is paired with every UDP remote once. *)
r_rtc_ice_alloc_pair_with_remotes(x, a) ==
  [x EXCEPT !.pairs = @ \cup {<<a.base, p>> : p \in x.remote}]

r_rtc_ice_turn_response(x, m, t) ==
  LET S == {k \in 1..Len(x.turn) : x.turn[k].tid = m.tid}
      k == CHOOSE n \in S : TRUE
      q == x.turn[k]
      gone == [x EXCEPT !.turn = RemoveAt(@, k)]
      a == r_rtc_ice_turn_schedule_refresh(r_rtc_ice_turn_alloc_new(q, m.life), t)
  IN CASE S = {} -> x
       [] m.code = 401 /\ ~q.authed ->
            r_rtc_ice_turn_transmit([x EXCEPT !.turn[k].nonce = m.nonce, !.turn[k].authed = TRUE], k, TRUE)
       [] m.code = 0 -> r_rtc_ice_alloc_pair_with_remotes([gone EXCEPT !.allocs = Append(@, a)], a)
       [] OTHER -> gone

-----------------------------------------------------------------------------
(* Permissions, channels and the relay path of allocation i. *)
r_rtc_ice_build_refresh(a, life, tid) == [Msg("refresh", a.base, tid) EXCEPT !.nonce = a.nonce, !.life = life]
r_rtc_ice_build_create_permission(a, p) == [Msg("perm", a.base, p.tid) EXCEPT !.nonce = a.nonce, !.peer = p.peer.ip]
r_rtc_ice_build_channel_bind(a, h) ==
  [Msg("bind", a.base, h.tid) EXCEPT !.nonce = a.nonce, !.peer = h.peer, !.num = h.num]
r_rtc_ice_build_send_indication(a, peer, pay) == [Msg("send", a.base, 0) EXCEPT !.peer = peer, !.pay = pay]
r_rtc_ice_build_channel_data(a, num, pay) == [Msg("chdata", a.base, 0) EXCEPT !.num = num, !.pay = pay]

r_rtc_ice_turn_send_refresh(x, i, life) ==
  LET y == Fresh(x) IN Emit(y, r_rtc_ice_build_refresh(y.allocs[i], life, y.tid))

r_rtc_ice_addr_same_ip(p, q) == p.ip = q.ip

r_rtc_ice_turn_ensure_permission(x, i, peer) ==
  LET y == Fresh(x)
      perm == [peer |-> peer, tid |-> y.tid]
  IN IF \E k \in DOMAIN x.allocs[i].perms : r_rtc_ice_addr_same_ip(x.allocs[i].perms[k].peer, peer) THEN x
     ELSE Emit([y EXCEPT !.allocs[i].perms = Append(@, perm)],
               r_rtc_ice_build_create_permission(y.allocs[i], perm))

Chan(a, peer) == IF \E k \in DOMAIN a.channels : a.channels[k].peer = peer
                 THEN CHOOSE k \in DOMAIN a.channels : a.channels[k].peer = peer ELSE 0

r_rtc_ice_turn_ensure_channel(x, i, peer) ==
  LET y == Fresh(x)
      h == [peer |-> peer, num |-> x.allocs[i].next, bound |-> FALSE, tid |-> y.tid]
  IN IF Chan(x.allocs[i], peer) # 0 \/ x.allocs[i].next > CHAN_MAX THEN x
     ELSE Emit([y EXCEPT !.allocs[i].channels = Append(@, h), !.allocs[i].next = @ + 1],
               r_rtc_ice_build_channel_bind(y.allocs[i], h))

r_rtc_ice_relay_send(x, i, peer, pay) ==
  LET y == r_rtc_ice_turn_ensure_channel(x, i, peer)
      k == Chan(y.allocs[i], peer)
  IN IF k # 0 /\ y.allocs[i].channels[k].bound
     THEN Emit(y, r_rtc_ice_build_channel_data(y.allocs[i], y.allocs[i].channels[k].num, pay))
     ELSE Emit(r_rtc_ice_turn_ensure_permission(y, i, peer),
               r_rtc_ice_build_send_indication(y.allocs[i], peer, pay))

(* A permission or a channel is sent again under a fresh transaction. *)
Rebind(x, i, k) == LET y == Fresh(x)
                       z == [y EXCEPT !.allocs[i].channels[k].tid = y.tid]
                   IN Emit(z, r_rtc_ice_build_channel_bind(z.allocs[i], z.allocs[i].channels[k]))
Repermit(x, i, k) == LET y == Fresh(x)
                         z == [y EXCEPT !.allocs[i].perms[k].tid = y.tid]
                     IN Emit(z, r_rtc_ice_build_create_permission(z.allocs[i], z.allocs[i].perms[k]))
WithTid(s, tid) == {k \in DOMAIN s : s[k].tid = tid}

r_rtc_ice_turn_channel_bound(x, i, tid) ==
  [x EXCEPT !.allocs[i].channels = [k \in DOMAIN @ |-> IF @[k].tid = tid THEN [@[k] EXCEPT !.bound = TRUE] ELSE @[k]]]
r_rtc_ice_turn_replay_channel(x, i, tid) ==
  FoldSet(LAMBDA k, y : Rebind(y, i, k), x, WithTid(x.allocs[i].channels, tid))
r_rtc_ice_turn_replay_permission(x, i, tid) ==
  FoldSet(LAMBDA k, y : Repermit(y, i, k), x, WithTid(x.allocs[i].perms, tid))
r_rtc_ice_turn_refresh_channels(x, i) ==
  FoldSet(LAMBDA k, y : Rebind(y, i, k), x,
          {k \in DOMAIN x.allocs[i].channels : x.allocs[i].channels[k].bound})
r_rtc_ice_turn_refresh_permissions(x, i) ==
  FoldSet(LAMBDA k, y : Repermit(y, i, k), x, DOMAIN x.allocs[i].perms)

r_rtc_ice_turn_refresh_timeout(x, i, t) ==
  LET y == r_rtc_ice_turn_refresh_channels(
             r_rtc_ice_turn_refresh_permissions(r_rtc_ice_turn_send_refresh(x, i, x.allocs[i].lifetime), i), i)
  IN [y EXCEPT !.allocs[i] = r_rtc_ice_turn_schedule_refresh(@, t)]

r_rtc_ice_turn_release(x, i) ==
  IF x.allocs[i].released THEN x
  ELSE r_rtc_ice_turn_send_refresh([x EXCEPT !.allocs[i].released = TRUE, !.allocs[i].refresh = 0], i, 0)

r_rtc_ice_turn_control_response(x, i, m) ==
  LET y == [x EXCEPT !.allocs[i].nonce = m.nonce]
  IN CASE m.code = 438 /\ m.m = "refresh" -> r_rtc_ice_turn_send_refresh(y, i, y.allocs[i].lifetime)
       [] m.code = 438 /\ m.m = "perm" -> r_rtc_ice_turn_replay_permission(y, i, m.tid)
       [] m.code = 438 /\ m.m = "bind" -> r_rtc_ice_turn_replay_channel(y, i, m.tid)
       [] m.code = 0 /\ m.m = "refresh" /\ m.life > 0 -> [x EXCEPT !.allocs[i].lifetime = m.life]
       [] m.code = 0 /\ m.m = "bind" -> r_rtc_ice_turn_channel_bound(x, i, m.tid)
       [] OTHER -> x

r_rtc_ice_turn_dispatch_payload(x, peer, pay) == [x EXCEPT !.got = @ \cup {<<peer, pay>>}]
r_rtc_ice_turn_channel_data(x, i, m) ==
  LET S == {k \in DOMAIN x.allocs[i].channels : x.allocs[i].channels[k].num = m.num}
      k == CHOOSE n \in S : \A j \in S : n <= j
  IN IF S = {} THEN x ELSE r_rtc_ice_turn_dispatch_payload(x, x.allocs[i].channels[k].peer, m.pay)
r_rtc_ice_turn_handle(x, i, m) ==
  CASE m.m = "chdata" -> r_rtc_ice_turn_channel_data(x, i, m)
    [] m.m = "data" -> r_rtc_ice_turn_dispatch_payload(x, m.peer, m.pay)
    [] OTHER -> r_rtc_ice_turn_control_response(x, i, m)

(* The first allocation on the server takes everything the server sends. *)
udp_packet_cb(x, m, t) ==
  IF x.allocs # << >> THEN r_rtc_ice_turn_handle(x, 1, m)
  ELSE IF m.m = "alloc" THEN r_rtc_ice_turn_response(x, m, t) ELSE x

-----------------------------------------------------------------------------
(* The TURN server (external), a peer behind it, time and the network,      *)
(* which delivers in order (bound) but may lose a datagram.                *)
Reply(m, code, life) == [m EXCEPT !.code = code, !.life = life, !.nonce = sv.nonce]
Live(b) == sv.alloc[b].tid # 0 /\ sv.alloc[b].expiry > now
Permitted(b, ip) == ip \in DOMAIN sv.alloc[b].perm /\ sv.alloc[b].perm[ip] > now
ChanOf(b, n) == n \in DOMAIN sv.alloc[b].chan /\ sv.alloc[b].chan[n].expiry > now
Upd(f, k, v) == [x \in DOMAIN f \cup {k} |-> IF x = k THEN v ELSE f[x]]
Idle == up = << >> /\ down = << >>

Handle(x) == c' = [x EXCEPT !.out = << >>] /\ up' = up \o x.out
Init ==
  /\ c = [turn |-> << >>, allocs |-> << >>, pairs |-> {}, remote |-> Peers, got |-> {}, out |-> << >>,
          tid |-> 0, sends |-> 0, closed |-> FALSE, gathered |-> FALSE]
  /\ sv = [nonce |-> 1, alloc |-> [b \in Bases |-> NoAlloc], heard |-> {}]
  /\ up = << >> /\ down = << >> /\ now = 0 /\ rot = 0 /\ loss = 0 /\ delivered = {}

Gather == /\ ~c.gathered /\ Handle(r_rtc_ice_transport_gather_relay_candidates([c EXCEPT !.gathered = TRUE]))
          /\ UNCHANGED <<sv, down, now, rot, loss, delivered>>
Code(m) ==
  LET a == sv.alloc[m.base]
  IN CASE m.nonce = 0 -> 401
       [] m.nonce # 0 /\ m.nonce # sv.nonce -> 438
       [] m.m # "alloc" /\ ~Live(m.base) -> 437
       [] m.m = "alloc" /\ Live(m.base) /\ a.tid # m.tid -> 437
       [] m.m = "bind" /\ ChanOf(m.base, m.num) /\ a.chan[m.num].peer # m.peer -> 400
       [] OTHER -> 0
Granted(m, a) ==
  CASE m.m = "alloc" -> [NoAlloc EXCEPT !.tid = m.tid, !.expiry = now + LIFETIME]
    [] m.m = "refresh" -> IF m.life = 0 THEN NoAlloc ELSE [a EXCEPT !.expiry = now + LIFETIME]
    [] m.m = "perm" -> [a EXCEPT !.perm = Upd(@, m.peer, now + PERM_LIFE)]
    [] m.m = "bind" -> [a EXCEPT !.perm = Upd(@, m.peer.ip, now + PERM_LIFE),
                                 !.chan = Upd(@, m.num, [peer |-> m.peer, expiry |-> now + CHAN_LIFE])]
Relay(b, peer, pay) ==
  IF Live(b) /\ Permitted(b, peer.ip) THEN delivered \cup {<<peer, pay>>} ELSE delivered
Serve ==
  /\ up # << >> /\ up' = Tail(up)
  /\ LET m == Head(up)
         a == sv.alloc[m.base]
     IN \/ /\ m.m = "send" /\ delivered' = Relay(m.base, m.peer, m.pay) /\ UNCHANGED <<sv, down>>
        \/ /\ m.m = "chdata" /\ UNCHANGED <<sv, down>>
           /\ delivered' = IF ChanOf(m.base, m.num) THEN Relay(m.base, a.chan[m.num].peer, m.pay) ELSE delivered
        \/ /\ m.m \notin {"send", "chdata"} /\ UNCHANGED delivered
           /\ sv' = IF Code(m) = 0 THEN [sv EXCEPT !.alloc[m.base] = Granted(m, a)] ELSE sv
           /\ down' = Append(down, Reply(m, Code(m), IF m.m = "alloc" \/ m.life > 0 THEN LIFETIME ELSE 0))
  /\ UNCHANGED <<c, now, rot, loss>>
Receive ==
  LET x == IF c.closed THEN c ELSE udp_packet_cb(c, Head(down), now)
  IN /\ down # << >> /\ down' = Tail(down)
     /\ Handle(x)
     /\ UNCHANGED <<sv, now, rot, loss, delivered>>
(* A peer's packet, relayed over the channel bound to it or in a Data indication. *)
PeerSends(b, p) ==
  LET S == {n \in DOMAIN sv.alloc[b].chan : ChanOf(b, n) /\ sv.alloc[b].chan[n].peer = p}
  IN /\ Live(b) /\ Permitted(b, p.ip) /\ sv.heard = {}
     /\ down' = Append(down, IF S = {} THEN [Msg("data", b, 0) EXCEPT !.pay = p, !.peer = p]
                             ELSE [Msg("chdata", b, 0) EXCEPT !.pay = p, !.num = CHOOSE n \in S : TRUE])
     /\ sv' = [sv EXCEPT !.heard = @ \cup {p}]
     /\ UNCHANGED <<c, up, now, rot, loss, delivered>>
RelaySend(i, p) == /\ ~c.closed /\ c.sends < MaxSends
                   /\ Handle(r_rtc_ice_relay_send([c EXCEPT !.sends = @ + 1], i, p, p))
                   /\ UNCHANGED <<sv, down, now, rot, loss, delivered>>
Refresh(i) == /\ c.allocs[i].refresh # 0 /\ c.allocs[i].refresh <= now
              /\ Handle(r_rtc_ice_turn_refresh_timeout(c, i, now))
              /\ UNCHANGED <<sv, down, now, rot, loss, delivered>>
AllocateTimeout(k) == /\ Idle
                      /\ Handle(r_rtc_ice_turn_timeout(c, k))
                      /\ UNCHANGED <<sv, down, now, rot, loss, delivered>>
Close == /\ ~c.closed /\ c.gathered
         /\ Handle(FoldSet(LAMBDA i, x : r_rtc_ice_turn_release(x, i), [c EXCEPT !.closed = TRUE],
                           DOMAIN c.allocs))
         /\ UNCHANGED <<sv, down, now, rot, loss, delivered>>
(* Messages are answered well within a unit of time, and timers run when due. *)
Due == \E i \in DOMAIN c.allocs : c.allocs[i].refresh # 0 /\ c.allocs[i].refresh <= now
Tick == /\ now < MaxTime /\ Idle /\ c.turn = << >> /\ ~Due /\ now' = now + 1
        /\ UNCHANGED <<c, sv, up, down, rot, loss, delivered>>
Rotate == /\ rot + loss < MaxFaults /\ rot' = rot + 1 /\ sv' = [sv EXCEPT !.nonce = @ + 1]
          /\ UNCHANGED <<c, up, down, now, loss, delivered>>
Lose == /\ up # << >> /\ rot + loss < MaxFaults /\ loss' = loss + 1 /\ up' = Tail(up)
        /\ UNCHANGED <<c, sv, down, now, rot, delivered>>

Next == \/ Gather \/ Close \/ Tick \/ Rotate \/ Serve \/ Receive \/ Lose
        \/ \E b \in Bases, p \in Peers : PeerSends(b, p)
        \/ \E i \in DOMAIN c.allocs : Refresh(i) \/ \E p \in Peers : RelaySend(i, p)
        \/ \E k \in DOMAIN c.turn : AllocateTimeout(k)
Spec == Init /\ [][Next]_vars

(* What the client believes is what the server holds: unless a datagram was *)
(* lost, once nothing is in flight the allocation, every permission and    *)
(* every bound channel are alive at the server, whatever nonces it rotated *)
(* (r_rtc_ice_turn_schedule_refresh, r_rtc_ice_turn_control_response).     *)
KeptAlive ==
  Idle /\ loss = 0 /\ ~Due /\ ~c.closed =>
    \A i \in DOMAIN c.allocs :
      LET a == c.allocs[i] IN
      /\ Live(a.base)
      /\ \A k \in DOMAIN a.perms : Permitted(a.base, a.perms[k].peer.ip)
      /\ \A k \in DOMAIN a.channels : a.channels[k].bound =>
           ChanOf(a.base, a.channels[k].num) /\ sv.alloc[a.base].chan[a.channels[k].num].peer = a.channels[k].peer

(* Relayed data keeps its peer, over indications and over channels (a       *)
(* payload is named after the peer it goes to or comes from), and unless   *)
(* the nonce went stale meanwhile close releases the allocation            *)
(* (r_rtc_ice_turn_ensure_channel, r_rtc_ice_turn_release).                *)
RelayedRight ==
  /\ \A d \in delivered \cup c.got : d[1] = d[2]
  /\ Idle /\ loss + rot = 0 /\ c.closed => \A i \in DOMAIN c.allocs : ~Live(c.allocs[i].base)
=============================================================================
