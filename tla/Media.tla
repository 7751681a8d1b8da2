------------------------------- MODULE Media --------------------------------
(***************************************************************************)
(* SRTP and SRTCP protection (rlib/net/rsrtp.c) with the sequence-number   *)
(* arithmetic of rlib/net/proto/rrtp.c.  Every operator takes a context x  *)
(* and returns [x, err, out] after the C function of the same name.        *)
(*                                                                         *)
(* Crypto contexts are numbered: x.cc[n] is [keys, send, mki, filter,      *)
(* live], a master key [mki, recv, send].  Cryptography is symbolic: a     *)
(* packet carries the session key and the rollover counter it was made     *)
(* with, and verifies under the same two only.  An SSRC is the set of its  *)
(* bits, so that the test of a filter is set inclusion.  The octets of a   *)
(* sequence number are a counter modulo SEQ.                               *)
(***************************************************************************)
EXTENDS Integers, Sequences, SequencesExt

CONSTANTS SEQ,               \* 2^16: sequence numbers
          WINDOW,            \* R_SRTP_WINDOW_SIZE
          EKT_BURST,         \* R_SRTP_EKT_FULL_BURST
          EKT_USES           \* R_SRTP_EKT_MAX_USES


MEDIAN == SEQ \div 2         \* R_RTP_SEQ_MEDIAN
NoEkt == [t |-> "none"]
ShortEkt == [t |-> "short"]
Put(f, k, v) == [y \in DOMAIN f \cup {k} |-> IF y = k THEN v ELSE f[y]]
Drop(f, K) == [y \in DOMAIN f \ K |-> f[y]]
Empty == [k \in {} |-> 0]
Res(x, err, out) == [x |-> x, err |-> err, out |-> out]
Fail(x, err) == Res(x, err, << >>)

-----------------------------------------------------------------------------
(* The index of a packet, and the replay window. *)
\* mutant: a late packet from before the wrap gets the newer rollover counter
estimate_no_back(seq, cur) ==
  CASE cur <= MEDIAN -> seq
    [] cur > MEDIAN /\ cur % SEQ >= MEDIAN /\ (cur % SEQ) - MEDIAN > seq -> (cur \div SEQ + 1) * SEQ + seq
    [] OTHER -> (cur \div SEQ) * SEQ + seq
r_rtp_estimate_seq_idx(seq, cur) ==
  LET roc == cur \div SEQ
      s == cur % SEQ
  IN CASE cur <= MEDIAN -> seq
       [] cur > MEDIAN /\ s < MEDIAN /\ s + MEDIAN < seq -> (roc - 1) * SEQ + seq
       [] cur > MEDIAN /\ s >= MEDIAN /\ s - MEDIAN > seq -> (roc + 1) * SEQ + seq
       [] OTHER -> roc * SEQ + seq

r_srtp_stream_replay_check(s, idx) ==
  CASE idx <= s.index /\ idx + WINDOW < s.index -> "REPLAY_TOO_OLD"
    [] idx <= s.index /\ s.index - idx \in s.bits -> "REPLAYED"
    [] OTHER -> "OK"

r_srtp_stream_rtp_replay_add(s, idx) ==
  IF idx > s.index
  THEN [index |-> idx, bits |-> {d \in 0..WINDOW - 1 : d - (idx - s.index) \in s.bits} \cup {0}]
  ELSE [s EXCEPT !.bits = @ \cup ({s.index - idx} \cap 0..WINDOW - 1)]

-----------------------------------------------------------------------------
(* Contexts and keys. *)
r_srtp_ctx_new == [cc |-> << >>, ssrc |-> Empty, filter |-> << >>, streams |-> Empty, hdrext |-> {},
                   ekt |-> << >>, eksend |-> 0, rx |-> Empty, interval |-> 0, has_mki |-> FALSE, now |-> 0]

MasterKey(mki, recv, send) == [mki |-> mki, recv |-> recv, send |-> send]
r_srtp_crypto_ctx_new(x, filter, mkisize, recv, send, mki) ==
  [x EXCEPT !.cc = Append(@, [keys |-> <<MasterKey(mki, recv, send)>>, send |-> mki, mki |-> mkisize,
                              filter |-> filter, live |-> TRUE])]

r_srtp_find_crypto_ctx(x, id) ==
  LET S == {i \in DOMAIN x.filter : x.cc[x.filter[i]].filter = id}
  IN CASE id \in DOMAIN x.ssrc -> x.ssrc[id]
       [] S # {} -> x.filter[CHOOSE i \in S : \A j \in S : i <= j]
       [] OTHER -> 0
r_srtp_lookup_crypto_ctx(x, ssrc) ==
  LET S == {i \in DOMAIN x.filter : ssrc \subseteq x.cc[x.filter[i]].filter}
  IN CASE ssrc \in DOMAIN x.ssrc -> x.ssrc[ssrc]
       [] S # {} -> x.filter[CHOOSE i \in S : \A j \in S : i <= j]
       [] OTHER -> 0

r_srtp_add_crypto_context_for_ssrc(x, ssrc, key) ==
  LET y == r_srtp_crypto_ctx_new(x, {}, 0, key, key, 0)
  IN IF ssrc \in DOMAIN x.ssrc THEN Fail(x, "CRYPTO_CTX_EXISTS")
     ELSE Res([y EXCEPT !.ssrc = Put(@, ssrc, Len(y.cc))], "OK", << >>)

r_srtp_add_crypto_context_with_filter_dual(x, filter, recv, send) ==
  LET y == r_srtp_crypto_ctx_new(x, filter, 0, recv, send, 0)
  IN IF filter = {} THEN Fail(x, "INVAL")
     ELSE Res([y EXCEPT !.filter = <<Len(y.cc)>> \o @], "OK", << >>)

r_srtp_add_crypto_context_for_ssrc_with_mki(x, ssrc, recv, send, mki) ==
  LET y == r_srtp_crypto_ctx_new(x, {}, 1, recv, send, mki)
  IN CASE x.ekt # << >> -> Fail(x, "INVAL")
       [] x.ekt = << >> /\ ssrc \in DOMAIN x.ssrc -> Fail(x, "CRYPTO_CTX_EXISTS")
       [] OTHER -> Res([y EXCEPT !.ssrc = Put(@, ssrc, Len(y.cc)), !.has_mki = TRUE], "OK", << >>)
r_srtp_add_crypto_context_with_filter_with_mki(x, filter, recv, send, mki) ==
  LET y == r_srtp_crypto_ctx_new(x, filter, 1, recv, send, mki)
  IN IF filter = {} \/ x.ekt # << >> THEN Fail(x, "INVAL")
     ELSE Res([y EXCEPT !.filter = <<Len(y.cc)>> \o @, !.has_mki = TRUE], "OK", << >>)

(* Rekey in place: the live stream moves to the new context, then the old   *)
(* context is freed.                                                       *)
\* mutant: the live stream keeps the context that is freed
update_keeps_stream(x, ssrc, key) ==
  LET y == r_srtp_crypto_ctx_new(x, {}, 0, key, key, 0)
      n == Len(y.cc)
      free(z) == IF ssrc \in DOMAIN x.ssrc THEN [z EXCEPT !.cc[x.ssrc[ssrc]].live = FALSE] ELSE z
  IN Res(free([y EXCEPT !.ssrc = Put(@, ssrc, n)]), "OK", << >>)
r_srtp_update_crypto_context_for_ssrc(x, ssrc, key) ==
  LET y == r_srtp_crypto_ctx_new(x, {}, 0, key, key, 0)
      n == Len(y.cc)
      move(s) == IF s.txkey = << >> THEN [s EXCEPT !.cctx = n, !.mkey = << >>]
                 ELSE [s EXCEPT !.cctx = n, !.mkey = << >>, !.txepoch = @ + 1,
                                !.txburst = EKT_BURST, !.txkey = <<n, 0>>]
      free(z) == IF ssrc \in DOMAIN x.ssrc THEN [z EXCEPT !.cc[x.ssrc[ssrc]].live = FALSE] ELSE z
  IN Res(free([y EXCEPT !.streams = IF ssrc \in DOMAIN @ THEN [@ EXCEPT ![ssrc] = move(@)] ELSE @,
                        !.ssrc = Put(@, ssrc, n)]), "OK", << >>)

r_srtp_find_master_key(c, mki) ==
  LET S == {i \in DOMAIN c.keys : c.keys[i].mki = mki}
  IN IF S = {} THEN << >> ELSE <<c.keys[CHOOSE i \in S : \A j \in S : i <= j]>>
r_srtp_add_master_key(x, id, recv, send, mki) ==
  LET n == r_srtp_find_crypto_ctx(x, id)
  IN CASE n = 0 -> Fail(x, "NO_CRYPTO_CTX")
       [] n # 0 /\ x.cc[n].mki = 0 -> Fail(x, "NO_CRYPTO_CTX")
       [] n # 0 /\ x.cc[n].mki # 0 /\ r_srtp_find_master_key(x.cc[n], mki) # << >> -> Fail(x, "CRYPTO_CTX_EXISTS")
       [] OTHER -> Res([x EXCEPT !.cc[n].keys = <<MasterKey(mki, recv, send)>> \o @], "OK", << >>)
r_srtp_set_send_master_key(x, id, mki) ==
  LET n == r_srtp_find_crypto_ctx(x, id)
  IN IF n = 0 \/ x.cc[n].mki = 0 \/ r_srtp_find_master_key(x.cc[n], mki) = << >>
     THEN Fail(x, "NO_CRYPTO_CTX") ELSE Res([x EXCEPT !.cc[n].send = mki], "OK", << >>)

(* EKT keys and policy. *)
r_srtp_ekt_find_key(x, spi) ==
  LET S == {i \in DOMAIN x.ekt : x.ekt[i].spi = spi} IN IF S = {} THEN 0 ELSE CHOOSE i \in S : TRUE
r_srtp_add_ekt_key(x, spi, ttl) ==
  CASE x.has_mki -> Fail(x, "INVAL")
    [] ~x.has_mki /\ r_srtp_ekt_find_key(x, spi) # 0 -> Fail(x, "CRYPTO_CTX_EXISTS")
    [] OTHER -> Res([x EXCEPT !.ekt = Append(@, [spi |-> spi, ttl |-> ttl, used |-> FALSE,
                                                  first |-> 0, uses |-> 0])], "OK", << >>)
r_srtp_set_ekt_send_key(x, spi) ==
  LET k == r_srtp_ekt_find_key(x, spi)
  IN IF k = 0 THEN Fail(x, "NO_CRYPTO_CTX") ELSE Fail([x EXCEPT !.eksend = k], "OK")
r_srtp_set_ekt_full_interval(x, n) ==
  IF x.ekt = << >> THEN Fail(x, "NO_CRYPTO_CTX") ELSE Res([x EXCEPT !.interval = n], "OK", << >>)
r_srtp_set_ekt_key_ttl(x, spi, ttl) ==
  LET k == r_srtp_ekt_find_key(x, spi)
  IN IF k = 0 THEN Fail(x, "NO_CRYPTO_CTX") ELSE Res([x EXCEPT !.ekt[k].ttl = ttl], "OK", << >>)
\* the bit 0, never an element's id, stands for the allocated bitset
r_srtp_set_encrypted_header_extension(x, id, on) ==
  CASE id = 0 -> Fail(x, "INVAL")
    [] id # 0 /\ x.hdrext = {} /\ ~on -> Fail(x, "OK")
    [] OTHER -> Fail([x EXCEPT !.hdrext = (IF on THEN @ \cup {id} ELSE @ \ {id}) \cup {0}], "OK")

-----------------------------------------------------------------------------
(* Streams.  hdr: the keystream for header extensions is derived. *)
r_srtp_stream_new(x, cctx, dir) ==
  [cctx |-> cctx, dir |-> dir, mkey |-> << >>, hdr |-> x.hdrext # {},
   rtp |-> [index |-> 0, bits |-> {}], rtcp |-> [index |-> 0, bits |-> {}],
   txkey |-> << >>, txepoch |-> 0, txburst |-> 0, txlast |-> 0]

r_srtp_get_stream(x, ssrc, dir) ==
  LET n == r_srtp_lookup_crypto_ctx(x, ssrc)
  IN IF ssrc \in DOMAIN x.streams \/ n = 0 THEN x
     ELSE [x EXCEPT !.streams = Put(@, ssrc, r_srtp_stream_new(x, n, dir))]

r_srtp_stream_ensure_key(s, mk) == [s EXCEPT !.mkey = <<mk>>]
r_srtp_master_key_blob(s) == IF s.dir = "OUTBOUND" THEN s.mkey[1].send ELSE s.mkey[1].recv
SendKey(x, s) == r_srtp_find_master_key(x.cc[s.cctx], x.cc[s.cctx].send)[1]

(* A one-byte header extension: an element with the id 15 ends the parse. *)
Xor(e, key) == [e EXCEPT !.by = CASE @ = "clear" -> key [] @ = key -> "clear" [] OTHER -> "garbage"]
r_srtp_crypt_hdrext(x, s, ext, key) ==
  IF ~s.hdr THEN ext
  ELSE [i \in DOMAIN ext |-> IF ext[i].id \in x.hdrext /\ \A j \in 1..i : ext[j].id # 15
                            THEN Xor(ext[i], key) ELSE ext[i]]

(* EKT, sending side. *)
r_srtp_ekt_key_usable(x, k) == k.uses < EKT_USES /\ ~(k.ttl > 0 /\ k.used /\ x.now - k.first >= k.ttl)
r_srtp_ekt_tx_roll(x, s) ==
  LET mine == <<s.cctx, x.cc[s.cctx].send>>
  IN IF s.txkey = mine THEN s
     ELSE [s EXCEPT !.txepoch = IF s.txkey = << >> THEN @ ELSE @ + 1, !.txkey = mine, !.txburst = EKT_BURST]
r_srtp_ekt_tx_full(x, s) ==
  /\ s.txburst > 0 \/ (x.interval > 0 /\ x.now - s.txlast >= x.interval)
  /\ r_srtp_ekt_key_usable(x, x.ekt[x.eksend])
r_srtp_ekt_tx_sent_full(x, ssrc) ==
  LET k == x.ekt[x.eksend]
  IN [x EXCEPT !.streams[ssrc].txburst = IF @ > 0 THEN @ - 1 ELSE 0, !.streams[ssrc].txlast = x.now,
               !.ekt[x.eksend] = [k EXCEPT !.used = TRUE, !.uses = @ + 1, !.first = IF k.used THEN @ ELSE x.now]]
r_srtp_ekt_build_full(x, s, ssrc, roc) ==
  [t |-> "full", spi |-> x.ekt[x.eksend].spi, epoch |-> s.txepoch, key |-> SendKey(x, s).send,
   ssrc |-> ssrc, roc |-> roc]
(* The field appended to a packet of the stream, and the context after it. *)
Trailer(x, ssrc, roc) ==
  LET s == r_srtp_ekt_tx_roll(x, x.streams[ssrc])
      y == [x EXCEPT !.streams[ssrc] = s]
  IN CASE x.ekt = << >> -> [x |-> x, field |-> NoEkt]
       [] x.ekt # << >> /\ x.eksend = 0 -> [x |-> x, field |-> ShortEkt]
       [] x.eksend # 0 /\ ~r_srtp_ekt_tx_full(y, s) -> [x |-> y, field |-> ShortEkt]
       [] OTHER -> [x |-> r_srtp_ekt_tx_sent_full(y, ssrc), field |-> r_srtp_ekt_build_full(y, s, ssrc, roc)]

(* EKT, receiving side. *)
r_srtp_ekt_install(x, ssrc, key, roc) ==
  LET y == r_srtp_crypto_ctx_new(x, {}, 0, key, key, 0)
      free(z) == IF ssrc \in DOMAIN x.ssrc THEN [z EXCEPT !.cc[x.ssrc[ssrc]].live = FALSE] ELSE z
      z == free([y EXCEPT !.streams = Drop(@, {ssrc}), !.ssrc = Put(@, ssrc, Len(y.cc))])
  IN [r_srtp_get_stream(z, ssrc, "INBOUND") EXCEPT !.streams[ssrc].rtp.index = roc * SEQ]

r_srtp_ekt_ingest(x, ssrc, f) ==
  LET seen == IF ssrc \in DOMAIN x.rx THEN x.rx[ssrc] ELSE Empty
      y == r_srtp_ekt_install(x, ssrc, f.key, f.roc)
  IN CASE f.t = "none" -> Fail(x, "INVAL")
       [] f.t = "short" -> Fail(x, "OK")
       [] f.t = "full" /\ r_srtp_ekt_find_key(x, f.spi) = 0 -> Fail(x, "NO_CRYPTO_CTX")
       [] f.t = "full" /\ f.spi \in DOMAIN seen /\ f.epoch <= seen[f.spi] -> Fail(x, "OK")
       [] f.t = "full" /\ f.ssrc # ssrc -> Fail(x, "AUTH")
       [] OTHER -> Fail([y EXCEPT !.rx = Put(@, ssrc, Put(seen, f.spi, f.epoch))], "OK")

-----------------------------------------------------------------------------
(* Packets: [k, ssrc, seq, ext, pay, key, idx, mki, ekt]; seq is the RTP    *)
(* sequence number or the SRTCP index, idx what the encryption used.       *)
Outbound(x, p) == r_srtp_get_stream(x, p.ssrc, "OUTBOUND")
Protected(x, p, idx) ==
  LET s == x.streams[p.ssrc]
      t == Trailer(x, p.ssrc, (IF p.k = "rtp" THEN idx ELSE s.rtp.index) \div SEQ)
      key == r_srtp_master_key_blob(s)
  IN Res(t.x, "OK", <<[p EXCEPT !.key = key, !.idx = idx, !.mki = IF x.cc[s.cctx].mki = 0 THEN 0 ELSE s.mkey[1].mki,
                                !.ext = IF p.k = "rtp" THEN r_srtp_crypt_hdrext(x, s, @, key) ELSE @, !.ekt = t.field]>>)

r_srtp_encrypt_rtp(x0, p) ==
  LET x1 == Outbound(x0, p)
      s1 == r_srtp_stream_ensure_key(x1.streams[p.ssrc], SendKey(x1, x1.streams[p.ssrc]))
      idx == r_rtp_estimate_seq_idx(p.seq, s1.rtp.index)
      err == r_srtp_stream_replay_check(s1.rtp, idx)
      s2 == [s1 EXCEPT !.rtp = r_srtp_stream_rtp_replay_add(@, idx)]
  IN CASE p.ssrc \notin DOMAIN x1.streams -> Fail(x0, "NO_CRYPTO_CTX")
       [] p.ssrc \in DOMAIN x1.streams /\ x1.streams[p.ssrc].dir # "OUTBOUND" -> Fail(x1, "WRONG_DIRECTION")
       [] p.ssrc \in DOMAIN x1.streams /\ x1.streams[p.ssrc].dir = "OUTBOUND" /\ err # "OK" ->
            Fail([x1 EXCEPT !.streams[p.ssrc] = s1], err)
       [] OTHER -> Protected([x1 EXCEPT !.streams[p.ssrc] = s2], p, idx)

r_srtp_encrypt_rtcp(x0, p) ==
  LET x1 == Outbound(x0, p)
      s1 == r_srtp_stream_ensure_key(x1.streams[p.ssrc], SendKey(x1, x1.streams[p.ssrc]))
      s2 == [s1 EXCEPT !.rtcp.index = @ + 1]
  IN CASE p.ssrc \notin DOMAIN x1.streams -> Fail(x0, "NO_CRYPTO_CTX")
       [] p.ssrc \in DOMAIN x1.streams /\ x1.streams[p.ssrc].dir # "OUTBOUND" -> Fail(x1, "WRONG_DIRECTION")
       [] OTHER -> Protected([x1 EXCEPT !.streams[p.ssrc] = s2], [p EXCEPT !.seq = s2.rtcp.index], s2.rtcp.index)

(* The rest of a decryption once the EKT field is off: k is "rtp" or "rtcp". *)
UnprotectedIn(x1, x0, p) ==
  LET s == x1.streams[p.ssrc]
      c == x1.cc[s.cctx]
      st == IF p.k = "rtp" THEN s.rtp ELSE s.rtcp
      idx == IF p.k = "rtp" THEN r_rtp_estimate_seq_idx(p.seq, st.index) ELSE p.seq
      err == r_srtp_stream_replay_check(st, idx)
      mk == IF c.mki # 0 THEN r_srtp_find_master_key(c, p.mki) ELSE <<c.keys[1]>>
      s1 == r_srtp_stream_ensure_key(s, mk[1])
      key == r_srtp_master_key_blob(s1)
      added == r_srtp_stream_rtp_replay_add(st, idx)
      s2 == IF p.k = "rtp" THEN [s1 EXCEPT !.rtp = added] ELSE [s1 EXCEPT !.rtcp = added]
      clear == [p EXCEPT !.ext = r_srtp_crypt_hdrext(x1, s1, @, key)]
  IN CASE p.ssrc \notin DOMAIN x1.streams -> Fail(x0, "NO_CRYPTO_CTX")
       [] p.ssrc \in DOMAIN x1.streams /\ s.dir # "INBOUND" -> Fail(x1, "WRONG_DIRECTION")
       [] p.ssrc \in DOMAIN x1.streams /\ s.dir = "INBOUND" /\ err # "OK" -> Fail(x1, err)
       [] p.ssrc \in DOMAIN x1.streams /\ s.dir = "INBOUND" /\ err = "OK" /\ mk = << >> -> Fail(x1, "NO_CRYPTO_CTX")
       [] p.ssrc \in DOMAIN x1.streams /\ s.dir = "INBOUND" /\ err = "OK" /\ mk # << >>
          /\ (key # p.key \/ idx # p.idx \/ (c.mki = 0) # (p.mki = 0) \/ (x0.ekt = << >>) # (p.ekt = NoEkt)) ->
            Fail([x1 EXCEPT !.streams[p.ssrc] = s1], "AUTH")
       [] OTHER -> Res([x1 EXCEPT !.streams[p.ssrc] = s2], "OK", <<clear>>)
Unprotected(x0, p) == UnprotectedIn(r_srtp_get_stream(x0, p.ssrc, "INBOUND"), x0, p)

Decrypt(x, p) ==
  LET g == r_srtp_ekt_ingest(x, p.ssrc, p.ekt)
  IN CASE x.ekt # << >> /\ g.err # "OK" -> g
       [] x.ekt # << >> /\ g.err = "OK" -> Unprotected(g.x, p)
       [] OTHER -> Unprotected(x, p)
r_srtp_decrypt_rtp(x, p) == Decrypt(x, p)
r_srtp_decrypt_rtcp(x, p) == Decrypt(x, p)

-----------------------------------------------------------------------------
(***************************************************************************)
(* One side of a media session above ICE: the RTP listener that routes     *)
(* decrypted packets, its receivers and senders, the crypto transports     *)
(* (DTLS-SRTP and raw) and the session's transceivers (rlib/rtc/).         *)
(*                                                                         *)
(* A side m is [l, par, sx, loop, closed, ready, log, bad, raw, role,      *)
(* trx]: the listener, the parameters of each running receiver or sender   *)
(* (<< >> when stopped), the SRTP context, the log of application          *)
(* callbacks, and bad, set when the code uses an array slot past the end.  *)
(* Hash tables are functions.  RTP and RTCP share one transport            *)
(* (rtcp-mux).  An SSRC is a set of bits, the empty set the SSRC 0.        *)
(***************************************************************************)
CONSTANTS R_SRTP_FILTER_ANY, \* every bit of an SSRC
          StopOn             \* who -> the callbacks in which the application stops it

NoId == 0
Values(f, v) == {k \in DOMAIN f : f[k] = v}
Bind(f, K, v) == [k \in DOMAIN f \cup K |-> IF k \in K THEN v ELSE f[k]]

r_rtc_rtp_listener_new == [recv |-> << >>, send |-> << >>, ssrc |-> Empty, ext |-> Empty, rid |-> Empty,
                           pt |-> Empty, snd |-> Empty, mid_id |-> NoId, rid_id |-> NoId, rrid_id |-> NoId]

-----------------------------------------------------------------------------
(* Demux tables. *)
r_rtc_rtp_listener_add_receiver(l, r) == IF r \in Range(l.recv) THEN l ELSE [l EXCEPT !.recv = Append(@, r)]
r_rtc_rtp_listener_add_sender(l, s) == IF s \in Range(l.send) THEN l ELSE [l EXCEPT !.send = Append(@, s)]
r_ptr_array_remove_first_fast(a, e) ==
  IF e \notin Range(a) THEN a
  ELSE LET i == CHOOSE j \in DOMAIN a : a[j] = e /\ \A k \in 1..j - 1 : a[k] # e
       IN SubSeq([a EXCEPT ![i] = a[Len(a)]], 1, Len(a) - 1)

Forget(l, r) == [l EXCEPT !.ssrc = Drop(@, Values(@, r)), !.ext = Drop(@, Values(@, r)),
                          !.rid = Drop(@, Values(@, r)), !.pt = Drop(@, Values(@, r))]
\* mutant: the demux entries of a removed receiver stay
remove_receiver_stale(l, r) == [l EXCEPT !.recv = r_ptr_array_remove_first_fast(@, r)]
r_rtc_rtp_listener_remove_receiver(l, r) ==
  LET f == Forget(l, r) IN [f EXCEPT !.recv = r_ptr_array_remove_first_fast(@, r)]
r_rtc_rtp_listener_remove_sender(l, s) ==
  [l EXCEPT !.snd = Drop(@, Values(@, s)), !.send = r_ptr_array_remove_first_fast(@, s)]

(* p: [enc: Seq [ssrc, rtx, fec, rid], ids: [mid, rid, rrid], pts, mid]     *)
Ssrcs(p) == UNION {{p.enc[i].ssrc, p.enc[i].rtx, p.enc[i].fec} : i \in DOMAIN p.enc} \ {{}}
Rids(p) == {p.enc[i].rid : i \in DOMAIN p.enc} \ {""}
r_rtc_rtp_listener_update_receiver(l0, r, p) ==
  LET l == Forget(l0, r)
      id(new, old) == IF new = NoId THEN old ELSE new
  IN [l EXCEPT !.ssrc = Bind(@, Ssrcs(p), r), !.rid = Bind(@, Rids(p), r),
               !.ext = IF p.ids.mid = NoId THEN @ ELSE Bind(@, {p.mid}, r), !.pt = Bind(@, p.pts, r),
               !.mid_id = id(p.ids.mid, @), !.rid_id = id(p.ids.rid, @), !.rrid_id = id(p.ids.rrid, @)]
r_rtc_rtp_listener_update_sender(l, s, p) ==
  [l EXCEPT !.snd = Bind(Drop(@, Values(@, s)), Ssrcs(p), s)]

-----------------------------------------------------------------------------
(* Receivers and senders; the transport they start and share. *)
r_rtc_crypto_transport_start(m) == IF m.loop THEN m ELSE [m EXCEPT !.loop = TRUE]
r_rtc_rtp_receiver_start(m, r, p) ==
  IF m.par[r] # << >> THEN m
  ELSE r_rtc_crypto_transport_start(
         [m EXCEPT !.par[r] = <<p>>,
                   !.l = r_rtc_rtp_listener_update_receiver(r_rtc_rtp_listener_add_receiver(@, r), r, p)])
r_rtc_rtp_receiver_stop(m, r) ==
  IF m.par[r] = << >> THEN m
  ELSE [m EXCEPT !.par[r] = << >>, !.l = r_rtc_rtp_listener_remove_receiver(@, r)]
r_rtc_rtp_sender_start(m, s, p) ==
  IF m.par[s] # << >> THEN m
  ELSE r_rtc_crypto_transport_start(
         [m EXCEPT !.par[s] = <<p>>,
                   !.l = r_rtc_rtp_listener_update_sender(r_rtc_rtp_listener_add_sender(@, s), s, p)])
r_rtc_rtp_sender_stop(m, s) ==
  IF m.par[s] = << >> THEN m
  ELSE [m EXCEPT !.par[s] = << >>, !.l = r_rtc_rtp_listener_remove_sender(@, s)]

(* An application callback: logged, and it may stop its own object. *)
Callback(m, who, what, v) ==
  LET n == [m EXCEPT !.log = Append(@, [who |-> who, what |-> what, v |-> v, running |-> m.par[who] # << >>])]
  IN CASE what \notin StopOn[who] -> n
       [] what \in StopOn[who] /\ who \in Range(n.l.send) -> r_rtc_rtp_sender_stop(n, who)
       [] OTHER -> r_rtc_rtp_receiver_stop(n, who)
(* The loops that read slot i of the live array up to the count at entry. *)
Slots(m0, receivers, what, v) ==
  LET arr(m) == IF receivers THEN m.l.recv ELSE m.l.send
      slot(m, i) == CASE m.bad -> m
                      [] ~m.bad /\ i > Len(arr(m)) -> [m EXCEPT !.bad = TRUE]
                      [] OTHER -> Callback(m, arr(m)[i], what, v)
  IN FoldLeft(slot, m0, [i \in DOMAIN arr(m0) |-> i])
r_rtc_rtp_listener_notify_ready(m) == Slots(Slots(m, TRUE, "ready", 0), FALSE, "ready", 0)
r_rtc_rtp_listener_notify_close(m) == Slots(Slots(m, TRUE, "close", 0), FALSE, "close", 0)

-----------------------------------------------------------------------------
(* RTP: a packet's ext is a sequence of [id, val, by]. *)
r_rtc_rtp_ext_element(p, id) ==
  LET S == {i \in DOMAIN p.ext : p.ext[i].id = id /\ \A j \in 1..i : p.ext[j].id # 15}
  IN IF id = NoId \/ S = {} THEN << >>
     ELSE LET e == p.ext[CHOOSE i \in S : \A j \in S : i <= j]
          IN IF e.by = "clear" THEN <<e.val>> ELSE <<"garbage">>
r_rtc_rtp_listener_read_rid(p, id) == r_rtc_rtp_ext_element(p, id)

r_rtc_rtp_listener_learn_rid_ssrc(m, p, r) ==
  LET rid == r_rtc_rtp_listener_read_rid(p, m.l.rid_id)
      rrid == r_rtc_rtp_listener_read_rid(p, m.l.rrid_id)
      enc == m.par[r][1].enc
      first(v) == CHOOSE i \in DOMAIN enc : enc[i].rid = v /\ \A j \in 1..i - 1 : enc[j].rid # v
      known(v) == m.par[r] # << >> /\ v # << >> /\ \E i \in DOMAIN enc : enc[i].rid = v[1]
  IN CASE known(rid) -> [m EXCEPT !.par[r][1].enc[first(rid[1])].ssrc = p.ssrc]
       [] rid = << >> /\ known(rrid) -> [m EXCEPT !.par[r][1].enc[first(rrid[1])].rtx = p.ssrc]
       [] OTHER -> m

ByMid(l, p) ==
  LET v == r_rtc_rtp_ext_element(p, l.mid_id)
  IN IF v # << >> /\ v[1] \in DOMAIN l.ext THEN <<l.ext[v[1]]>> ELSE << >>
ByRid(l, p) ==
  LET v == r_rtc_rtp_listener_read_rid(p, l.rid_id)
      w == IF v # << >> THEN v ELSE r_rtc_rtp_listener_read_rid(p, l.rrid_id)
  IN IF w # << >> /\ w[1] \in DOMAIN l.rid THEN <<l.rid[w[1]]>> ELSE << >>

r_rtc_rtp_listener_handle_rtp(m, p) ==
  LET l == m.l
      r == IF ByMid(l, p) # << >> THEN ByMid(l, p) ELSE ByRid(l, p)
      learned(n) == [r_rtc_rtp_listener_learn_rid_ssrc(n, p, r[1]) EXCEPT !.l.ssrc = Bind(@, {p.ssrc}, r[1])]
      blank == DOMAIN l.ssrc = {} /\ DOMAIN l.ext = {} /\ DOMAIN l.rid = {} /\ DOMAIN l.pt = {}
  IN CASE blank /\ l.recv # << >> -> Slots(m, TRUE, "rtp", p)
       [] ~blank /\ p.ssrc \in DOMAIN l.ssrc -> Callback(m, l.ssrc[p.ssrc], "rtp", p)
       [] ~blank /\ p.ssrc \notin DOMAIN l.ssrc /\ r # << >> -> Callback(learned(m), r[1], "rtp", p)
       [] ~blank /\ p.ssrc \notin DOMAIN l.ssrc /\ r = << >> /\ p.pt \in DOMAIN l.pt ->
            Callback(m, l.pt[p.pt], "rtp", p)
       [] OTHER -> m                                           \* R_RTC_NO_HANDLER

-----------------------------------------------------------------------------
(* RTCP: a compound is a sequence of [t, ssrc, about]: the SSRCs of the      *)
(* report blocks, the media SSRC of a feedback packet, or those an XR names. *)
Owned(f, ssrc, who) == ssrc # {} /\ ssrc \in DOMAIN f /\ f[ssrc] = who
r_rtc_rtp_listener_build_receiver_rtcp(l, r, c) ==
  SelectSeq(c, LAMBDA q : q.t = "SR" => Owned(l.ssrc, q.ssrc, r))
r_rtc_rtp_listener_build_sender_rtcp(l, s, c) ==
  LET mine(q) == SelectSeq(q.about, LAMBDA a : Owned(l.snd, a, s))
      cut(q) == IF q.t \in {"SR", "RR"} THEN [q EXCEPT !.t = "RR", !.about = mine(q)] ELSE q
      sel == SelectSeq(c, LAMBDA q : q.t \in {"SR", "RR", "RTPFB", "PSFB", "XR"} /\ mine(q) # << >>)
  IN [i \in DOMAIN sel |-> cut(sel[i])]
r_rtc_rtp_listener_collect_sender(l, targets, ssrc) ==
  IF ssrc = {} \/ ssrc \notin DOMAIN l.snd THEN targets
  ELSE IF l.snd[ssrc] \in Range(targets) THEN targets ELSE Append(targets, l.snd[ssrc])
Named(c) == FlattenSeq([i \in DOMAIN c |-> IF c[i].t \in {"SR", "RR", "RTPFB", "PSFB", "XR"} THEN c[i].about ELSE << >>])

r_rtc_rtp_listener_handle_rtcp(m, c) ==
  LET l == m.l                    \* targets and buffers are taken before any callback
      targets == IF l.send = << >> THEN << >>
                 ELSE FoldLeft(LAMBDA t, a : r_rtc_rtp_listener_collect_sender(l, t, a), << >>, Named(c))
      give(n, who, b) == IF b = << >> THEN n ELSE Callback(n, who, "rtcp", b)
      recv == FoldLeft(LAMBDA n, r : give(n, r, r_rtc_rtp_listener_build_receiver_rtcp(l, r, c)), m, l.recv)
  IN FoldLeft(LAMBDA n, s : give(n, s, r_rtc_rtp_listener_build_sender_rtcp(l, s, c)), recv, targets)

-----------------------------------------------------------------------------
(* Transports. *)
r_rtc_dtls_install_srtp(m, server_role) ==
  LET recv == IF server_role THEN "cli" ELSE "srv"
      send == IF server_role THEN "srv" ELSE "cli"
      a == r_srtp_add_crypto_context_with_filter_dual(m.sx, R_SRTP_FILTER_ANY, recv, send)
  IN IF a.err = "OK" THEN r_rtc_rtp_listener_notify_ready([m EXCEPT !.sx = a.x, !.ready = TRUE]) ELSE m

HandleDecrypted(m, p, d) ==
  LET n == [m EXCEPT !.sx = d.x]
  IN CASE d.err # "OK" -> n
       [] d.err = "OK" /\ p.k = "rtp" -> r_rtc_rtp_listener_handle_rtp(n, d.out[1])
       [] OTHER -> r_rtc_rtp_listener_handle_rtcp(n, d.out[1].pay)
r_rtc_dtls_transport_ice_packet(m, p) ==
  HandleDecrypted(m, p, IF p.k = "rtp" THEN r_srtp_decrypt_rtp(m.sx, p) ELSE r_srtp_decrypt_rtcp(m.sx, p))
r_rtc_raw_transport_ice_packet(m, p) ==
  CASE m.packet # "none" -> [m EXCEPT !.log = Append(@, [who |-> m.packet, what |-> "packet", v |-> p, running |-> TRUE])]
    [] m.packet = "none" /\ p.k = "rtp" -> r_rtc_rtp_listener_handle_rtp(m, p)
    [] OTHER -> r_rtc_rtp_listener_handle_rtcp(m, p.pay)
r_rtc_crypto_transport_ice_packet(m, p) ==
  CASE m.closed -> m
    [] ~m.closed /\ m.raw -> r_rtc_raw_transport_ice_packet(m, p)
    [] OTHER -> r_rtc_dtls_transport_ice_packet(m, p)

r_rtc_dtls_transport_send(m, p) ==
  LET e == IF p.k = "rtp" THEN r_srtp_encrypt_rtp(m.sx, p) ELSE r_srtp_encrypt_rtcp(m.sx, p)
  IN [m |-> [m EXCEPT !.sx = e.x], err |-> e.err, out |-> e.out]
r_rtc_raw_transport_send(m, p) == [m |-> m, err |-> "OK", out |-> <<p>>]
r_rtc_rtp_sender_send(m, p) == IF m.raw THEN r_rtc_raw_transport_send(m, p) ELSE r_rtc_dtls_transport_send(m, p)

r_rtc_crypto_transport_set_on_packet(m, cb) == [m EXCEPT !.packet = cb]
r_rtc_crypto_transport_close(m) == r_rtc_rtp_listener_notify_close([m EXCEPT !.closed = TRUE])

-----------------------------------------------------------------------------
(* The session's transceivers: [mid, recv, send]; a media id is a sequence   *)
(* of characters, compared over the length of the one asked for.           *)
r_rtc_session_lookup_rtp_transceiver(trx, mid) ==
  LET S == {i \in DOMAIN trx : IsPrefix(mid, trx[i].mid)}
  IN IF S = {} THEN 0 ELSE CHOOSE i \in S : \A j \in S : i <= j
r_rtc_session_get_rtp_transceiver(trx, mid) ==
  IF r_rtc_session_lookup_rtp_transceiver(trx, mid) # 0 THEN trx
  ELSE Append(trx, [mid |-> mid, recv |-> << >>, send |-> << >>])
r_rtc_session_create_rtp_receiver(trx0, mid, r) ==
  LET trx == r_rtc_session_get_rtp_transceiver(trx0, mid)
      i == r_rtc_session_lookup_rtp_transceiver(trx, mid)
  IN IF trx[i].recv # << >> THEN trx ELSE [trx EXCEPT ![i].recv = <<r>>]
r_rtc_session_create_rtp_sender(trx0, mid, s) ==
  LET trx == r_rtc_session_get_rtp_transceiver(trx0, mid)
      i == r_rtc_session_lookup_rtp_transceiver(trx, mid)
  IN IF trx[i].send # << >> THEN trx ELSE [trx EXCEPT ![i].send = <<s>>]
r_rtc_session_create_rtp_transceiver(trx, mid, r, s) ==
  IF r_rtc_session_lookup_rtp_transceiver(trx, mid) # 0 THEN trx
  ELSE Append(trx, [mid |-> mid, recv |-> <<r>>, send |-> <<s>>])

-----------------------------------------------------------------------------
(***************************************************************************)
(* Two sides of a media session (the listener over SRTP) and the           *)
(* datagram path between them: each packet arrives not at all, once or     *)
(* twice, in any order.  The application of each side runs a script of     *)
(* calls; a call is a sequence, its name first.                            *)
(***************************************************************************)
CONSTANTS Plans,             \* [script: side -> Seq of calls, raw, owner: ssrc -> receiver]
          COPIES             \* how often one datagram may arrive

VARIABLES plan, m, pc, net,
          acc,               \* ghost: indices accepted by the streams of a side
          twice,             \* ghost: distances behind the newest at which one was accepted again
          missed             \* ghost: errors on packets that had to be accepted

Sides == {"A", "B"}
Other(d) == IF d = "A" THEN "B" ELSE "A"
Who == DOMAIN StopOn
Side(raw) == [l |-> r_rtc_rtp_listener_new, par |-> [w \in Who |-> << >>], sx |-> r_srtp_ctx_new, raw |-> raw,
              loop |-> FALSE, closed |-> FALSE, ready |-> FALSE, log |-> << >>, bad |-> FALSE, packet |-> "none",
              trx |-> << >>]

MediaInit == /\ plan \in Plans
             /\ m = [d \in Sides |-> Side(plan.raw)]
             /\ pc = [d \in Sides |-> 1]
             /\ net = {} /\ acc = {} /\ twice = {} /\ missed = {}

(* The calls that only change the caller's side. *)
Srtp(n, r) == [n EXCEPT !.sx = r.x]
Apply(n, c) ==
  LET x == n.sx
  IN CASE c[1] = "start" -> r_rtc_rtp_receiver_start(n, c[2], c[3])
       [] c[1] = "start_sender" -> r_rtc_rtp_sender_start(n, c[2], c[3])
       [] c[1] = "stop" -> r_rtc_rtp_receiver_stop(n, c[2])
       [] c[1] = "stop_sender" -> r_rtc_rtp_sender_stop(n, c[2])
       [] c[1] = "close" -> r_rtc_crypto_transport_close(n)
       [] c[1] = "on_packet" -> r_rtc_crypto_transport_set_on_packet(n, c[2])
       [] c[1] = "hs_done" -> r_rtc_dtls_install_srtp(n, c[2])
       [] c[1] = "key" -> Srtp(n, r_srtp_add_crypto_context_for_ssrc(x, c[2], c[3]))
       [] c[1] = "rekey" -> Srtp(n, r_srtp_update_crypto_context_for_ssrc(x, c[2], c[3]))
       [] c[1] = "mki" -> Srtp(n, r_srtp_add_crypto_context_for_ssrc_with_mki(x, c[2], c[3], c[4], c[5]))
       [] c[1] = "mki_filter" -> Srtp(n, r_srtp_add_crypto_context_with_filter_with_mki(x, c[2], c[3], c[4], c[5]))
       [] c[1] = "stage" -> Srtp(n, r_srtp_add_master_key(x, c[2], c[3], c[4], c[5]))
       [] c[1] = "roll" -> Srtp(n, r_srtp_set_send_master_key(x, c[2], c[3]))
       [] c[1] = "ekt" -> Srtp(n, r_srtp_add_ekt_key(x, c[2], c[3]))
       [] c[1] = "ekt_send" -> Srtp(n, r_srtp_set_ekt_send_key(x, c[2]))
       [] c[1] = "ekt_ttl" -> Srtp(n, r_srtp_set_ekt_key_ttl(x, c[2], c[3]))
       [] c[1] = "ekt_interval" -> Srtp(n, r_srtp_set_ekt_full_interval(x, c[2]))
       [] c[1] = "hdrext" -> Srtp(n, r_srtp_set_encrypted_header_extension(x, c[2], c[3]))
       [] c[1] = "wait" -> [n EXCEPT !.sx.now = @ + c[2]]
       [] c[1] = "receiver" -> [n EXCEPT !.trx = r_rtc_session_create_rtp_receiver(@, c[2], c[3])]
       [] c[1] = "sender" -> [n EXCEPT !.trx = r_rtc_session_create_rtp_sender(@, c[2], c[3])]
       [] c[1] = "transceiver" -> [n EXCEPT !.trx = r_rtc_session_create_rtp_transceiver(@, c[2], c[3], c[4])]

Current(d) == plan.script[d][pc[d]]
More(d) == pc[d] <= Len(plan.script[d])

Call(d) == /\ More(d) /\ Current(d)[1] # "send"
           /\ m' = [m EXCEPT ![d] = Apply(@, Current(d))]
           /\ pc' = [pc EXCEPT ![d] = @ + 1]
           /\ UNCHANGED <<plan, net, acc, twice, missed>>

Sent(d, r) == /\ m' = [m EXCEPT ![d] = r.m]
              /\ net' = IF r.out = << >> THEN net ELSE net \cup {[to |-> Other(d), left |-> COPIES, p |-> r.out[1]]}
              /\ pc' = [pc EXCEPT ![d] = @ + 1]
              /\ UNCHANGED <<plan, acc, twice, missed>>
Send(d) == More(d) /\ Current(d)[1] = "send" /\ Sent(d, r_rtc_rtp_sender_send(m[d], Current(d)[2]))

(* What the receiving stream has accepted since it was last created, and    *)
(* whether it had to accept p: keyed with p's key (and told its EKT key),  *)
(* not seen, no older than the window, and nearer than half the sequence   *)
(* space to the newest.                                                    *)
Accepted(d, p) == {a.idx : a \in {b \in acc : b.at = d /\ b.ssrc = p.ssrc /\ b.k = p.k}}
Expected(d, p) ==
  LET x == m[d].sx
      n == r_srtp_lookup_crypto_ctx(x, p.ssrc)
      A == Accepted(d, p)
      near(i) == IF p.k = "rtp" THEN p.idx < i + MEDIAN /\ i < p.idx + MEDIAN ELSE TRUE
  IN /\ ~m[d].raw /\ n # 0
     /\ \E i \in DOMAIN x.cc[n].keys : x.cc[n].keys[i].recv = p.key
     /\ (p.ekt = NoEkt) = (x.ekt = << >>)
     /\ p.ekt.t = "full" => r_srtp_ekt_find_key(x, p.ekt.spi) # 0
     /\ A # {} /\ p.idx \notin A /\ p.idx + WINDOW >= Max(A) /\ near(Max(A))
Result(d, p) == IF p.k = "rtp" THEN r_srtp_decrypt_rtp(m[d].sx, p) ELSE r_srtp_decrypt_rtcp(m[d].sx, p)

\* r: what decrypting w's packet gives.
Delivered(d, w, r) ==
    LET p == w.p
        fresh == r.x.rx # m[d].sx.rx                 \* an EKT key was installed: a new stream
        gone == IF fresh THEN {a \in acc : a.at = d /\ a.ssrc = p.ssrc} ELSE {}
        ok == ~m[d].raw /\ ~m[d].closed /\ r.err = "OK"
    IN /\ net' = (net \ {w}) \cup (IF w.left = 1 THEN {} ELSE {[w EXCEPT !.left = @ - 1]})
       /\ m' = [m EXCEPT ![d] = r_rtc_crypto_transport_ice_packet(@, p)]
       /\ acc' = (acc \ gone) \cup (IF ok THEN {[at |-> d, k |-> p.k, ssrc |-> p.ssrc, idx |-> p.idx]} ELSE {})
       /\ twice' = twice \cup (IF ok /\ ~fresh /\ p.idx \in Accepted(d, p) THEN {Max(Accepted(d, p)) - p.idx} ELSE {})
       /\ missed' = missed \cup (IF ~m[d].closed /\ ~fresh /\ ~ok /\ Expected(d, p) THEN {r.err} ELSE {})
       /\ UNCHANGED <<plan, pc>>
Deliver(d) == \E w \in {v \in net : v.to = d} : Delivered(d, w, Result(d, w.p))

MediaNext == \E d \in Sides : Call(d) \/ Send(d) \/ Deliver(d)

-----------------------------------------------------------------------------
(***************************************************************************)
(* Media sessions: two bundled receivers keyed by DTLS, one SSRC rekeyed   *)
(* in place, master keys rolled by MKI, keys carried by EKT, and a raw     *)
(* transport.                                                              *)
(***************************************************************************)
X == {1}                     \* SSRCs
Y == {2}
Params(ssrc, mid, pt) == [enc |-> <<[ssrc |-> ssrc, rtx |-> {}, fec |-> {}, rid |-> ""]>>, mid |-> mid, pts |-> {pt},
                          ids |-> [mid |-> 1, rid |-> 2, rrid |-> 3]]
Layers(mid, pt) == [Params({}, mid, pt) EXCEPT !.enc = <<[ssrc |-> {}, rtx |-> {}, fec |-> {}, rid |-> "hi"]>>]
El(id, v) == [id |-> id, val |-> v, by |-> "clear"]
Rtp(ssrc, seq, pt, ext) == [k |-> "rtp", ssrc |-> ssrc, seq |-> seq, pt |-> pt, ext |-> ext, pay |-> << >>,
                            key |-> "none", idx |-> seq, mki |-> 0, ekt |-> NoEkt]
Rtcp(ssrc, c) == [Rtp(ssrc, 0, 0, << >>) EXCEPT !.k = "rtcp", !.pay = c]
Rep(t, ssrc, about) == [t |-> t, ssrc |-> ssrc, about |-> about]
Snd(p) == <<"send", p>>
Sending(ssrc, seqs) == [i \in DOMAIN seqs |-> Snd(Rtp(ssrc, seqs[i], 96, << >>))]

P(a, b) == [script |-> [A |-> a, B |-> b], raw |-> FALSE, owner |-> (X :> "r1" @@ Y :> "r2")]
Report == Rtcp(X, <<Rep("SR", X, << >>), Rep("SDES", X, << >>)>>)
Feedback == Rtcp(Y, <<Rep("RR", Y, <<X, {}>>), Rep("PSFB", Y, <<X>>), Rep("XR", Y, <<Y>>), Rep("RR", Y, <<Y>>)>>)

DtlsPlans ==
  {P(<<<<"hs_done", FALSE>>, <<"sender", <<"1">>, "s1">>, <<"start_sender", "s1", Params(X, "m1", 96)>>,
       Snd(Rtp(X, 14, 96, <<El(1, "m1")>>)), Snd(Rtp(Y, 7, 97, <<El(2, "hi"), El(15, "x"), El(1, "m1")>>)),
       Snd(Rtp(X, 1, 96, << >>)), Snd(Report)>>,
     <<<<"hs_done", TRUE>>, <<"receiver", <<"1">>, "r1">>, <<"transceiver", <<"2">>, "r2", "s2">>,
       <<"start", "r1", Params({}, "m1", 96)>>, <<"start", "r2", Layers("m2", 97)>>, Snd(Feedback)>> \o tail) :
     tail \in {<< >>, <<<<"stop", "r1">>, <<"start", "r1", Params(X, "m1", 96)>>, <<"close">>>>}}
(* A sequence number that wraps, an old packet, a repeated call, and a rekey. *)
SsrcPlans ==
  {P(<<<<"key", X, "k1">>>> \o Sending(X, <<14, 15, 0>>) \o <<<<"rekey", X, "k2">>>> \o Sending(X, <<1, 1, 3>>),
     <<<<"key", X, "k1">>, <<"start", "r1", Params(X, "m1", 96)>>, <<"rekey", X, "k2">>>>)}
MkiPlans ==
  {P(<<<<"hdrext", 1, TRUE>>, <<"mki", X, "ra", "k1", 1>>, Snd(Rtp(X, 2, 96, <<El(1, "m1"), El(4, "v")>>)),
       <<"stage", X, "rb", "k2", 2>>, <<"roll", X, 2>>, Snd(Rtp(X, 3, 96, <<El(1, "m1")>>)), <<"roll", X, 1>>,
       Snd(Rtp(X, 4, 96, <<El(1, "m1")>>))>>,
     <<<<"hdrext", 1, TRUE>>, <<"mki_filter", R_SRTP_FILTER_ANY, "k1", "ra", 1>>, <<"start", "r1", Params({}, "m1", 95)>>,
       <<"stage", R_SRTP_FILTER_ANY, "k2", "rb", 2>>>>)}
EktPlans ==
  {P(<<<<"key", X, "k1">>, <<"ekt", 1, 3>>, <<"ekt", 2, 0>>, <<"ekt_send", 1>>, <<"ekt_interval", 2>>>>
       \o Sending(X, <<5, 6>>) \o <<<<"rekey", X, "k2">>>> \o Sending(X, <<7>>) \o <<<<"wait", 2>>, <<"ekt_send", 2>>>>
       \o Sending(X, <<8>>) \o <<Snd(Report)>>,
     <<<<"ekt", 2, 0>>, <<"ekt", 1, 0>>, <<"ekt_ttl", 1, 9>>, <<"start", "r1", Params(X, "m1", 96)>>>>)}
RawPlans ==
  {[P(Sending(X, <<1, 2>>) \o <<Snd(Report)>>,
      <<<<"start", "r1", [Params({}, "m1", 96) EXCEPT !.pts = {}, !.ids = [mid |-> 0, rid |-> 0, rrid |-> 0]]>>,
        <<"on_packet", "app">>, <<"stop", "r1">>>>) EXCEPT !.raw = TRUE]}
AllMediaPlans == DtlsPlans \cup SsrcPlans \cup MkiPlans \cup EktPlans \cup RawPlans
NoStops == [w \in {"r1", "r2", "s1", "s2"} |-> {}]

-----------------------------------------------------------------------------
(* Between two installations of its keys a stream accepts no packet index   *)
(* twice, however datagrams are repeated and reordered, across a wrapped   *)
(* sequence number, a rekey and an MKI roll (r_srtp_stream_replay_check).  *)
(* One distance is excepted, because the code accepts it: a packet exactly *)
(* the window's size behind the newest.                                    *)
AtMostOnce == twice \subseteq {WINDOW}

(* An authentic packet that was not seen, is no older than the window and   *)
(* nearer than half the sequence space to the newest one accepted, and made*)
(* with a key the receiver holds, is accepted: no rekey, roll, wrap or     *)
(* reordering makes the two sides disagree on key or rollover counter      *)
(* (r_rtp_estimate_seq_idx, r_srtp_stream_ensure_key, r_srtp_ekt_ingest).  *)
NothingMissed == missed = {}

(* No stream refers to a crypto context that was freed by a rekey or by an  *)
(* EKT install (r_srtp_update_crypto_context_for_ssrc, r_srtp_ekt_install).*)
StreamsLive == \A d \in Sides : \A s \in DOMAIN m[d].sx.streams : m[d].sx.cc[m[d].sx.streams[s].cctx].live

(* A callback goes only to a running receiver or sender: RTP to the         *)
(* receiver of the m-line that owns the SSRC, with every header extension  *)
(* in clear; a Sender Report to the receiver of its source; to a sender    *)
(* only reports that name one of its SSRCs (r_rtc_rtp_listener_handle_rtp, *)
(* _handle_rtcp, _remove_receiver).                                        *)
Routed ==
  \A d \in Sides : \A i \in DOMAIN m[d].log :
    LET e == m[d].log[i]
    IN /\ e.running
       /\ e.what = "rtp" => plan.owner[e.v.ssrc] = e.who /\ \A j \in DOMAIN e.v.ext : e.v.ext[j].by = "clear"
       /\ e.what = "rtcp" => \A j \in DOMAIN e.v : IF e.who = "s1" THEN X \in Range(e.v[j].about)
                                                   ELSE e.v[j].t = "SR" => plan.owner[e.v[j].ssrc] = e.who
Sound == ~\E d \in Sides : m[d].bad
=============================================================================
