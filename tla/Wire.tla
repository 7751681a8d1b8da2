-------------------------------- MODULE Wire --------------------------------
(***************************************************************************)
(* RTP packets (src/rlib/net/proto/rrtp.c).  A packet is the sequence of   *)
(* its octets; a mapped packet is [hdr, ext, pay], each part [at, size] in *)
(* the packet.  32-bit fields are their four octets, most significant      *)
(* first.  NoBuffer is a NULL buffer.                                      *)
(***************************************************************************)
EXTENDS Integers, Sequences, Bitwise

NoBuffer == <<-1>>
R_RTP_HDR_SIZE == 12
Be16(o, i) == o[i + 1] * 256 + o[i + 2]
ToBe16(n) == <<(n \div 256) % 256, n % 256>>
Zero(n) == [i \in 1..n |-> 0]
Splice(o, i, v) == [k \in DOMAIN o |-> IF k \in i + 1..i + Len(v) THEN v[k - i] ELSE o[k]]

\* Fields of the first two octets.
V(o) == o[1] \div 64
P(o) == (o[1] \div 32) % 2
X(o) == (o[1] \div 16) % 2
CC(o) == o[1] % 16
M(o) == o[2] \div 128
PT(o) == o[2] % 128
\* RFC 5761: payload types 64..95 are RTCP's.
r_rtp_hdr_is_valid(o) == V(o) = 2 /\ (PT(o) < 64 \/ PT(o) > 95)
r_rtp_is_valid_hdr(o) ==
  LET fixed == R_RTP_HDR_SIZE + 4 * CC(o)
      words == Be16(o, fixed + 2)
  IN  IF Len(o) < R_RTP_HDR_SIZE \/ ~r_rtp_hdr_is_valid(o) THEN FALSE
      ELSE IF X(o) = 0 THEN Len(o) >= fixed
      ELSE IF Len(o) < fixed + 4 THEN FALSE ELSE Len(o) >= fixed + 4 + 4 * words

\* ext is NoBuffer or [profile, data].
r_rtp_new(payload, pad, cc, ext) ==
  LET hdr == <<128 + (IF pad > 0 THEN 32 ELSE 0) + (IF ext # NoBuffer THEN 16 ELSE 0) + cc>> \o Zero(R_RTP_HDR_SIZE - 1 + 4 * cc)
      word == IF ext = NoBuffer THEN <<>> ELSE ToBe16(ext[1]) \o ToBe16(Len(ext[2]) \div 4) \o ext[2]
      tail == IF pad = 0 THEN <<>> ELSE Zero(pad - 1) \o <<pad>>
  IN  IF payload = NoBuffer \/ cc > 15 THEN NoBuffer
      ELSE IF (IF ext = NoBuffer THEN FALSE ELSE Len(ext[2]) % 4 # 0 \/ Len(ext[2]) > 65535 * 4) THEN NoBuffer
      ELSE hdr \o word \o payload \o tail
r_buffer_new_rtp_buffer(payload, pad, cc) == r_rtp_new(payload, pad, cc, NoBuffer)
r_buffer_new_rtp_buffer_ext(payload, pad, cc, profile, extdata) == r_rtp_new(payload, pad, cc, <<profile, extdata>>)
r_buffer_new_rtp_buffer_take(payload, pad, cc) == r_buffer_new_rtp_buffer(payload, pad, cc)
r_buffer_new_rtp_buffer_alloc(size, pad, cc) == r_buffer_new_rtp_buffer(Zero(size), pad, cc)

\* A padding count that does not fit the payload is ignored; the mapping of an
\* empty rest fails.  NoMap: not mapped.
NoMap == [hdr |-> 0, ext |-> 0, pay |-> <<-1, -1>>]
r_rtp_buffer_map(o, skipPadding) ==
  LET hdr == R_RTP_HDR_SIZE + 4 * CC(o)
      ext == IF X(o) = 0 THEN 0 ELSE 4 + 4 * Be16(o, hdr + 2)
      size == Len(o) - hdr - ext
      pad == IF skipPadding \/ P(o) = 0 THEN 0 ELSE IF o[Len(o)] <= size THEN o[Len(o)] ELSE 0
  IN  IF o = NoBuffer \/ Len(o) < R_RTP_HDR_SIZE THEN NoMap
      ELSE IF ~r_rtp_hdr_is_valid(o) \/ Len(o) < hdr THEN NoMap
      ELSE IF X(o) = 1 /\ Len(o) < hdr + 4 THEN NoMap
      ELSE IF size <= 0 THEN NoMap
      ELSE [hdr |-> hdr, ext |-> ext, pay |-> <<hdr + ext, size - pad>>]

r_rtp_buffer_has_padding(o) == P(o) = 1
r_rtp_buffer_get_padding(o) == IF P(o) = 0 \/ o = <<>> THEN 0 ELSE o[Len(o)]
r_rtp_buffer_has_extension(o) == X(o) = 1
r_rtp_buffer_get_extension(o, rtp) ==
  IF X(o) = 0 \/ rtp.ext < 4 THEN NoBuffer
  ELSE <<Be16(o, rtp.hdr), SubSeq(o, rtp.hdr + 5, rtp.hdr + rtp.ext)>>
r_rtp_buffer_has_marker(o) == M(o) = 1
r_rtp_buffer_get_pt(o) == PT(o)
r_rtp_buffer_get_seq(o) == Be16(o, 2)
r_rtp_buffer_get_timestamp(o) == SubSeq(o, 5, 8)
r_rtp_buffer_get_ssrc(o) == SubSeq(o, 9, 12)
r_rtp_buffer_get_csrc_count(o) == CC(o)
r_rtp_buffer_get_csrc(o, n) == IF n >= CC(o) THEN Zero(4) ELSE SubSeq(o, 13 + 4 * n, 16 + 4 * n)
r_rtp_buffer_set_marker(o, marker) == Splice(o, 1, <<PT(o) + (IF marker THEN 128 ELSE 0)>>)
r_rtp_buffer_set_pt(o, pt) == Splice(o, 1, <<M(o) * 128 + (pt % 128)>>)
r_rtp_buffer_set_seq(o, seq) == Splice(o, 2, ToBe16(seq))
r_rtp_buffer_set_timestamp(o, ts) == Splice(o, 4, ts)
r_rtp_buffer_set_ssrc(o, ssrc) == Splice(o, 8, ssrc)
r_rtp_buffer_set_csrc(o, n, csrc) == IF n >= CC(o) THEN [ok |-> FALSE, o |-> o] ELSE [ok |-> TRUE, o |-> Splice(o, 12 + 4 * n, csrc)]

-----------------------------------------------------------------------------
(***************************************************************************)
(* RTCP compound packets (src/rlib/net/proto/rrtcp.c): a buffer is the     *)
(* sequence of its octets, a packet the offset of its first one, a chunk,  *)
(* an item or a block an offset too; -1 is NULL.  32- and 64-bit fields    *)
(* are their octets, most significant first.                               *)
(***************************************************************************)
SR == 200
RR == 201
SDES == 202
BYE == 203
APP == 204
RTPFB == 205
PSFB == 206
XR == 207
Word(o, i) == SubSeq(o, i + 1, i + 4)
NoWord == Zero(4)

r_rtcp_packet_has_padding(o, p) == (o[p + 1] \div 32) % 2 = 1
r_rtcp_packet_get_count(o, p) == o[p + 1] % 32
r_rtcp_packet_get_type(o, p) == o[p + 2]
r_rtcp_packet_get_length(o, p) == 4 * (Be16(o, p + 2) + 1)
r_rtcp_packet_end(o, p) == p + r_rtcp_packet_get_length(o, p)
r_rtcp_is_valid_hdr(o, p) ==
  IF Len(o) - p < 4 THEN FALSE
  ELSE o[p + 1] \div 64 = 2 /\ r_rtcp_packet_get_type(o, p) >= 128 /\ r_rtcp_packet_end(o, p) <= Len(o)
r_rtcp_buffer_map(o) == r_rtcp_is_valid_hdr(o, 0)
r_rtcp_buffer_get_next_packet(o, p) ==
  LET ret == IF p >= 0 THEN r_rtcp_packet_end(o, p) ELSE 0
  IN  IF ret >= Len(o) THEN -1 ELSE IF r_rtcp_is_valid_hdr(o, ret) THEN ret ELSE -1
\* Packets from offset at on, each valid where the walk reaches it.
Packets(o) ==
  LET f[at \in 0..Len(o)] == IF at >= Len(o) THEN <<>> ELSE IF ~r_rtcp_is_valid_hdr(o, at) THEN <<>> ELSE <<at>> \o f[r_rtcp_packet_end(o, at)]
  IN  f[0]
r_rtcp_buffer_get_packet_count(o) == Len(Packets(o))

Has(o, p, type, words) == r_rtcp_packet_get_type(o, p) = type /\ r_rtcp_packet_get_length(o, p) >= 4 * words
Field(o, p, has, w) == IF has THEN Word(o, p + 4 * w) ELSE NoWord
r_rtcp_packet_get_ssrc(o, p) == Field(o, p, r_rtcp_packet_get_length(o, p) >= 8, 1)
r_rtcp_packet_rr_get_ssrc(o, p) == Field(o, p, Has(o, p, RR, 2), 1)
r_rtcp_packet_sr_get_sender_info(o, p) ==
  IF ~Has(o, p, SR, 7) THEN NoBuffer ELSE <<Word(o, p + 4), SubSeq(o, p + 9, p + 16), Word(o, p + 16), Word(o, p + 20), Word(o, p + 24)>>
\* The 24-bit loss count is signed.
Signed24(n) == IF n >= 8388608 THEN n - 16777216 ELSE n
r_rtcp_packet_sr_get_report_block(o, p, idx) ==
  LET header == IF r_rtcp_packet_get_type(o, p) = RR THEN 8 ELSE 28
      at == p + header + idx * 24
  IN  IF idx >= r_rtcp_packet_get_count(o, p) \/ r_rtcp_packet_get_type(o, p) \notin {RR, SR} THEN NoBuffer
      ELSE IF r_rtcp_packet_get_length(o, p) < header + (idx + 1) * 24 THEN NoBuffer
      ELSE <<Word(o, at), o[at + 5], Signed24(o[at + 6] * 65536 + Be16(o, at + 6)), Word(o, at + 8), Word(o, at + 12), Word(o, at + 16), Word(o, at + 20)>>
-----------------------------------------------------------------------------
\* Source description: an item is [res, type, at, len], type 255 before the first.
SdesInit == [res |-> "OK", type |-> 255, at |-> -1, len |-> 0]
r_rtcp_packet_sdes_chunk_get_next_item(o, p, chunk, item) ==
  LET end == r_rtcp_packet_end(o, p)
      ptr == IF item.type = 255 THEN chunk + 4 ELSE item.at + item.len
      type == o[ptr + 1]
      data == p + 4
      zend == data + (((ptr + 1 - data + 3) \div 4) * 4)
      I(res, at, len) == [res |-> res, type |-> type, at |-> at, len |-> len]
  IN  IF ptr >= end THEN [item EXCEPT !.res = "OVERFLOW"]
      ELSE IF type = 0 THEN IF zend > end THEN I("OVERFLOW", ptr + 1, 0)
                            ELSE IF \E k \in ptr + 1..zend - 1 : o[k + 1] # 0 THEN I("UNEXPECTED", ptr + 1, 0)
                            ELSE I("ZERO", ptr + 1, zend - ptr - 1)
      ELSE IF type >= 9 THEN I("UNEXPECTED", -1, 0)
      ELSE IF ptr + 2 + o[ptr + 2] > end THEN I("OVERFLOW", ptr + 2, o[ptr + 2])
      ELSE I("OK", ptr + 2, o[ptr + 2])
\* The items of a chunk up to the one that is not OK, that one last.
SdesItems(o, p, chunk) ==
  LET f[n \in 0..r_rtcp_packet_get_length(o, p)] ==
        IF n = 0 THEN <<SdesInit>>
        ELSE LET s == f[n - 1] IN
             IF s[Len(s)].res # "OK" THEN s ELSE Append(s, r_rtcp_packet_sdes_chunk_get_next_item(o, p, chunk, s[Len(s)]))
  IN  Tail(f[r_rtcp_packet_get_length(o, p)])
r_rtcp_packet_sdes_get_next_chunk(o, p, chunk) ==
  LET items == SdesItems(o, p, chunk)
      item == items[Len(items)]
  IN  IF r_rtcp_packet_get_type(o, p) # SDES THEN -1 ELSE IF chunk = -1 THEN p + 4
      ELSE IF item.res = "ZERO" /\ item.at + item.len < r_rtcp_packet_end(o, p) THEN item.at + item.len ELSE -1
r_rtcp_packet_sdes_chunk_get_ssrc(o, p, chunk) == IF chunk + 4 <= r_rtcp_packet_end(o, p) THEN Word(o, chunk) ELSE NoWord
-----------------------------------------------------------------------------
r_rtcp_packet_bye_get_ssrc(o, p, idx) ==
  Field(o, p, r_rtcp_packet_get_type(o, p) = BYE /\ idx < r_rtcp_packet_get_count(o, p), 1 + idx)
\* [res, reason] for a caller's buffer of len octets.
r_rtcp_packet_bye_get_reason(o, p, len) ==
  LET ptr == p + 4 + 4 * r_rtcp_packet_get_count(o, p)
      n == o[ptr + 1]
  IN  IF r_rtcp_packet_get_type(o, p) # BYE THEN <<"WRONG_PT", <<>>>>
      ELSE IF Be16(o, p + 2) <= r_rtcp_packet_get_count(o, p) THEN <<"ZERO", <<>>>>
      ELSE IF ptr >= r_rtcp_packet_end(o, p) THEN <<"OVERFLOW", <<>>>>
      ELSE IF ptr + 1 + n > r_rtcp_packet_end(o, p) THEN <<"OVERFLOW", <<>>>>
      ELSE IF len <= n THEN <<"BUF_TOO_SMALL", <<>>>> ELSE <<"OK", SubSeq(o, ptr + 2, ptr + 1 + n)>>
r_rtcp_packet_app_get_ssrc(o, p) == Field(o, p, Has(o, p, APP, 2), 1)
r_rtcp_packet_app_get_name(o, p) == IF Has(o, p, APP, 3) THEN Word(o, p + 8) ELSE NoBuffer
r_rtcp_packet_app_get_data(o, p) == IF Has(o, p, APP, 3) THEN SubSeq(o, p + 13, r_rtcp_packet_end(o, p)) ELSE NoBuffer
IsFb(o, p) == r_rtcp_packet_get_type(o, p) \in {RTPFB, PSFB}
HasFb(o, p) == IsFb(o, p) /\ r_rtcp_packet_get_length(o, p) >= 12
r_rtcp_packet_fb_get_fmt(o, p) == IF IsFb(o, p) THEN r_rtcp_packet_get_count(o, p) ELSE 0
r_rtcp_packet_fb_get_sender_ssrc(o, p) == Field(o, p, HasFb(o, p), 1)
r_rtcp_packet_fb_get_media_ssrc(o, p) == Field(o, p, HasFb(o, p), 2)
r_rtcp_packet_fb_get_fci(o, p) == IF HasFb(o, p) THEN SubSeq(o, p + 13, r_rtcp_packet_end(o, p)) ELSE NoBuffer

\* Extended reports.
r_rtcp_packet_xr_block_get_type(o, b) == o[b + 1]
r_rtcp_packet_xr_block_get_length(o, b) == (4 * Be16(o, b + 2)) % 65536
r_rtcp_packet_xr_get_next_block(o, p, block) ==
  LET end == r_rtcp_packet_end(o, p)
      ptr == IF block = -1 THEN p + 8 ELSE block + 4 + 4 * Be16(o, block + 2)
  IN  IF r_rtcp_packet_get_type(o, p) # XR THEN -1 ELSE IF (block >= 0 /\ block + 4 > end) \/ ptr + 4 > end THEN -1 ELSE ptr
OneSource == {1, 2, 3, 6, 7}
DLRR == 5
r_rtcp_packet_xr_block_get_ssrc_count(o, b) ==
  LET n == r_rtcp_packet_xr_block_get_length(o, b)
      type == r_rtcp_packet_xr_block_get_type(o, b)
  IN  IF type \in OneSource THEN IF n >= 4 THEN 1 ELSE 0 ELSE IF type = DLRR THEN n \div 12 ELSE 0
r_rtcp_packet_xr_block_get_ssrc(o, p, b, idx) ==
  LET end == r_rtcp_packet_end(o, p)
      own == b + 4 + r_rtcp_packet_xr_block_get_length(o, b)
      type == r_rtcp_packet_xr_block_get_type(o, b)
      ptr == b + 4 + (IF type = DLRR THEN idx * 12 ELSE 0)
  IN  IF (type \in OneSource /\ idx = 0) \/ type = DLRR
      THEN IF ptr + 4 <= own /\ ptr + 4 <= end THEN Word(o, ptr) ELSE NoWord
      ELSE NoWord
-----------------------------------------------------------------------------
\* Writing: the buffer with the packet appended, or NoBuffer.
Pad4(o) == o \o Zero((-Len(o)) % 4)
r_rtcp_append(o, pt, count, body) ==
  IF Len(body) % 4 # 0 \/ Len(body) \div 4 > 65535 THEN NoBuffer
  ELSE o \o <<128 + (count % 32), pt>> \o ToBe16(Len(body) \div 4) \o body
Flat(n, Of(_)) == LET f[i \in 0..n] == IF i = 0 THEN <<>> ELSE f[i - 1] \o Of(i) IN f[n]
r_rtcp_write_report_block(rb) ==
  LET lost == rb[3] % 16777216
  IN  rb[1] \o <<rb[2], lost \div 65536>> \o ToBe16(lost % 65536) \o rb[4] \o rb[5] \o rb[6] \o rb[7]
Blocks(rb) == Flat(Len(rb), LAMBDA i : r_rtcp_write_report_block(rb[i]))
r_rtcp_buffer_add_sr(o, srinfo, rb) ==
  IF Len(rb) > 31 THEN NoBuffer
  ELSE r_rtcp_append(o, SR, Len(rb), srinfo[1] \o srinfo[2] \o srinfo[3] \o srinfo[4] \o srinfo[5] \o Blocks(rb))
r_rtcp_buffer_add_rr(o, ssrc, rb) == IF Len(rb) > 31 THEN NoBuffer ELSE r_rtcp_append(o, RR, Len(rb), ssrc \o Blocks(rb))
r_rtcp_buffer_add_sdes(o, ssrc, items) ==
  IF \E i \in DOMAIN items : items[i][1] \notin 1..8 THEN NoBuffer
  ELSE r_rtcp_append(o, SDES, 1, ssrc \o Pad4(Flat(Len(items), LAMBDA i : <<items[i][1], Len(items[i][2])>> \o items[i][2]) \o <<0>>))
r_rtcp_buffer_add_bye(o, ssrcs, reason) ==
  LET text == IF reason = NoBuffer THEN <<>> ELSE Pad4(<<Len(reason)>> \o reason)
  IN  IF Len(ssrcs) > 31 \/ Len(reason) > 255 THEN NoBuffer
      ELSE r_rtcp_append(o, BYE, Len(ssrcs), Flat(Len(ssrcs), LAMBDA i : ssrcs[i]) \o text)
r_rtcp_buffer_add_app(o, subtype, ssrc, name, data) ==
  IF subtype > 31 \/ Len(data) % 4 # 0 THEN NoBuffer ELSE r_rtcp_append(o, APP, subtype, ssrc \o name \o data)
r_rtcp_buffer_add_fb(o, pt, fmt, sender, media, fci) ==
  IF fmt > 31 \/ pt \notin {RTPFB, PSFB} \/ Len(fci) % 4 # 0 THEN NoBuffer ELSE r_rtcp_append(o, pt, fmt, sender \o media \o fci)
r_rtcp_buffer_add_packet(o, from, p) == o \o SubSeq(from, p + 1, r_rtcp_packet_end(from, p))

-----------------------------------------------------------------------------
(***************************************************************************)
(* STUN and TURN messages (src/rlib/net/proto/rstun.c, rstun.h).  A        *)
(* message is the sequence of its octets, a context [buf, alloc] with buf  *)
(* the octets used, an attribute [start, type, len] with its value at      *)
(* start + 4.  An address is [family, port, ip], ip its octets.  A size is *)
(* a ruint16 where the code has one.                                       *)
(***************************************************************************)
CONSTANTS Hmac(_, _),   \* HMAC-SHA1 under a key: 20 octets
          Crc(_),       \* CRC-32 XOR R_STUN_FINGERPRINT_XOR: 4 octets
          Md5(_)

HEADER == 20
COOKIE == <<33, 18, 164, 66>>
MESSAGE_INTEGRITY == 8
ERROR_CODE == 9
CHANNEL_NUMBER == 12
LIFETIME == 13
DATA == 19
FINGERPRINT == 32808
Word4(n) == ((n + 3) \div 4) * 4
Masked(a, b) == [i \in DOMAIN a |-> a[i] ^^ b[i]]

r_stun_msg_len(buf) == Be16(buf, 2)
r_stun_is_valid_msg(buf) ==
  IF Len(buf) < HEADER THEN FALSE
  ELSE buf[1] < 64 /\ Len(buf) >= r_stun_msg_len(buf) + HEADER /\ SubSeq(buf, 5, 8) = COOKIE
r_stun_is_channel_data(buf) == IF Len(buf) < 4 THEN FALSE ELSE Be16(buf, 0) \in 16384..32767

NoCtx == [buf |-> <<>>, alloc |-> 0]
\* Class and method bits are disjoint.
ClassBits == {0, 16, 256, 272}
MethodOk(m) == m < 16384 /\ (m \div 16) % 2 = 0 /\ (m \div 256) % 2 = 0
r_stun_msg_begin(size, cls, method, id) ==
  IF size = 0 \/ cls \notin ClassBits \/ ~MethodOk(method) THEN NoCtx
  ELSE [buf |-> ToBe16(cls + method) \o <<0, 0>> \o COOKIE \o id, alloc |-> size]
Added(ok, ctx) == [ok |-> ok, ctx |-> ctx]
SetLen(ctx, n) == [ctx EXCEPT !.buf = Splice(@, 2, ToBe16(n % 65536))]
r_stun_msg_add_attribute(ctx, type, value) ==
  LET len == Len(value)
      size == Word4(len + 4) % 65536
  IN  IF ctx.alloc - Len(ctx.buf) < size THEN Added(FALSE, ctx)
      ELSE Added(TRUE, [ctx EXCEPT !.buf = @ \o ToBe16(type) \o ToBe16(len) \o value \o Zero(Word4(len) - len)])
r_stun_msg_add_xor_address(ctx, type, addr) ==
  LET mask == SubSeq(ctx.buf, 5, HEADER)
      f == IF addr.family = "IPV4" THEN 1 ELSE 2
  IN  IF addr.family \notin {"IPV4", "IPV6"} THEN Added(FALSE, ctx)
      ELSE r_stun_msg_add_attribute(ctx, type, <<0, f>> \o Masked(ToBe16(addr.port), mask) \o Masked(addr.ip, mask))
r_stun_msg_add_message_integrity_short_cred(ctx, key) ==
  LET c == SetLen(ctx, Len(ctx.buf) + 4 + 20 - HEADER)
  IN  IF ctx.alloc - Len(ctx.buf) < 24 THEN Added(FALSE, ctx)
      ELSE r_stun_msg_add_attribute(c, MESSAGE_INTEGRITY, Hmac(key, c.buf))
r_stun_msg_add_error_code(ctx, code, reason) ==
  r_stun_msg_add_attribute(ctx, ERROR_CODE, <<0, 0, (code \div 100) % 256, code % 100>> \o SubSeq(reason, 1, IF Len(reason) > 128 THEN 128 ELSE Len(reason)))
r_stun_msg_add_lifetime(ctx, seconds) == r_stun_msg_add_attribute(ctx, LIFETIME, seconds)
r_stun_msg_add_channel_number(ctx, channel) == r_stun_msg_add_attribute(ctx, CHANNEL_NUMBER, ToBe16(channel) \o <<0, 0>>)
r_stun_msg_add_data(ctx, data) == IF Len(data) > 65535 THEN Added(FALSE, ctx) ELSE r_stun_msg_add_attribute(ctx, DATA, data)
r_stun_msg_add_string(ctx, type, str) == IF Len(str) > 65535 THEN Added(FALSE, ctx) ELSE r_stun_msg_add_attribute(ctx, type, str)

r_stun_msg_calc_fingerprint(buf, tlv) ==
  IF tlv.type # FINGERPRINT \/ tlv.len # 4 THEN Zero(4) ELSE Crc(SubSeq(buf, 1, tlv.start))
\* The finished message; a fingerprint without room is left out.
r_stun_msg_end(ctx, fingerprint) ==
  LET c == SetLen(ctx, Len(ctx.buf) + 8 - HEADER)
      tlv == [start |-> Len(c.buf), type |-> FINGERPRINT, len |-> 4]
      f == IF fingerprint THEN r_stun_msg_add_attribute(c, FINGERPRINT, r_stun_msg_calc_fingerprint(c.buf, tlv)).ctx ELSE ctx
  IN  SetLen(f, Len(f.buf) - HEADER).buf

r_stun_channel_data_encode(size, channel, data) ==
  IF Len(data) > 65535 \/ size < 4 + Word4(Len(data)) THEN <<>>
  ELSE ToBe16(channel) \o ToBe16(Len(data)) \o data \o Zero(Word4(Len(data)) - Len(data))
NoChannel == [channel |-> -1, data |-> <<>>]
r_stun_channel_data_parse(buf) ==
  IF ~r_stun_is_channel_data(buf) THEN NoChannel ELSE IF 4 + Be16(buf, 2) > Len(buf) THEN NoChannel
  ELSE [channel |-> Be16(buf, 0), data |-> SubSeq(buf, 5, 4 + Be16(buf, 2))]
r_stun_turn_long_term_key(username, realm, password) == Md5(username \o <<58>> \o realm \o <<58>> \o password)
-----------------------------------------------------------------------------
NoTlv == [start |-> -1, type |-> 0, len |-> 0]
TlvAt(buf, start) == [start |-> start, type |-> Be16(buf, start), len |-> Be16(buf, start + 2)]
Value(buf, tlv) == SubSeq(buf, tlv.start + 5, tlv.start + 4 + tlv.len)
Fits(buf, tlv) == tlv.start - HEADER + 4 + tlv.len <= r_stun_msg_len(buf)
r_stun_attr_tlv_first(buf) ==
  IF r_stun_msg_len(buf) < 8 THEN NoTlv ELSE IF Fits(buf, TlvAt(buf, HEADER)) THEN TlvAt(buf, HEADER) ELSE NoTlv
r_stun_attr_tlv_next(buf, tlv) ==
  LET start == tlv.start + 4 + Word4(tlv.len)
  IN  IF r_stun_msg_len(buf) < start - HEADER + 4 THEN NoTlv
      ELSE IF Fits(buf, TlvAt(buf, start)) THEN TlvAt(buf, start) ELSE NoTlv
Attributes(buf) ==
  LET f[at \in 0..Len(buf)] == LET n == r_stun_attr_tlv_next(buf, TlvAt(buf, at)) IN
                               <<TlvAt(buf, at)>> \o (IF n = NoTlv THEN <<>> ELSE f[n.start])
  IN  IF r_stun_attr_tlv_first(buf) = NoTlv THEN <<>> ELSE f[HEADER]
r_stun_msg_attribute_count(buf) == Len(Attributes(buf))

NoAddress == [family |-> "NONE", port |-> 0, ip |-> <<>>]
Address(v, mask) ==
  LET n == IF v[2] = 1 THEN 4 ELSE 16
      port == Masked(SubSeq(v, 3, 4), mask)
  IN  IF Len(v) <= 4 THEN NoAddress ELSE IF v[2] \notin {1, 2} \/ Len(v) < 4 + n THEN NoAddress
      ELSE [family |-> IF n = 4 THEN "IPV4" ELSE "IPV6", port |-> Be16(port, 0), ip |-> Masked(SubSeq(v, 5, 4 + n), mask)]
r_stun_attr_tlv_parse_xor_address(buf, tlv) == Address(Value(buf, tlv), SubSeq(buf, 5, HEADER))
r_stun_attr_tlv_parse_address(buf, tlv) == Address(Value(buf, tlv), Zero(16))
r_stun_attr_tlv_parse_requested_transport_protocol(buf, tlv) == IF tlv.len < 1 THEN 0 ELSE Value(buf, tlv)[1]
r_stun_attr_tlv_parse_error_code(buf, tlv) ==
  LET v == Value(buf, tlv) IN IF tlv.len < 4 THEN 0 ELSE (v[3] % 8) * 100 + (IF v[4] < 99 THEN v[4] ELSE 99)
\* The digest is over what precedes the attribute, with the length it gave the message.
r_stun_msg_check_integrity_short_cred(buf, tlv, key) ==
  LET len == tlv.start % 65536
      upto == Splice(SubSeq(buf, 1, len), 2, ToBe16((len + 4 + tlv.len - HEADER) % 65536))
  IN  IF tlv.type # MESSAGE_INTEGRITY \/ tlv.len # 20 \/ len <= HEADER THEN FALSE ELSE Value(buf, tlv) = Hmac(key, upto)
r_stun_msg_check_fingerprint(buf, tlv) == r_stun_msg_calc_fingerprint(buf, tlv) = Value(buf, tlv)
=============================================================================
