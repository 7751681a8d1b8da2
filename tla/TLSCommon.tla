----------------------------- MODULE TLSCommon -----------------------------
(***************************************************************************)
(* What the TLS client and the TLS server of rlib share: the symbolic      *)
(* cryptography of net/proto/rtls13.c and rtls12.c, and the record layer.  *)
(*                                                                         *)
(* A secret is a tuple of a label and the values it is derived from, so    *)
(* two secrets are equal exactly when they were derived alike.  A hash of  *)
(* the handshake transcript is the sequence of the messages folded so far. *)
(* A record key is a secret with the number of its next record; a record   *)
(* carries the key it was protected with, and can be opened only with it.  *)
(***************************************************************************)
EXTENDS Integers, Sequences, FiniteSets, SequencesExt

None == "none"
NoKey == [sec |-> <<None>>, n |-> 0]
NoSched == [psk |-> <<None>>, dh |-> <<None>>, chs |-> <<None>>,
            shs |-> <<None>>, cap |-> <<None>>, sap |-> <<None>>,
            rms |-> <<None>>]

traffic_keys(sec) == [sec |-> sec, n |-> 0]

\* The schedule starts from the ticket's PSK, or from zero.
schedule_init(psk) == [NoSched EXCEPT !.psk = psk]
schedule_early(psk, th) == <<"c e traffic", psk, th>>
schedule_handshake(s, dh, th) ==
  [s EXCEPT !.dh = dh, !.chs = <<"c hs traffic", s.psk, dh, th>>,
            !.shs = <<"s hs traffic", s.psk, dh, th>>]
schedule_master(s, th) ==
  [s EXCEPT !.cap = <<"c ap traffic", s.psk, s.dh, th>>,
            !.sap = <<"s ap traffic", s.psk, s.dh, th>>]
schedule_resumption(s, th) == [s EXCEPT !.rms = <<"res master", s.psk, s.dh, th>>]
resumption_psk(rms, nonce) == <<"resumption", rms, nonce>>
traffic_update(sec) == <<"traffic upd", sec>>
verify_data(sec, th) == <<"finished", sec, th>>
cert_verify_tbs(side, th) == <<side, th>>
message_hash(ch) == [type |-> "message_hash", of |-> ch]
binder(psk, ch) == <<"res binder", psk, ch>>

\* TLS 1.2: the PRF over the premaster secret and, with the extended master
\* secret, the transcript through the ClientKeyExchange.
tls_1_2_prf(pms, label, seed) == <<label, pms, seed>>

\* A Diffie-Hellman share is named by its owner and group: both ends compute
\* the same secret exactly when they use the same pair of shares.
ke_compute(cpub, spub) == <<"dh", cpub, spub>>

(***************************************************************************)
(* The record layer.  An endpoint e has a transcript th, a write key wr, a *)
(* read key rd and a queue out of the records it has sent.                 *)
(***************************************************************************)
\* An authenticator is a function of the transcript it follows: folding its
\* type alone tells the same transcripts apart.
Folded(m) == IF m.type \in {"finished", "certificate_verify"}
             THEN [type |-> m.type] ELSE m
hs_fold(e, m) == [e EXCEPT !.th = Append(@, Folded(m))]

send_record(e, ct, m) ==
  [e EXCEPT !.out = Append(@, [ct |-> ct, key |-> e.wr, m |-> m]),
            !.wr.n = IF e.wr.sec = <<None>> THEN 0 ELSE @ + 1]

\* A handshake message is folded into the transcript and sent.
send_hs(e, m) == send_record(hs_fold(e, m), "handshake", m)

unprotect(key, r) == r.key = key

\* The first of the checks <<failed, error>> that failed, in source order.
FirstError(checks) ==
  LET bad == {i \in DOMAIN checks : checks[i][1]}
  IN IF bad = {} THEN "ok" ELSE checks[CHOOSE i \in bad : \A j \in bad : i <= j][2]

\* The first element of pref that is also in offered, or None.
FirstOf(pref, offered) ==
  LET is == {i \in DOMAIN pref : pref[i] \in offered}
  IN IF is = {} THEN None ELSE pref[CHOOSE i \in is : \A j \in is : i <= j]

emit_alert(e, level, a) ==
  send_record(e, "alert", [type |-> "alert", level |-> level, alert |-> a])
=============================================================================
