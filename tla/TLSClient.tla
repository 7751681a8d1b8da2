----------------------------- MODULE TLSClient -----------------------------
(***************************************************************************)
(* The TLS client of net/rtlsclient.c over a stream: TLS 1.2 and TLS 1.3,  *)
(* with the hybrid offer of both, HelloRetryRequest, resumption with early *)
(* data, key update and post-handshake authentication.  A client is a      *)
(* record c, used as the server's record of module TLSServer is.           *)
(***************************************************************************)
EXTENDS TLSCommon

States == <<"INITIAL", "SERVER_HELLO", "CERTIFICATE", "SERVER_HELLO_DONE",
            "CHANGE_CIPHER", "FINISHED", "APPDATA", "CLOSED", "ERROR">>
Rank(st) == CHOOSE i \in DOMAIN States : States[i] = st
NoTicket == [key |-> None, suite |-> None, rms |-> <<None>>, nonce |-> None]
NoHello == [type |-> None]

new(conf) ==
  [conf |-> conf, state |-> "INITIAL", version |-> 0, tls13 |-> FALSE, hrr |-> FALSE,
   th |-> <<>>, hashing |-> FALSE, hello |-> NoHello, suite |-> None, group |-> None,
   own |-> <<None>>, share |-> <<None>>, alpn |-> None, ems |-> FALSE, etm |-> FALSE,
   resumed |-> FALSE, earlySent |-> FALSE, early |-> FALSE, queued |-> conf.early,
   cookie |-> None, step |-> 0, certReq |-> FALSE, cert |-> None, proved |-> FALSE,
   rd |-> NoKey, wr |-> NoKey, sched |-> NoSched, master |-> <<None>>,
   session |-> NoTicket, err |-> "ok",
   out |-> <<>>, app |-> <<>>, done |-> 0, alert |-> None, closed |-> 0]

change_state(c, st) ==
  IF Rank(st) > Rank(c.state) THEN [c EXCEPT !.state = st]
                              ELSE [c EXCEPT !.err = "WRONG_STATE"]
send_alert(c, a) ==
  [change_state(emit_alert(c, "fatal", a), "ERROR") EXCEPT !.alert = a, !.err = "ok"]
Fail(c, err) == [c EXCEPT !.err = err]
Then(c, next) == IF c.err = "ok" THEN next ELSE c

(***************************************************************************)
(* The ClientHello.                                                        *)
(***************************************************************************)
v13(c) == c.version = 13
Psk(c) == resumption_psk(c.conf.resume.rms, c.conf.resume.nonce)
HasResume(c) == c.conf.resume # NoTicket

\* What the setters accept.
configured(conf) == 12 <= conf.minv /\ conf.minv <= conf.maxv /\ conf.maxv <= 13

Extensions12(c) ==
  [groups |-> {"x25519", "p256"}, alpn |-> c.conf.alpn,
   ems |-> c.conf.minv <= 12, etm |-> c.conf.minv <= 12]
Extensions13(c, retry, resume, early) ==
  [vers |-> IF v13(c) THEN {v \in {12, 13} : v >= c.conf.minv} ELSE {},
   share |-> IF v13(c) THEN c.own ELSE <<None, None>>,
   cookie |-> IF retry THEN c.cookie ELSE None, pskDhe |-> v13(c), early |-> early,
   pha |-> v13(c) /\ c.conf.pha, ticket |-> IF resume THEN c.conf.resume ELSE NoTicket]
psk_binder(c, ch) == binder(Psk(c), ch)

ClientHello(c, retry) ==
  LET resume == HasResume(c) /\ ~retry /\ v13(c)
      early == resume /\ c.conf.maxEarly > 0 /\ c.queued
      ch == [type |-> "client_hello", scsv |-> c.conf.scsv, binder |-> <<None>>,
             suites |-> (IF v13(c) THEN c.conf.suites13 ELSE <<>>)
                        \o (IF c.conf.minv <= 12 THEN c.conf.suites12 ELSE <<>>)]
            @@ Extensions12(c) @@ Extensions13(c, retry, resume, early)
  IN IF resume THEN [ch EXCEPT !.binder = psk_binder(c, ch)] ELSE ch

\* Post-handshake and encrypted handshake messages go out under the write key.
protect_record13(c, ct, m) == send_record(c, ct, m)
send_hs13(c, m) == protect_record13(hs_fold(c, m), "handshake", m)

\* Early data follows the hello under the early-traffic key, which is bound to
\* the ClientHello just buffered.
setup_early_keys13(c) ==
  [c EXCEPT !.wr = traffic_keys(schedule_early(Psk(c), <<c.hello>>)), !.earlySent = TRUE]
send_early_data13(c) ==
  protect_record13(c, "application_data", [type |-> "application_data", data |-> 0])

SendHello(a, retry, ch) ==
  LET h == IF retry THEN hs_fold(a, ch) ELSE [a EXCEPT !.hello = ch]
      b == [h EXCEPT !.out = Append(@, [ct |-> "handshake", key |-> NoKey, m |-> ch])]
      d == IF ch.early THEN setup_early_keys13(b) ELSE b
  IN IF d.earlySent THEN send_early_data13(d) ELSE d
send_hello(c, retry) ==
  LET a == IF v13(c) /\ ~retry
           THEN [c EXCEPT !.group = "x25519", !.own = <<"client", "x25519">>] ELSE c
  IN SendHello(a, retry, ClientHello(a, retry))

start(c) ==
  send_hello([c EXCEPT !.version = c.conf.maxv, !.state = "SERVER_HELLO"], FALSE)

(***************************************************************************)
(* The server's hello m.                                                   *)
(***************************************************************************)
\* A HelloRetryRequest: the transcript restarts from message_hash(CH1), a share
\* is made for the group asked for, and the second ClientHello is sent.
handle_hrr(c, m) ==
  LET err == FirstError(<< <<c.hrr, "WRONG_TYPE">>,
                           <<m.share[2] = c.group, "HANDSHAKE_FAILURE">> >>)
      t == [c EXCEPT !.group = m.share[2], !.own = <<"client", m.share[2]>>,
                     !.suite = m.suite, !.cookie = "cookie", !.hashing = TRUE,
                     !.th = <<message_hash(c.hello), m>>, !.hello = NoHello,
                     !.tls13 = TRUE, !.hrr = TRUE]
  IN IF err # "ok" THEN Fail(c, err) ELSE send_hello(t, TRUE)

\* The share must be on our group and, after a retry, the suite the same; a
\* PSK echoed by the server resumes the session.
nego_server_hello13(c, m) ==
  LET err == FirstError(<< <<c.hrr /\ m.suite # c.suite, "ILLEGAL_PARAMETER">>,
                           <<m.share[2] # c.group, "HANDSHAKE_FAILURE">> >>)
  IN IF err # "ok" THEN Fail(c, err)
     ELSE [c EXCEPT !.resumed = m.psk /\ HasResume(c), !.suite = m.suite,
                    !.share = m.share, !.hashing = TRUE,
                    !.th = IF c.hrr THEN @ ELSE <<c.hello>>, !.hello = NoHello,
                    !.step = 0, !.tls13 = TRUE]

\* A lower version than the one offered must not carry the downgrade sentinel.
nego_server_hello(c, m) ==
  LET back == v13(c) /\ c.conf.minv <= 12
      err == FirstError(<< <<v13(c) /\ m.random = "downgrade", "ILLEGAL_PARAMETER">>,
                           <<v13(c) /\ ~back, "VERSION">> >>)
  IN IF v13(c) /\ m.random = "hrr" THEN handle_hrr(c, m)
     ELSE IF v13(c) /\ m.version = 13 THEN nego_server_hello13(c, m)
     ELSE IF err # "ok" THEN Fail(c, err)
     ELSE [c EXCEPT !.version = 12, !.own = <<None>>, !.suite = m.suite, !.hashing = TRUE,
                    !.th = <<c.hello>>, !.hello = NoHello,
                    !.ems = m.ems, !.etm = m.etm, !.alpn = m.alpn]

\* Handshake keys; the write key stays the early one while early data is out.
setup_keys13(c) ==
  LET k == schedule_handshake(schedule_init(IF c.resumed THEN Psk(c) ELSE <<None>>),
                              ke_compute(c.own, c.share), c.th)
  IN [c EXCEPT !.sched = k, !.rd = traffic_keys(k.shs),
               !.wr = IF c.earlySent THEN @ ELSE traffic_keys(k.chs)]

AlertFor(err) == CASE err = "WRONG_TYPE" -> "unexpected_message"
                   [] err = "VERSION" -> "protocol_version"
                   [] err = "ILLEGAL_PARAMETER" -> "illegal_parameter"
                   [] OTHER -> "handshake_failure"
HelloTaken(n, m) == hs_fold(change_state(n, "CERTIFICATE"), m)
Negotiated(c, n, m) ==
  IF n.err # "ok" THEN send_alert(n, AlertFor(n.err))
  ELSE IF n.hrr /\ ~c.hrr THEN n
  ELSE IF n.tls13 THEN setup_keys13(HelloTaken(n, m)) ELSE HelloTaken(n, m)
state_server_hello(c, ct, m) ==
  IF m.type # "server_hello" THEN send_alert(c, "unexpected_message")
  ELSE Negotiated(c, nego_server_hello(c, m), m)

(***************************************************************************)
(* The encrypted flight of TLS 1.3.                                        *)
(***************************************************************************)
\* The server's decision on early data: refused early data is sent again later.
EncryptedExtensions(c, m) ==
  LET t == [hs_fold(c, m) EXCEPT !.alpn = m.alpn, !.step = IF c.resumed THEN 3 ELSE 1] IN
  IF ~c.earlySent THEN t
  ELSE IF m.early THEN [t EXCEPT !.early = TRUE]
  ELSE [t EXCEPT !.earlySent = FALSE, !.wr = traffic_keys(c.sched.chs)]

\* The server's Finished: EndOfEarlyData under the early key when it accepted
\* early data, our Finished under the handshake key, then the application keys.
ServerFinished(c, m) ==
  LET f == hs_fold(c, m)
      k == schedule_master(c.sched, f.th)
      e == IF c.early
           THEN [send_hs13(f, [type |-> "end_of_early_data"])
                   EXCEPT !.earlySent = FALSE, !.wr = traffic_keys(k.chs)]
           ELSE f
      g == send_hs13(e, [type |-> "finished", vd |-> verify_data(k.chs, e.th)])
  IN [g EXCEPT !.sched = schedule_resumption(k, g.th), !.wr = traffic_keys(k.cap),
               !.rd = traffic_keys(k.sap), !.step = 4]

verify_certificate_verify13(c, m) == m.sig = <<c.cert, cert_verify_tbs("server", c.th)>>

flight13(c, m) ==
  CASE c.step = 0 /\ m.type = "encrypted_extensions" -> EncryptedExtensions(c, m)
    [] c.step = 1 /\ m.type = "certificate" ->
         IF m.cert \notin c.conf.trusted THEN Fail(c, "CORRUPT_CERTIFICATE")
         ELSE [hs_fold(c, m) EXCEPT !.cert = m.cert, !.step = 2]
    [] c.step = 2 /\ m.type = "certificate_verify" ->
         IF ~verify_certificate_verify13(c, m) THEN Fail(c, "HS_VERIFICATION_FAILED")
         ELSE [hs_fold(c, m) EXCEPT !.step = 3, !.proved = TRUE]
    [] c.step = 3 /\ m.type = "finished" ->
         IF m.vd # verify_data(c.sched.shs, c.th) THEN Fail(c, "HS_VERIFICATION_FAILED")
         ELSE ServerFinished(c, m)
    [] OTHER -> Fail(c, "WRONG_TYPE")

\* Early data the server refused, or was never offered, is sent as data.
send_again(c, early) == c.queued /\ ~early

send_appdata(c, d) ==
  send_record(c, "application_data", [type |-> "application_data", data |-> d])

SentAgain(f, t) == IF send_again(f, f.early) THEN send_appdata(t, 0) ELSE t
Flight13Taken(f) ==
  IF f.err # "ok"
  THEN send_alert(f, CASE f.err = "HS_VERIFICATION_FAILED" -> "decrypt_error"
                       [] f.err = "CORRUPT_CERTIFICATE" -> "bad_certificate"
                       [] OTHER -> "handshake_failure")
  ELSE IF f.step < 4 THEN f
  ELSE [SentAgain(f, [change_state(f, "APPDATA") EXCEPT !.hashing = f.conf.pha])
          EXCEPT !.queued = FALSE, !.done = @ + 1]

state_certificate(c, ct, m) ==
  IF c.tls13 THEN Flight13Taken(flight13(c, m))
  ELSE IF m.type # "certificate" THEN send_alert(c, "unexpected_message")
  ELSE IF m.cert \notin c.conf.trusted THEN send_alert(c, "bad_certificate")
  ELSE [hs_fold(change_state(c, "SERVER_HELLO_DONE"), m) EXCEPT !.cert = m.cert]

(***************************************************************************)
(* The rest of a TLS 1.2 handshake.                                        *)
(***************************************************************************)
ecdhe(c) == c.suite # "RSA_CBC"
parse_server_key_exchange(c, m) ==
  IF ~ecdhe(c) \/ c.own # <<None>> THEN Fail(c, "WRONG_STATE")
  ELSE IF m.signer # c.cert THEN Fail(c, "HS_VERIFICATION_FAILED")
  ELSE [c EXCEPT !.share = m.pub, !.own = <<"client", m.pub[2]>>, !.proved = TRUE]

derive_master_secret(c, pms) ==
  IF c.ems THEN tls_1_2_prf(pms, "extended master secret", c.th)
           ELSE tls_1_2_prf(pms, "master secret", <<>>)
send_certificate(c) == send_hs(c, [type |-> "certificate", cert |-> c.conf.cert])
send_certificate_verify(c) ==
  send_hs(c, [type |-> "certificate_verify",
              sig |-> <<c.conf.cert, cert_verify_tbs("client", c.th)>>])
send_key_exchange_ecdhe(c) ==
  send_hs(c, [type |-> "client_key_exchange", pub |-> c.own, pms |-> <<None>>])
send_key_exchange(c) ==
  IF ecdhe(c) THEN send_key_exchange_ecdhe(c)
  ELSE send_hs(c, [type |-> "client_key_exchange", pub |-> c.own, pms |-> <<"pms", c.cert>>])
send_change_cipher(c) ==
  [send_record(c, "change_cipher_spec", [type |-> "change_cipher_spec"])
     EXCEPT !.wr = traffic_keys(<<"client write", c.master>>)]
send_finished(c) ==
  send_hs(c, [type |-> "finished",
              vd |-> verify_data(<<"client finished", c.master>>, c.th)])

\* Certificate when asked for one, ClientKeyExchange, keys, CertificateVerify
\* when a certificate was sent, ChangeCipherSpec, Finished.
send_flight(c) ==
  LET a == send_key_exchange(IF c.certReq THEN send_certificate(c) ELSE c)
      b == [a EXCEPT !.master = derive_master_secret(a,
              IF ecdhe(c) THEN ke_compute(c.own, c.share) ELSE <<"pms", c.cert>>)]
      d == IF c.certReq /\ c.conf.cert # None THEN send_certificate_verify(b) ELSE b
  IN send_finished(send_change_cipher(d))

state_server_hello_done(c, ct, m) ==
  CASE m.type = "server_hello_done" ->
         change_state(send_flight(hs_fold(c, m)), "CHANGE_CIPHER")
    [] m.type = "certificate_request" -> [hs_fold(c, m) EXCEPT !.certReq = TRUE]
    [] m.type = "server_key_exchange" ->
         LET p == parse_server_key_exchange(c, m) IN
         IF p.err = "ok" THEN hs_fold(p, m)
         ELSE send_alert(p, IF p.err = "HS_VERIFICATION_FAILED" THEN "decrypt_error"
                            ELSE "handshake_failure")
    [] OTHER -> send_alert(c, "unexpected_message")

state_change_cipher(c, ct, m) ==
  IF ct # "change_cipher_spec" THEN send_alert(c, "unexpected_message")
  ELSE [change_state(c, "FINISHED") EXCEPT !.rd = traffic_keys(<<"server write", c.master>>)]

parse_finished(c, m) == m.vd = verify_data(<<"server finished", c.master>>, c.th)
state_finished(c, ct, m) ==
  IF m.type # "finished" THEN send_alert(c, "internal_error")
  ELSE IF ~parse_finished(c, m) THEN send_alert(c, "handshake_failure")
  ELSE [change_state(c, "APPDATA") EXCEPT !.hashing = FALSE, !.done = @ + 1]

(***************************************************************************)
(* After the handshake.                                                    *)
(***************************************************************************)
store_ticket13(c, m) == [c EXCEPT !.session = m.ticket]

send_key_update13(c, request) ==
  LET cap == traffic_update(c.sched.cap) IN
  [protect_record13(c, "handshake", [type |-> "key_update", request |-> request])
     EXCEPT !.sched.cap = cap, !.wr = traffic_keys(cap)]
\* Mutant: the new secret is kept but the read key is not replaced.
recv_key_update13_no_key(c, m) ==
  LET t == [c EXCEPT !.sched.sap = traffic_update(@)]
  IN IF m.request THEN send_key_update13(t, FALSE) ELSE t

recv_key_update13(c, m) ==
  LET sap == traffic_update(c.sched.sap)
      t == [c EXCEPT !.sched.sap = sap, !.rd = traffic_keys(sap)]
  IN IF m.request THEN send_key_update13(t, FALSE) ELSE t

sign_certificate_verify13(c) ==
  [type |-> "certificate_verify", sig |-> <<c.conf.cert, cert_verify_tbs("client", c.th)>>]

\* The answer to a CertificateRequest: Certificate, CertificateVerify when we
\* have one, Finished keyed from the application secret.
recv_certificate_request13(c, m) ==
  LET a == send_hs13(hs_fold(c, m), [type |-> "certificate", cert |-> c.conf.cert,
                                   context |-> m.context])
      b == IF c.conf.cert = None THEN a
           ELSE send_hs13(a, sign_certificate_verify13(a))
  IN IF ~c.hashing THEN c
     ELSE send_hs13(b, [type |-> "finished", vd |-> verify_data(c.sched.cap, b.th)])

state_appdata(c, ct, m) ==
  CASE ct = "application_data" -> [c EXCEPT !.app = Append(@, m.data)]
    [] c.tls13 /\ m.type = "new_session_ticket" -> store_ticket13(c, m)
    [] c.tls13 /\ m.type = "key_update" -> recv_key_update13(c, m)
    [] c.tls13 /\ m.type = "certificate_request" /\ c.conf.pha ->
         recv_certificate_request13(c, m)
    [] OTHER -> c

Dispatch(c, ct, m) ==
  CASE c.state = "SERVER_HELLO" -> state_server_hello(c, ct, m)
    [] c.state = "CERTIFICATE" -> state_certificate(c, ct, m)
    [] c.state = "SERVER_HELLO_DONE" -> state_server_hello_done(c, ct, m)
    [] c.state = "CHANGE_CIPHER" -> state_change_cipher(c, ct, m)
    [] c.state = "FINISHED" -> state_finished(c, ct, m)
    [] c.state = "APPDATA" -> state_appdata(c, ct, m)
    [] OTHER -> c

\* A fatal alert is reported and ends the session; a close_notify is answered.
RecvAlert(c, m) ==
  IF m.level = "fatal"
  THEN [change_state(c, "ERROR") EXCEPT !.alert = m.alert, !.err = "ok"]
  ELSE IF m.alert = "close_notify" /\ Rank(c.state) < Rank("CLOSED")
  THEN [change_state(emit_alert(c, "warning", "close_notify"), "CLOSED")
          EXCEPT !.closed = @ + 1]
  ELSE c

\* A record that does not open under the read key is dropped.
incoming_data(c, r) ==
  LET protected == c.rd.sec # <<None>> /\ r.ct # "change_cipher_spec"
                   /\ (c.tls13 => r.key.sec # <<None>>)
      t == IF protected THEN [c EXCEPT !.rd.n = @ + 1] ELSE c
  IN IF c.tls13 /\ r.ct = "change_cipher_spec" THEN c
     ELSE IF protected /\ ~unprotect(c.rd, r) THEN c
     ELSE IF r.ct = "alert" THEN RecvAlert(t, r.m)
     ELSE Dispatch(t, r.ct, r.m)

close(c) == change_state(emit_alert(c, "warning", "close_notify"), "CLOSED")
=============================================================================
