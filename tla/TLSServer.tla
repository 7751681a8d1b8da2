----------------------------- MODULE TLSServer -----------------------------
(***************************************************************************)
(* The TLS server of net/rtlsserver.c over a stream: TLS 1.2 and TLS 1.3.  *)
(* A server is a record s; an operator named after a function of the       *)
(* source gives the server after that function ran.  A function that can   *)
(* fail leaves its error in s.err, and its caller sends the alert.         *)
(*                                                                         *)
(* s.conf is what the application configured, s.out the records sent,      *)
(* s.app the data the application was given, s.done, s.alert and s.closed  *)
(* the callbacks it received.                                              *)
(***************************************************************************)
EXTENDS TLSCommon

States == <<"INITIAL", "HELLO", "CERTIFICATE", "KEY_EXCHANGE", "CERTIFICATE_VERIFY",
            "CHANGE_CIPHER", "FINISHED", "APPDATA", "CLOSED", "ERROR">>
Rank(st) == CHOOSE i \in DOMAIN States : States[i] = st

new(conf) ==
  [conf |-> conf, state |-> "INITIAL", version |-> 0, tls13 |-> FALSE, hrr |-> FALSE,
   th |-> <<>>, hashing |-> FALSE, suite |-> None, group |-> None,
   share |-> <<None, None>>, own |-> <<None>>, alpn |-> None, ems |-> FALSE, etm |-> FALSE,
   psk |-> <<None>>, resumed |-> FALSE, tickets |-> FALSE, peerPha |-> FALSE,
   early |-> FALSE, skip |-> FALSE, draining |-> FALSE, received |-> 0, skipped |-> 0,
   rd |-> NoKey, wr |-> NoKey, sched |-> NoSched, master |-> <<None>>,
   cert |-> None, proved |-> FALSE, phStep |-> -1, err |-> "ok",
   out |-> <<>>, app |-> <<>>, done |-> 0, alert |-> None, closed |-> 0]

\* What the setters accept.
configured(conf) == 12 <= conf.minv /\ conf.minv <= conf.maxv /\ conf.maxv <= 13

change_state(s, st) ==
  IF Rank(st) > Rank(s.state) THEN [s EXCEPT !.state = st]
                              ELSE [s EXCEPT !.err = "WRONG_STATE"]
start(s) == [s EXCEPT !.state = "HELLO"]

(***************************************************************************)
(* Alerts.                                                                 *)
(***************************************************************************)
alert_for_error(err) ==
  CASE err \in {"WRONG_TYPE", "WRONG_STATE"} -> "unexpected_message"
    [] err \in {"NO_CERTIFICATE", "HANDSHAKE_FAILURE"} -> "handshake_failure"
    [] err = "CORRUPT_CERTIFICATE" -> "bad_certificate"
    [] err = "ILLEGAL_PARAMETER" -> "illegal_parameter"
    [] err = "NO_APPLICATION_PROTOCOL" -> "no_application_protocol"
    [] err = "INAPPROPRIATE_FALLBACK" -> "inappropriate_fallback"
    [] err = "HS_VERIFICATION_FAILED" -> "decrypt_error"
    [] err = "VERSION" -> "protocol_version"
    [] err = "INVALID_RECORD" -> "decode_error"
    [] OTHER -> "internal_error"

\* The alert goes out, the error callback runs, the session is over.
send_alert(s, a) ==
  [change_state(emit_alert(s, "fatal", a), "ERROR") EXCEPT !.alert = a, !.err = "ok"]

OrAlert(s) == IF s.err = "ok" THEN s ELSE send_alert(s, alert_for_error(s.err))
Fail(s, err) == [s EXCEPT !.err = err]
Then(s, next) == IF s.err = "ok" THEN next ELSE s

(***************************************************************************)
(* Negotiation of a ClientHello m.                                         *)
(***************************************************************************)
KeyExchange(cs) == CASE cs = "RSA_CBC" -> "rsa"
                     [] cs = "ECDHE_RSA_GCM" -> "ecdhe_rsa"
                     [] cs = "ECDHE_ECDSA_GCM" -> "ecdhe_ecdsa"
ecdhe(cs) == KeyExchange(cs) # "rsa"
Suites13 == {"AES_GCM_13", "CHACHA20_13"}
ke_group_supported(g) == g \in {"x25519", "p256"}
nego_ecdhe_curve(m) == \E g \in m.groups : ke_group_supported(g)

\* The suites of the preference list the certificate and the curves allow.
Usable(s, m) ==
  SelectSeq(s.conf.suites, LAMBDA cs :
    /\ CASE KeyExchange(cs) = "ecdhe_ecdsa" -> s.conf.cert = "ecdsa"
         [] OTHER -> s.conf.cert = "rsa"
    /\ ecdhe(cs) => nego_ecdhe_curve(m))

\* Some protocol of ours the client offered, in our order.
SelectAlpn(s, m) == FirstOf(s.conf.alpn, ToSet(m.alpn))
AlpnRefused(s, m) == m.alpn # <<>> /\ s.conf.alpn # <<>> /\ SelectAlpn(s, m) = None

psk_binder(m, psk) == binder(psk, [m EXCEPT !.binder = <<None>>])
early_data_fresh(s) == s.conf.age = "fresh"

\* A ticket opens under a key of the store; it must be of the suite, unexpired,
\* and its binder must prove the PSK.  Early data is accepted when configured,
\* offered, fresh, and not seen before by the strike register.
try_resume13(s, m) ==
  LET psk == resumption_psk(m.ticket.rms, m.ticket.nonce) IN
  IF \/ s.conf.tkeys = {} \/ m.ticket.key \notin s.conf.tkeys
     \/ m.ticket.suite # s.suite \/ s.conf.age = "expired"
  THEN s
  ELSE IF m.binder # psk_binder(m, psk) THEN Fail(s, "HS_VERIFICATION_FAILED")
  ELSE [s EXCEPT !.psk = psk, !.resumed = TRUE,
                 !.early = @ \/ (s.conf.maxEarly > 0 /\ m.early
                                 /\ early_data_fresh(s) /\ ~s.conf.struck)]

\* The suite is the client's first supported one; the group the configured one
\* if the client lists it, else that of the client's share; no share for the
\* configured group leaves share empty, which asks for a HelloRetryRequest.
nego_hello13(s, m) ==
  LET suite == FirstOf(m.suites, Suites13)
      group == IF s.conf.group # None THEN s.conf.group ELSE m.share[2]
      share == IF m.share[2] = group THEN m.share ELSE <<None, None>>
      err == FirstError(<< <<s.conf.cert = None \/ suite = None, "HANDSHAKE_FAILURE">>,
                           <<~ke_group_supported(group), "HANDSHAKE_FAILURE">>,
                           <<share[1] = None /\ group \notin m.groups, "HANDSHAKE_FAILURE">> >>)
      t == try_resume13([s EXCEPT !.suite = suite, !.group = group, !.share = share,
                                  !.hashing = TRUE, !.tickets = m.pskDhe], m)
  IN IF err # "ok" THEN Fail(s, err)
     ELSE Then(t, IF AlpnRefused(s, m) THEN Fail(t, "NO_APPLICATION_PROTOCOL")
                  ELSE [t EXCEPT !.skip = m.early /\ ~t.early, !.alpn = SelectAlpn(s, m),
                                 !.peerPha = m.pha, !.tls13 = TRUE])

nego_hello(s, m) ==
  LET v == IF s.conf.maxv >= 13 /\ 13 \in m.vers THEN 13 ELSE 12
      suite == FirstOf(Usable(s, m), ToSet(m.suites))
      err == FirstError(<< <<v < s.conf.minv, "VERSION">>,
                           <<v < s.conf.maxv /\ m.scsv, "INAPPROPRIATE_FALLBACK">>,
                           <<suite = None, "HANDSHAKE_FAILURE">>,
                           <<AlpnRefused(s, m), "NO_APPLICATION_PROTOCOL">> >>)
  IN IF v = 13 THEN nego_hello13([s EXCEPT !.version = 13], m)
     ELSE IF err # "ok" THEN Fail([s EXCEPT !.version = v], err)
     ELSE [s EXCEPT !.version = v, !.suite = suite, !.hashing = TRUE, !.ems = m.ems,
                    !.etm = m.etm /\ suite = "RSA_CBC", !.alpn = SelectAlpn(s, m)]

\* The second ClientHello must echo the cookie and bring the share asked for.
nego_hello13_retry(s, m) ==
  IF m.cookie = None THEN Fail(s, "HANDSHAKE_FAILURE")
  ELSE IF m.cookie # "cookie" THEN Fail(s, "ILLEGAL_PARAMETER")
  ELSE IF m.share[2] # s.group THEN Fail(s, "HANDSHAKE_FAILURE")
  ELSE [s EXCEPT !.share = m.share]

(***************************************************************************)
(* What the server writes.                                                 *)
(***************************************************************************)
write_hello(s) ==
  send_hs(s, [type |-> "server_hello", version |-> 12, suite |-> s.suite,
              share |-> <<None, None>>, psk |-> FALSE, alpn |-> s.alpn,
              ems |-> s.ems, etm |-> s.etm,
              random |-> IF s.conf.maxv >= 13 THEN "downgrade" ELSE "random"])
write_certificate(s) == send_hs(s, [type |-> "certificate", cert |-> s.conf.cert])
write_key_exchange(s) ==
  IF ~ecdhe(s.suite) THEN s
  ELSE LET own == <<"server", "x25519">> IN
       send_hs([s EXCEPT !.own = own],
               [type |-> "server_key_exchange", pub |-> own, signer |-> s.conf.cert])
write_cert_req(s) ==
  IF s.conf.auth = "NONE" THEN s
  ELSE send_hs(s, [type |-> "certificate_request", context |-> None])
write_hello_done(s) == send_hs(s, [type |-> "server_hello_done"])
write_change_cipher(s) ==
  [send_record(s, "change_cipher_spec", [type |-> "change_cipher_spec"])
     EXCEPT !.wr = traffic_keys(<<"server write", s.master>>)]
write_finished(s) ==
  send_hs(s, [type |-> "finished",
              vd |-> verify_data(<<"server finished", s.master>>, s.th)])

\* TLS 1.3 messages after the ServerHello go out under the write key.
protect_record13(s, ct, m) == send_record(s, ct, m)
send_hs13(s, m) == protect_record13(hs_fold(s, m), "handshake", m)

write_hrr(s) ==
  send_hs(s, [type |-> "server_hello", version |-> 13, suite |-> s.suite,
              share |-> <<None, s.group>>, psk |-> FALSE, alpn |-> None,
              ems |-> FALSE, etm |-> FALSE, random |-> "hrr"])
write_hello13(s) ==
  send_hs(s, [type |-> "server_hello", version |-> 13, suite |-> s.suite,
              share |-> s.own, psk |-> s.resumed, alpn |-> None,
              ems |-> FALSE, etm |-> FALSE, random |-> "random"])

\* ServerHello .. Finished: the early read key comes from the transcript of the
\* hello(s) alone, the handshake keys from the one through the ServerHello, the
\* application secrets from the one through the server's Finished.
early_keys13(s) ==
  IF s.early THEN [s EXCEPT !.rd = traffic_keys(schedule_early(s.psk, s.th)), !.draining = TRUE]
  ELSE s
setup_keys13(s, k) ==
  [s EXCEPT !.sched = k, !.wr = traffic_keys(k.shs),
            !.rd = IF s.draining THEN @ ELSE traffic_keys(k.chs)]
write_hello_keys13(s) ==
  setup_keys13(s, schedule_handshake(schedule_init(IF s.resumed THEN s.psk ELSE <<None>>),
                                     ke_compute(s.share, s.own), s.th))
write_certificate_verify13(s) ==
  send_hs13(s, [type |-> "certificate_verify",
                sig |-> <<s.conf.cert, cert_verify_tbs("server", s.th)>>])
write_certificates13(s) ==
  IF s.resumed THEN s
  ELSE write_certificate_verify13(send_hs13(s, [type |-> "certificate", cert |-> s.conf.cert]))
write_finished13(s) ==
  send_hs13(s, [type |-> "finished", vd |-> verify_data(s.sched.shs, s.th)])
master13(s) == [s EXCEPT !.sched = schedule_master(@, s.th)]
write_flight13(s) ==
  master13(write_finished13(write_certificates13(send_hs13(
    write_hello_keys13(write_hello13([early_keys13(s) EXCEPT !.own = <<"server", s.group>>])),
    [type |-> "encrypted_extensions", early |-> s.early, alpn |-> s.alpn]))))

write_new_session_ticket13(s) ==
  IF s.conf.tkeys = {} \/ ~s.tickets THEN s
  ELSE protect_record13(s, "handshake",
         [type |-> "new_session_ticket",
          ticket |-> [key |-> CHOOSE k \in s.conf.tkeys : TRUE, suite |-> s.suite,
                      rms |-> s.sched.rms, nonce |-> "nonce"],
          maxEarly |-> s.conf.maxEarly])

(***************************************************************************)
(* The state functions, on a message m of content type ct.                 *)
(***************************************************************************)
Hello13(s, m) == change_state(write_flight13(hs_fold(s, m)), "FINISHED")

Hello13Retried(r, m) == Then(r, Hello13(r, m))
Negotiated(n, m) ==
  Then(n,
    IF n.tls13 /\ n.share[1] = None
    THEN [write_hrr(hs_fold(n, message_hash(m))) EXCEPT !.hrr = TRUE]
    ELSE IF n.tls13 THEN Hello13(n, m)
    ELSE write_hello_done(write_cert_req(write_key_exchange(write_certificate(write_hello(
           hs_fold(change_state(n, "CERTIFICATE"), m)))))))

state_hello(s, ct, m) ==
  OrAlert(IF m.type # "client_hello" THEN Fail(s, "WRONG_TYPE")
          ELSE IF s.hrr THEN Hello13Retried(nego_hello13_retry(s, m), m)
          ELSE Negotiated(nego_hello(s, m), m))

\* Mutant: the verify_cert callback is not asked.
parse_client_certificate_any(s, m) ==
  IF m.cert = None
  THEN IF s.conf.auth = "REQUIRE" THEN Fail(s, "NO_CERTIFICATE") ELSE s
  ELSE [s EXCEPT !.cert = m.cert]

\* The verify_cert callback is asked about a certificate; an empty list is
\* refused when one is required.
parse_client_certificate(s, m) ==
  IF m.cert = None
  THEN IF s.conf.auth = "REQUIRE" THEN Fail(s, "NO_CERTIFICATE") ELSE s
  ELSE IF m.cert \notin s.conf.trusted THEN Fail(s, "CORRUPT_CERTIFICATE")
  ELSE [s EXCEPT !.cert = m.cert]

derive_master_secret(s, pms) ==
  IF s.ems THEN tls_1_2_prf(pms, "extended master secret", s.th)
           ELSE tls_1_2_prf(pms, "master secret", <<>>)
parse_client_key_exchange(s, m) ==
  IF ecdhe(s.suite) THEN ke_compute(m.pub, s.own) ELSE m.pms

\* ClientKeyExchange: the premaster secret, then the master secret over the
\* transcript it belongs to.
state_key_exchange(s, ct, m) ==
  IF m.type # "client_key_exchange" THEN send_alert(s, "unexpected_message")
  ELSE LET t == hs_fold(s, m) IN
       [change_state(t, IF s.cert # None THEN "CERTIFICATE_VERIFY" ELSE "CHANGE_CIPHER")
          EXCEPT !.master = derive_master_secret(t, parse_client_key_exchange(s, m))]

state_certificate(s, ct, m) ==
  CASE m.type = "certificate" ->
         LET p == parse_client_certificate(s, m)
         IN OrAlert(Then(p, hs_fold(change_state(p, "KEY_EXCHANGE"), m)))
    [] m.type = "client_key_exchange" ->
         IF s.conf.auth = "REQUIRE" THEN OrAlert(Fail(s, "NO_CERTIFICATE"))
         ELSE state_key_exchange(change_state(s, "KEY_EXCHANGE"), ct, m)
    [] OTHER -> OrAlert(Fail(s, "WRONG_TYPE"))

parse_certificate_verify(s, m) == m.sig = <<s.cert, cert_verify_tbs("client", s.th)>>
state_certificate_verify(s, ct, m) ==
  OrAlert(IF m.type # "certificate_verify" THEN Fail(s, "WRONG_TYPE")
          ELSE IF ~parse_certificate_verify(s, m) THEN Fail(s, "HS_VERIFICATION_FAILED")
          ELSE [hs_fold(change_state(s, "CHANGE_CIPHER"), m) EXCEPT !.proved = TRUE])

state_change_cipher(s, ct, m) ==
  IF ct # "change_cipher_spec" THEN OrAlert(Fail(s, "WRONG_TYPE"))
  ELSE [change_state(s, "FINISHED") EXCEPT !.rd = traffic_keys(<<"client write", s.master>>)]

\* The client's Finished, keyed from chs over the transcript through ours.
finished13(s, m) ==
  LET t == hs_fold(s, m)
      k == schedule_resumption(s.sched, t.th)
  IN IF m.type # "finished" THEN Fail(s, "WRONG_TYPE")
     ELSE IF m.vd # verify_data(s.sched.chs, s.th) THEN Fail(s, "HS_VERIFICATION_FAILED")
     ELSE [t EXCEPT !.sched = k, !.wr = traffic_keys(k.sap), !.rd = traffic_keys(k.cap)]

\* Accepted early data is delivered until the EndOfEarlyData.
Drain(s, ct, m) ==
  IF ct = "application_data"
  THEN IF s.received + 1 > s.conf.maxEarly THEN send_alert(s, "unexpected_message")
       ELSE [s EXCEPT !.received = @ + 1, !.app = Append(@, m.data)]
  ELSE IF ct = "handshake" /\ m.type = "end_of_early_data"
  THEN [hs_fold(s, m) EXCEPT !.draining = FALSE, !.rd = traffic_keys(s.sched.chs)]
  ELSE send_alert(s, "unexpected_message")

parse_finished(s, m) == m.vd = verify_data(<<"client finished", s.master>>, s.th)
state_finished(s, ct, m) ==
  IF s.tls13
  THEN IF s.draining THEN Drain(s, ct, m)
       ELSE LET f == finished13(s, m)
                t == write_new_session_ticket13(
                       [change_state(f, "APPDATA") EXCEPT !.hashing = s.peerPha])
            IN OrAlert(Then(f, [t EXCEPT !.done = @ + 1]))
  ELSE IF m.type # "finished" THEN OrAlert(Fail(s, "WRONG_TYPE"))
  ELSE IF ~parse_finished(s, m) THEN OrAlert(Fail(s, "HS_VERIFICATION_FAILED"))
  ELSE LET t == write_finished(write_change_cipher(
                  hs_fold(change_state(s, "APPDATA"), m)))
       IN [t EXCEPT !.hashing = FALSE, !.done = @ + 1]

(***************************************************************************)
(* After the handshake.                                                    *)
(***************************************************************************)
\* A KeyUpdate goes out under the current write key, which then advances.
send_key_update13(s, request) ==
  LET sap == traffic_update(s.sched.sap) IN
  [protect_record13(s, "handshake", [type |-> "key_update", request |-> request])
     EXCEPT !.sched.sap = sap, !.wr = traffic_keys(sap)]

recv_key_update13(s, m) ==
  LET cap == traffic_update(s.sched.cap)
      t == [s EXCEPT !.sched.cap = cap, !.rd = traffic_keys(cap)]
  IN IF m.request THEN send_key_update13(t, FALSE) ELSE t

send_certificate_request13(s) ==
  send_hs13(s, [type |-> "certificate_request", context |-> "ctx"])
request_post_handshake_auth(s) ==
  [send_certificate_request13(s) EXCEPT !.phStep = 0, !.cert = None, !.proved = FALSE]

\* The certificate must answer our request.
parse_client_certificate13(s, m) ==
  IF m.context # "ctx" THEN Fail(s, "ILLEGAL_PARAMETER") ELSE parse_client_certificate(s, m)

verify_certificate_verify13(s, m) == m.sig = <<s.cert, cert_verify_tbs("client", s.th)>>
ph_finished13(s, m) == m.vd = verify_data(s.sched.cap, s.th)

\* Certificate, CertificateVerify unless it was empty, Finished; a failure
\* drops a certificate accepted before it was proved.
PostHandshakeAuth(s, m) ==
  LET p == parse_client_certificate13(s, m) IN
  CASE s.phStep = 0 /\ m.type = "certificate" ->
         Then(p, [hs_fold(p, m) EXCEPT !.phStep = IF p.cert # None THEN 1 ELSE 2])
    [] s.phStep = 1 /\ m.type = "certificate_verify" ->
         IF ~verify_certificate_verify13(s, m) THEN Fail(s, "HS_VERIFICATION_FAILED")
         ELSE [hs_fold(s, m) EXCEPT !.phStep = 2, !.proved = TRUE]
    [] s.phStep = 2 /\ m.type = "finished" ->
         IF ~ph_finished13(s, m) THEN Fail(s, "HS_VERIFICATION_FAILED")
         ELSE [hs_fold(s, m) EXCEPT !.phStep = -1]
    [] OTHER -> Fail(s, "WRONG_TYPE")
recv_post_handshake_auth13(s, m) ==
  LET p == PostHandshakeAuth(s, m) IN
  IF p.err = "ok" THEN p
  ELSE OrAlert([p EXCEPT !.phStep = -1, !.cert = None, !.proved = FALSE])

state_appdata(s, ct, m) ==
  CASE ct = "application_data" -> [s EXCEPT !.app = Append(@, m.data)]
    [] ct = "handshake" /\ s.tls13 /\ m.type = "key_update" -> recv_key_update13(s, m)
    [] ct = "handshake" /\ s.tls13 /\ m.type # "key_update" /\ s.phStep >= 0 ->
         recv_post_handshake_auth13(s, m)
    [] OTHER -> s

Dispatch(s, ct, m) ==
  CASE s.state = "HELLO" -> state_hello(s, ct, m)
    [] s.state = "CERTIFICATE" -> state_certificate(s, ct, m)
    [] s.state = "KEY_EXCHANGE" -> state_key_exchange(s, ct, m)
    [] s.state = "CERTIFICATE_VERIFY" -> state_certificate_verify(s, ct, m)
    [] s.state = "CHANGE_CIPHER" -> state_change_cipher(s, ct, m)
    [] s.state = "FINISHED" -> state_finished(s, ct, m)
    [] s.state = "APPDATA" -> state_appdata(s, ct, m)
    [] OTHER -> s

\* A fatal alert ends the session, a close_notify is answered in kind.
RecvAlert(s, m) ==
  IF m.level = "fatal" THEN [change_state(s, "ERROR") EXCEPT !.err = "ok"]
  ELSE IF m.alert = "close_notify" /\ Rank(s.state) < Rank("CLOSED")
  THEN [change_state(emit_alert(s, "warning", "close_notify"), "CLOSED")
          EXCEPT !.closed = @ + 1]
  ELSE s

\* A record that came in two parts: the parse of the first part fails for want of
\* data and it is dropped; the second is not a record, and fails as one.
incoming_parts(s) ==
  IF s.state = "ERROR" THEN s ELSE send_alert(s, alert_for_error("INVALID_RECORD"))

\* Mutant: the bound itself is refused.
Skipped_short(s) == s.skip /\ s.skipped + 1 < s.conf.skipMax

\* Early data of a refused offer is skipped up to a bound.
Skipped(s) == s.skip /\ s.skipped < s.conf.skipMax

incoming_data(s, r) ==
  LET protected == s.rd.sec # <<None>> /\ r.ct # "change_cipher_spec"
                   /\ (s.tls13 => r.key.sec # <<None>>)
      t == IF protected THEN [s EXCEPT !.rd.n = @ + 1, !.skip = FALSE] ELSE s
  IN IF s.tls13 /\ r.ct = "change_cipher_spec" THEN s
     ELSE IF protected /\ ~unprotect(s.rd, r)
     THEN IF s.tls13 /\ Skipped(s) THEN [s EXCEPT !.skipped = @ + 1]
          ELSE send_alert(s, "bad_record_mac")
     ELSE IF s.tls13 /\ ~protected /\ r.key.sec # <<None>> /\ s.skip
     THEN IF Skipped(s) THEN [s EXCEPT !.skipped = @ + 1]
          ELSE send_alert(s, "bad_record_mac")
     ELSE IF r.ct = "alert" THEN RecvAlert(t, r.m)
     ELSE Dispatch(t, r.ct, r.m)

(***************************************************************************)
(* The calls of the application.                                           *)
(***************************************************************************)
send_appdata(s, d) ==
  send_record(s, "application_data", [type |-> "application_data", data |-> d])
close(s) == change_state(emit_alert(s, "warning", "close_notify"), "CLOSED")
CanRequestAuth(s) == /\ s.tls13 /\ s.state = "APPDATA" /\ s.peerPha
                     /\ s.phStep = -1 /\ s.hashing
=============================================================================
