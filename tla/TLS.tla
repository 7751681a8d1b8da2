-------------------------------- MODULE TLS ---------------------------------
(***************************************************************************)
(* A TLS client and a TLS server of rlib on the two ends of a stream, each *)
(* configured by an application that may then send data, update keys, ask  *)
(* for post-handshake authentication and close.  A step delivers one       *)
(* record, runs one call of the application, or starts the client.         *)
(***************************************************************************)
EXTENDS Integers, Sequences, SequencesExt

CONSTANTS Configs,     \* the configurations <<client, server>> considered
          MaxCalls   \* how many calls the two applications make

Cli == INSTANCE TLSClient
Srv == INSTANCE TLSServer

VARIABLES cli, srv,  \* the two sessions
          c2s, s2c,  \* the records under way
          sent,      \* what each application sent
          calls      \* the calls made by the applications

vars == <<cli, srv, c2s, s2c, sent, calls>>

Init == \E p \in Configs :
  /\ Cli!configured(p[1]) /\ Srv!configured(p[2])
  /\ cli = Cli!new(p[1]) /\ srv = Srv!start(Srv!new(p[2]))
  /\ c2s = <<>> /\ s2c = <<>>
  /\ sent = [c |-> IF p[1].early THEN <<0>> ELSE <<>>, s |-> <<>>]
  /\ calls = <<>>

\* The out callback hands the records of a session to the stream.
ClientIs(c) == cli' = [c EXCEPT !.out = <<>>] /\ c2s' = c2s \o c.out
ServerIs(s) == srv' = [s EXCEPT !.out = <<>>] /\ s2c' = s2c \o s.out

Start == /\ cli.state = "INITIAL" /\ ClientIs(Cli!start(cli))
         /\ UNCHANGED <<srv, s2c, sent, calls>>
ServerRecv == /\ c2s # <<>>
              /\ ServerIs(Srv!incoming_data(srv, Head(c2s))) /\ c2s' = Tail(c2s)
              /\ UNCHANGED <<cli, sent, calls>>
ClientRecv == /\ s2c # <<>>
              /\ ClientIs(Cli!incoming_data(cli, Head(s2c))) /\ s2c' = Tail(s2c)
              /\ UNCHANGED <<srv, sent, calls>>

Called(x) == Len(calls) < MaxCalls /\ calls' = Append(calls, x)
ClientReady == cli.state = "APPDATA"
ServerReady == srv.state = "APPDATA"

ClientSend == /\ ClientReady /\ Called("c send")
              /\ ClientIs(Cli!send_appdata(cli, Len(calls) + 1))
              /\ sent' = [sent EXCEPT !.c = Append(@, Len(calls) + 1)]
              /\ UNCHANGED <<srv, s2c>>
ServerSend == /\ ServerReady /\ Called("s send")
              /\ ServerIs(Srv!send_appdata(srv, Len(calls) + 1))
              /\ sent' = [sent EXCEPT !.s = Append(@, Len(calls) + 1)]
              /\ UNCHANGED <<cli, c2s>>
ClientKeyUpdate == /\ ClientReady /\ cli.tls13 /\ Called("c update")
                   /\ \E req \in BOOLEAN : ClientIs(Cli!send_key_update13(cli, req))
                   /\ UNCHANGED <<srv, s2c, sent>>
ServerKeyUpdate == /\ ServerReady /\ srv.tls13 /\ Called("s update")
                   /\ \E req \in BOOLEAN : ServerIs(Srv!send_key_update13(srv, req))
                   /\ UNCHANGED <<cli, c2s, sent>>
RequestAuth == /\ Srv!CanRequestAuth(srv) /\ Called("s auth")
               /\ ServerIs(Srv!request_post_handshake_auth(srv))
               /\ UNCHANGED <<cli, c2s, sent>>
ClientClose == /\ ClientReady /\ Called("c close") /\ ClientIs(Cli!close(cli))
               /\ UNCHANGED <<srv, s2c, sent>>
ServerClose == /\ ServerReady /\ Called("s close") /\ ServerIs(Srv!close(srv))
               /\ UNCHANGED <<cli, c2s, sent>>

Next == \/ Start \/ ServerRecv \/ ClientRecv \/ ClientSend \/ ServerSend \/ ClientKeyUpdate \/ ServerKeyUpdate
        \/ RequestAuth \/ ClientClose \/ ServerClose

Spec == Init /\ [][Next]_vars

(***************************************************************************)
(* What the two configurations promise.                                    *)
(***************************************************************************)
Lowest(a, b) == IF a < b THEN a ELSE b
\* The version both ends should settle on.
Version == Lowest(cli.conf.maxv, srv.conf.maxv)
Compatible ==
  /\ Version >= cli.conf.minv /\ Version >= srv.conf.minv
  /\ cli.conf.scsv => Version = srv.conf.maxv
  /\ srv.conf.cert \in cli.conf.trusted
  /\ cli.conf.alpn = <<>> \/ srv.conf.alpn = <<>>
     \/ ToSet(cli.conf.alpn) \cap ToSet(srv.conf.alpn) # {}
  /\ Version = 12 => \E cs \in ToSet(cli.conf.suites12) \cap ToSet(srv.conf.suites) :
                       (cs = "ECDHE_ECDSA_GCM") <=> (srv.conf.cert = "ecdsa")
  \* the server asks for a certificate in a TLS 1.2 handshake, or when told to
  /\ (Version = 12 /\ srv.conf.auth # "NONE") \/ cli.conf.pha
       => IF cli.conf.cert = "none" THEN srv.conf.auth # "REQUIRE"
                                    ELSE cli.conf.cert \in srv.conf.trusted
  \* early data goes only to a server that speaks TLS 1.3
  /\ (cli.conf.early /\ Cli!HasResume(cli)) => Version = 13

\* Early data that is accepted with the first hello is not skipped when a
\* HelloRetryRequest follows: that handshake fails.
EarlyAndRetry ==
  /\ Version = 13 /\ cli.conf.early /\ cli.conf.maxEarly > 0
  /\ srv.conf.group \notin {"none", "x25519"} /\ srv.conf.maxEarly > 0
  /\ cli.conf.resume.key \in srv.conf.tkeys /\ srv.conf.age = "fresh" /\ ~srv.conf.struck
Sound == Compatible /\ ~EarlyAndRetry

Established(x) == x.done > 0
Quiet == c2s = <<>> /\ s2c = <<>>

-----------------------------------------------------------------------------
(***************************************************************************)
(* Model checking of module TLS.                                           *)
(***************************************************************************)
C0 == [maxv |-> 13, minv |-> 12, cert |-> "none", alpn |-> <<>>,
       suites12 |-> <<"ECDHE_ECDSA_GCM", "ECDHE_RSA_GCM", "RSA_CBC">>,
       suites13 |-> <<"AES_GCM_13">>, resume |-> Cli!NoTicket, maxEarly |-> 0,
       early |-> FALSE, pha |-> FALSE, scsv |-> FALSE, trusted |-> {"rsa", "ecdsa"}]
S0 == [maxv |-> 13, minv |-> 12, cert |-> "rsa", auth |-> "NONE", group |-> "none",
       tkeys |-> {}, age |-> "fresh", struck |-> FALSE, maxEarly |-> 0, alpn |-> <<>>,
       suites |-> <<"RSA_CBC", "ECDHE_RSA_GCM", "ECDHE_ECDSA_GCM">>,
       trusted |-> {"me"}, skipMax |-> 2]
Ticket == [key |-> "k1", suite |-> "AES_GCM_13", rms |-> <<"rms">>, nonce |-> "n"]

\* Versions, certificates and the protocols of the application layer.
Versions ==
  {<<[C0 EXCEPT !.maxv = cv[1], !.minv = cv[2], !.scsv = FALSE],
     [S0 EXCEPT !.maxv = sv[1], !.minv = sv[2], !.cert = ce]>> :
     cv \in {<<12, 12>>, <<13, 12>>, <<13, 13>>}, sv \in {<<12, 12>>, <<13, 12>>, <<13, 13>>},
     ce \in {"rsa", "ecdsa", "stranger"}}
  \cup {<<[C0 EXCEPT !.maxv = v, !.scsv = TRUE], [S0 EXCEPT !.maxv = w]>> :
     v \in {12, 13}, w \in {12, 13}}
  \cup {<<[C0 EXCEPT !.maxv = v, !.alpn = a], [S0 EXCEPT !.alpn = b]>> :
     v \in {12, 13}, a \in {<<"h2", "http">>, <<"http">>}, b \in {<<"http">>, <<"h2", "x">>}}
\* Client authentication, in the handshake and after it.
Auth ==
  {<<[C0 EXCEPT !.maxv = v, !.cert = ce, !.pha = TRUE, !.suites12 = su],
     [S0 EXCEPT !.auth = au]>> :
     v \in {12, 13}, ce \in {"none", "me", "stranger"}, au \in {"NONE", "REQUEST", "REQUIRE"},
     su \in {<<"RSA_CBC">>, <<"ECDHE_RSA_GCM">>}}
\* Resumption, early data and the retry.
Stores == {<<{}, "fresh", FALSE>>, <<{"k2"}, "fresh", FALSE>>, <<{"k1"}, "fresh", FALSE>>,
           <<{"k1"}, "fresh", TRUE>>, <<{"k1"}, "late", FALSE>>, <<{"k1"}, "expired", FALSE>>}
Resume ==
  {<<[C0 EXCEPT !.resume = Ticket, !.maxEarly = me, !.early = e],
     [S0 EXCEPT !.tkeys = t[1], !.age = t[2], !.struck = t[3], !.maxEarly = sm, !.group = gr]>> :
     me \in {0, 1}, e \in BOOLEAN, t \in Stores, sm \in {0, 1}, gr \in {"none", "p256"}}
AllConfigs == Versions \cup Auth \cup Resume

\* A stream that hands the server a record in two parts.
SplitRecv == /\ c2s # <<>>
             /\ ServerIs(Srv!incoming_parts(srv)) /\ c2s' = Tail(c2s)
             /\ UNCHANGED <<cli, sent, calls>>
SplitSpec == Init /\ [][Next \/ SplitRecv]_vars

(***************************************************************************)
(* Properties.                                                             *)
(***************************************************************************)
\* Two ends that completed their handshake settled on the version both allow,
\* on one suite and one application protocol, and hold the same secrets; with no
\* record under way each reads with the key the other writes with, so key
\* updates of both sides, requested or not, in any order, keep them in step
\* (nego_hello, nego_server_hello, the key schedule, recv_key_update13).
Agreement ==
  Established(cli) /\ Established(srv) =>
    /\ cli.version = Version /\ srv.version = Version
    /\ cli.suite = srv.suite /\ cli.alpn = srv.alpn /\ cli.master = srv.master
    /\ cli.sched.rms = srv.sched.rms /\ cli.resumed = srv.resumed
    /\ (ClientReady /\ ServerReady) =>
         /\ c2s = <<>> => cli.wr = srv.rd
         /\ s2c = <<>> => srv.wr = cli.rd

\* Two ends whose configurations fit never abort: no order of records, key
\* updates, authentication and data makes either of them send an alert.  The
\* exceptions are the ones the model shows: early data accepted before a
\* HelloRetryRequest, and a server that drops a key update once it has closed.
NoSpuriousFailure ==
  (cli.state = "ERROR" \/ srv.state = "ERROR") =>
     ~Sound \/ \E i \in DOMAIN calls : calls[i] = "s close"

\* Each application is given what the other sent, in order and once, early data
\* included whether it was accepted, refused or never offered; nothing is
\* missing once the stream is empty and both ends are still open.
DataInOrder ==
  /\ IsPrefix(srv.app, sent.c) /\ IsPrefix(cli.app, sent.s)
  /\ (Quiet /\ ClientReady /\ ServerReady) => srv.app = sent.c /\ cli.app = sent.s

\* A server past the handshake that holds a client certificate has seen proof of
\* its key over this transcript, unless an authentication is under way; and the
\* client has seen proof of the server's, or resumed a session it authenticated.
\* An RSA key exchange proves the key by the Finished.
Authenticated ==
  /\ (ServerReady /\ srv.cert # "none" /\ srv.phStep = -1) =>
        srv.proved /\ srv.cert = cli.conf.cert /\ srv.cert \in srv.conf.trusted
  /\ Established(cli) => \/ cli.resumed
                         \/ cli.cert = srv.conf.cert /\ (cli.proved \/ cli.suite = "RSA_CBC")

\* Between fitting configurations the handshake never stalls: whenever the
\* client has started and no record is under way, both ends have completed,
\* through a retry, a refused ticket or refused early data.
HandshakeCompletes ==
  (Sound /\ Quiet /\ cli.state # "INITIAL") => Established(cli) /\ Established(srv)
=============================================================================
