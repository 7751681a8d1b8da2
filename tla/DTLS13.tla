------------------------------- MODULE DTLS13 -------------------------------
(***************************************************************************)
(* The datagram layer of DTLS 1.3 in rlib: how RTLSClient and RTLSServer   *)
(* carry a handshake, session tickets, key updates and application data    *)
(* over a network that loses, duplicates and reorders datagrams.           *)
(*                                                                         *)
(* An end `e` is the record of the fields of RTLSClient / RTLSServer that  *)
(* this layer uses; the two files hold the same code twice, and differ     *)
(* where e.role is tested.  A key is known by its epoch (2 handshake, 3    *)
(* application, one more per KeyUpdate; 0 is no key).  A record is         *)
(*   [k: "hs" | "ack" | "app", e: epoch, n: record number, ...]            *)
(* and its header shows only e % 4.  The hello exchange without a retry    *)
(* and the 1-RTT flights are modelled; what the messages say is TLS.tla's. *)
(***************************************************************************)
EXTENDS ReplayWindow, Sequences, SequencesExt

CONSTANTS
    Plans,         \* what an execution may meet: records of
                   \*   auth: messages of the server flight between EncryptedExtensions
                   \*         and Finished, <<type, fragments>> (none: resumption)
                   \*   tickets: the server has a ticket key store
                   \*   lost, copies, calls: datagrams lost; datagrams delivered twice
                   \*         and timers that fire early; application calls
    RTX_TRIES,     \* R_DTLS13_RTX_TRIES
    DEFER_MAX,     \* R_DTLS13_DEFER_MAX
    REASM_SLOTS,   \* R_DTLS13_REASM_SLOTS
    ACK_MAX,       \* R_DTLS13_ACK_MAX
    SPAN           \* numbers a record header can tell apart (0x10000)

VARIABLES
    plan,
    cli, srv,      \* the two ends
    c2s, s2c,      \* datagrams under way (the network keeps no order)
    lost, copies,  \* datagrams lost; number of duplicates and early timers
    calls          \* application calls made

vars == <<plan, cli, srv, c2s, s2c, lost, copies, calls>>

Message(t, frags) == [k |-> "hs", t |-> t, len |-> frags]

-----------------------------------------------------------------------------
(* Retransmission: the captured flight, its timer and its acknowledgement.  *)

rtx_capture(e, r) == IF e.cap THEN [e EXCEPT !.flight = Append(@, r)] ELSE e

rtx_arm(e) == IF e.cap /\ ~e.timer /\ e.flight # <<>> THEN [e EXCEPT !.timer = TRUE] ELSE e

rtx_cancel(e) == [e EXCEPT !.timer = FALSE, !.flight = <<>>, !.tries = 0]

rtx_ack(e, nums) == [e EXCEPT !.flight = SelectSeq(@, LAMBDA r : <<r.e, r.n>> \notin Range(nums))]

recv_ack_all(e, nums) == [rtx_cancel(e) EXCEPT !.cap = FALSE]
recv_ack(e, nums) ==
    LET d == rtx_ack(e, nums)
    IN IF d.flight = <<>> THEN [rtx_cancel(d) EXCEPT !.cap = FALSE] ELSE d

send_out(e) == rtx_arm([e EXCEPT !.sent = @ \cup Range(e.qsend), !.qsend = <<>>])

rtx_fire(e) ==
    LET d == [e EXCEPT !.timer = FALSE] IN
    IF d.flight = <<>> THEN d
    ELSE IF d.tries >= RTX_TRIES THEN [d EXCEPT !.st = "ERROR"]
    ELSE [d EXCEPT !.sent = @ \cup Range(d.flight), !.tries = @ + 1, !.timer = TRUE]

-----------------------------------------------------------------------------
(* Sending: a record takes the number of its write key; handshake records   *)
(* are captured.                                                           *)

Queued(e, p) == [e EXCEPT !.qsend = Append(@, p), !.wseq = @ + 1]
Captured(e, p) == IF p.k = "hs" THEN rtx_capture(e, p) ELSE e
Protected(e, p) == Captured(Queued(e, p), p)
protect_record13(e, r) == Protected(e, [e |-> e.wr, n |-> e.wseq] @@ r)

(* One record per fragment f of the message; a message has one msgseq. *)
send_hs13(e, m) ==
    LET Fragment(d, f) == protect_record13(d, [m |-> e.mseq, f |-> f - 1] @@ m)
    IN [FoldLeft(Fragment, e, [i \in 1..m.len |-> i]) EXCEPT !.mseq = @ + 1]

install_write(e, epoch) == [e EXCEPT !.wr = epoch, !.wseq = 0]

(* The superseded read key is kept as rk_read_prev, with its window. *)
install_read(e, epoch) ==
    [e EXCEPT !.rd = epoch, !.prev = e.rd,
              !.win = (epoch :> window_init @@ (e.rd :> e.win[e.rd])),
              !.seq = (epoch :> 0) @@ (e.rd :> e.seq[e.rd])]

send_key_update13(e, request) ==
    install_write(send_hs13(e, [Message("KU", 1) EXCEPT !.t = IF request THEN "KUR" ELSE "KU"]),
                  e.wr + 1)

recv_key_update13(e, t) ==
    LET d == install_read(e, e.rd + 1)
    IN IF t = "KUR" THEN send_key_update13(d, FALSE) ELSE d

send_ack13(e) ==
    LET d == IF e.role = "s" THEN rtx_cancel([e EXCEPT !.cap = FALSE]) ELSE e
    IN IF e.nacks = <<>> THEN e
       ELSE [protect_record13(d, [k |-> "ack", nums |-> e.nacks]) EXCEPT !.nacks = <<>>]

-----------------------------------------------------------------------------
(* The handshake state machine, as far as this layer sees it: which flight  *)
(* a message is answered by and which keys it brings.                      *)

Fail(e) == [e EXCEPT !.st = "ERROR"]

setup_keys13(e) == [install_write(install_read(e, 2), 2) EXCEPT !.st = "CERTIFICATE"]

write_flight13(e) ==
    LET Send(d, m) == send_hs13(d, Message(m[1], m[2]))
    IN [FoldLeft(Send, install_write(install_read(send_hs13(e, Message("SH", 1)), 2), 2),
                 <<<<"EE", 1>>>> \o plan.auth \o <<<<"SFIN", 1>>>>) EXCEPT !.st = "FINISHED"]

flight13_finished(e) ==
    LET fin == send_hs13(e, Message("CFIN", 1))
    IN [install_read(install_write(fin, 3), 3) EXCEPT !.st = "APPDATA"]

finished13(e) ==
    LET d == [install_read(install_write(e, 3), 3) EXCEPT !.st = "APPDATA"]
    IN IF plan.tickets THEN send_hs13(d, Message("NST", 1)) ELSE d

(* statefuncs[state] on one handshake message *)
Handle(e, t) ==
    LET d == [e EXCEPT !.got = Append(@, t)] IN
    CASE e.st = "ERROR"                                               -> e
      [] e.role = "c" /\ e.st = "SERVER_HELLO" /\ t = "SH"            -> setup_keys13(d)
      [] e.role = "c" /\ e.st = "CERTIFICATE" /\ t \in {"EE", "CERT", "CV"} -> d
      [] e.role = "c" /\ e.st = "CERTIFICATE" /\ t = "SFIN"           -> flight13_finished(d)
      [] e.role = "c" /\ e.st = "APPDATA" /\ t = "NST"                -> d
      [] e.role = "s" /\ e.st = "HELLO" /\ t = "CH"                   ->
             write_flight13([d EXCEPT !.cap = TRUE])
      [] e.role = "s" /\ e.st = "FINISHED" /\ t = "CFIN"              -> finished13(d)
      [] e.st = "APPDATA" /\ t \in {"KU", "KUR"}                      -> recv_key_update13(d, t)
      [] OTHER                                                        -> Fail(d)

-----------------------------------------------------------------------------
(* Reassembly: slots[m] is what has come of message m, under which epoch    *)
(* bits; reasm is the next message to hand over.                           *)

reassembler_push(e, r) ==
    LET new == [t |-> r.t, bits |-> r.e % 4, len |-> r.len, have |-> {r.f}] IN
    IF r.m < e.reasm THEN e
    ELSE IF r.m \notin DOMAIN e.slots
         THEN IF Cardinality(DOMAIN e.slots) >= REASM_SLOTS THEN e
              ELSE [e EXCEPT !.slots = @ @@ (r.m :> new)]
    ELSE IF e.slots[r.m].bits # r.e % 4 THEN e
    ELSE [e EXCEPT !.slots[r.m].have = @ \cup {r.f}]

Complete(e) == e.reasm \in DOMAIN e.slots /\ Cardinality(e.slots[e.reasm].have) = e.slots[e.reasm].len

reassembler_next(e) ==
    [e EXCEPT !.slots = [m \in DOMAIN @ \ {e.reasm} |-> @[m]], !.reasm = @ + 1]

(* Hand over every message that is complete and next. *)
RECURSIVE Deliver(_)
Deliver(e) ==
    IF Complete(e)
    THEN Deliver(Handle(rtx_cancel(reassembler_next(e)), e.slots[e.reasm].t))
    ELSE e

-----------------------------------------------------------------------------
(* Receiving a handshake record, and a record. *)

(* The record number that an ACK will name. *)
AckedEpoch(e, r) ==
    IF e.role = "c" /\ r.e % 4 # e.rd % 4 THEN e.prev ELSE e.rd

\* The messages delivered turned e into d: what acknowledges r.
Acknowledged(e, d) ==
    CASE d.role = "s" /\ d.st = "APPDATA" /\ d.qsend = <<>> -> send_ack13(d)
      [] d.role = "c" /\ d.qsend # <<>>                    -> [d EXCEPT !.nacks = <<>>]
      [] d.role = "c" /\ d.qsend = <<>> /\ d.wr # 0
           /\ (d.reasm = e.reasm \/ d.st = "APPDATA")      -> send_ack13(d)
      [] OTHER                                             -> d

dtls13_handshake(e, r) ==
    IF e.rd = 0
    THEN IF e.role = "c"
         THEN rtx_cancel(Handle([e EXCEPT !.reasm = r.m + 1], r.t))
         ELSE Handle(rtx_cancel([e EXCEPT !.reasm = r.m + 1]), r.t)
    ELSE LET note == IF Len(e.nacks) < ACK_MAX
                     THEN [e EXCEPT !.nacks = Append(@, <<AckedEpoch(e, r), r.n>>)] ELSE e
         IN Acknowledged(e, Deliver(reassembler_push(note, r)))

(* What the record holds, once authenticated. *)
Dispatch(e, r) ==
    CASE r.k = "ack"                       -> recv_ack(e, r.nums)
      [] r.k = "hs"                        -> dtls13_handshake(e, r)
      [] r.k = "app" /\ e.st = "APPDATA"   -> [e EXCEPT !.app = Append(@, r.d)]
      [] r.k = "app" /\ e.st = "ERROR"     -> e
      [] OTHER                             -> Fail(e)

(* The number a masked header shows, completed from the count of records *)
(* accepted under the key.                                                 *)
reconstruct_seq(expected, low) ==
    LET half == SPAN \div 2
        cand == (expected \div SPAN) * SPAN + (low % SPAN)
    IN IF cand + half < expected THEN cand + SPAN
       ELSE IF cand >= SPAN /\ cand > expected + half THEN cand - SPAN
       ELSE cand

(* The key opens the record: it is the record's own, and the number is right. *)
unprotect13(e, key, r) == key = r.e /\ reconstruct_seq(e.seq[key], r.n % SPAN) = r.n

replay_check_never(e, r) == TRUE
replay_check(e, r) == replay_fresh(e.win[r.e], r.n)

Accepted(e, r) ==
    [e EXCEPT !.win[r.e] = replay_update(@, r.n), !.seq[r.e] = @ + 1]

(* An application-epoch record answers the client's last flight. *)
ImplicitAck(e, r) ==
    IF e.role = "c" /\ e.cap /\ r.e = e.rd /\ e.rd >= 3
    THEN [rtx_cancel(e) EXCEPT !.cap = FALSE] ELSE e

defer_record(e, r) ==
    [e EXCEPT !.defer = Append(IF Len(@) >= DEFER_MAX THEN Tail(@) ELSE @, r)]

(* Key selection by the header's epoch bits; a key that is not the record's *)
(* own fails to authenticate it, and the record is dropped.                *)
Record(e, r) ==
    IF r.e = 0 \/ e.rd = 0 THEN Dispatch(e, r)
    ELSE LET bits == r.e % 4
             key == IF bits = e.rd % 4 THEN e.rd
                    ELSE IF e.prev # 0 /\ bits = e.prev % 4 THEN e.prev ELSE 0
         IN IF key = 0
            THEN IF bits = (e.rd + 1) % 4 THEN defer_record(e, r) ELSE e
            ELSE IF ~unprotect13(e, key, r) \/ ~replay_check(e, r) THEN e
            ELSE Dispatch(ImplicitAck(Accepted(e, r), r), r)

take_deferred(e) == SelectSeq(e.defer, LAMBDA r : r.e % 4 = e.rd % 4)

RECURSIVE incoming_data(_, _)
Undeferred(d) ==
    LET kept == [d EXCEPT !.defer = SelectSeq(@, LAMBDA x : x.e % 4 # d.rd % 4)]
    IN IF d.rd = 0 THEN d ELSE FoldLeft(incoming_data, kept, take_deferred(d))
incoming_data(e, r) == Undeferred(send_out(Record(e, r)))

-----------------------------------------------------------------------------
(* The two ends and the network. *)

End(role) ==
    [role |-> role, st |-> IF role = "c" THEN "SERVER_HELLO" ELSE "HELLO",
     rd |-> 0, prev |-> 0, wr |-> 0, wseq |-> 0, mseq |-> 0, reasm |-> 0,
     slots |-> <<>>, nacks |-> <<>>, win |-> (0 :> window_init), seq |-> (0 :> 0), defer |-> <<>>,
     cap |-> FALSE, timer |-> FALSE, tries |-> 0, flight |-> <<>>,
     qsend |-> <<>>, sent |-> {}, got |-> <<>>, app |-> <<>>]

start == send_out(send_hs13([End("c") EXCEPT !.cap = TRUE], Message("CH", 1)))

Init ==
    /\ plan \in Plans
    /\ cli = [start EXCEPT !.sent = {}]
    /\ srv = End("s")
    /\ c2s = start.sent
    /\ s2c = {}
    /\ lost = {} /\ copies = 0 /\ calls = <<>>

(* The end's new state, and what it handed to the out callback. *)
ClientIs(e, kept) == cli' = [e EXCEPT !.sent = {}] /\ s2c' = kept /\ c2s' = c2s \cup e.sent
ServerIs(e, kept) == srv' = [e EXCEPT !.sent = {}] /\ c2s' = kept /\ s2c' = s2c \cup e.sent

(* A datagram arrives; the network may keep a copy of it.  A protected      *)
(* record that overtakes the ServerHello is the subject of OvertakeRecv.   *)
ClientRecv ==
    \E r \in s2c : \E kept \in {s2c, s2c \ {r}} :
        /\ cli.rd # 0 \/ r.e = 0
        /\ kept = s2c => copies < plan.copies
        /\ copies' = copies + (IF kept = s2c THEN 1 ELSE 0)
        /\ ClientIs(incoming_data(cli, r), kept)
        /\ UNCHANGED <<plan, srv, lost, calls>>

ServerRecv ==
    \E r \in c2s : \E kept \in {c2s, c2s \ {r}} :
        /\ kept = c2s => copies < plan.copies
        /\ copies' = copies + (IF kept = c2s THEN 1 ELSE 0)
        /\ ServerIs(incoming_data(srv, r), kept)
        /\ UNCHANGED <<plan, cli, lost, calls>>

Lose ==
    /\ Cardinality(lost) < plan.lost
    /\ \/ \E r \in c2s : c2s' = c2s \ {r} /\ lost' = lost \cup {r} /\ UNCHANGED s2c
       \/ \E r \in s2c : s2c' = s2c \ {r} /\ lost' = lost \cup {r} /\ UNCHANGED c2s
    /\ UNCHANGED <<plan, cli, srv, copies, calls>>

(* The timer of e fires when nothing is under way any more, or, a bounded   *)
(* number of times, while late answers still are.  Both ends start from    *)
(* R_DTLS13_RTX_INITIAL and double, so that neither runs ahead of the other.*)
Fires(e, o) ==
    /\ e.timer
    /\ \/ c2s = {} /\ s2c = {} /\ (o.timer => e.tries <= o.tries) /\ UNCHANGED copies
       \/ (c2s # {} \/ s2c # {}) /\ e.tries < RTX_TRIES /\ copies < plan.copies /\ copies' = copies + 1
ClientFire == Fires(cli, srv) /\ ClientIs(rtx_fire(cli), s2c) /\ UNCHANGED <<plan, srv, lost, calls>>
ServerFire == Fires(srv, cli) /\ ServerIs(rtx_fire(srv), c2s) /\ UNCHANGED <<plan, cli, lost, calls>>

(* Application calls: data, and a KeyUpdate that asks for the peer's. *)
send_appdata(e, d) == send_out(protect_record13(e, [k |-> "app", d |-> d]))

ClientCall(call) ==
    /\ cli.st = "APPDATA" /\ Len(calls) < plan.calls
    /\ calls' = Append(calls, <<"c", call>>)
    /\ ClientIs(IF call = "data" THEN send_appdata(cli, Len(calls))
                ELSE send_out(send_key_update13(cli, TRUE)), s2c)
    /\ UNCHANGED <<plan, srv, lost, copies>>

ServerCall(call) ==
    /\ srv.st = "APPDATA" /\ Len(calls) < plan.calls
    /\ calls' = Append(calls, <<"s", call>>)
    /\ ServerIs(IF call = "data" THEN send_appdata(srv, Len(calls))
                ELSE send_out(send_key_update13(srv, TRUE)), c2s)
    /\ UNCHANGED <<plan, cli, lost, copies>>

Next ==
    \/ ClientRecv \/ ServerRecv \/ Lose \/ ClientFire \/ ServerFire
    \/ \E call \in {"data", "update"} : ClientCall(call) \/ ServerCall(call)

Spec == Init /\ [][Next]_vars

-----------------------------------------------------------------------------

Plan(auth, tickets, nlost, ncopies, ncalls) ==
    [auth |-> auth, tickets |-> tickets, lost |-> nlost, copies |-> ncopies, calls |-> ncalls]
Cert == <<<<"CERT", 2>>>>
AllPlans ==
    {Plan(Cert, TRUE, 1, 0, 0), Plan(Cert, FALSE, 0, 1, 0), Plan(<<>>, TRUE, 1, 1, 0),
     Plan(<<>>, FALSE, 0, 1, 2)}

(* The handshake and post-handshake messages an end is sent, in msgseq order. *)
ToClient == <<"SH", "EE">> \o [i \in DOMAIN plan.auth |-> plan.auth[i][1]] \o <<"SFIN">>
            \o (IF plan.tickets THEN <<"NST">> ELSE <<>>)
ToServer == <<"CH", "CFIN">>
Update == {"KU", "KUR"}
Handshake(got) == SelectSeq(got, LAMBDA t : t \notin Update)
Updates(got) == SelectSeq(got, LAMBDA t : t \in Update)
NoDuplicates(s) == \A i, j \in DOMAIN s : s[i] = s[j] => i = j

(* However datagrams are lost, repeated and reordered, each end handles the *)
(* peer's handshake messages once each and in message_seq order, and hands *)
(* the application only data that the peer sent, each at most once         *)
(* (reassembler, replay window, deferred records and retransmissions).     *)
InOrderOnce ==
    /\ IsPrefix(Handshake(cli.got), ToClient) /\ IsPrefix(Handshake(srv.got), ToServer)
    /\ Len(Updates(cli.got)) <= Len(calls) /\ Len(Updates(srv.got)) <= Len(calls)
    /\ NoDuplicates(cli.app) /\ NoDuplicates(srv.app)
    /\ \A i \in DOMAIN cli.app : calls[cli.app[i] + 1] = <<"s", "data">>
    /\ \A i \in DOMAIN srv.app : calls[srv.app[i] + 1] = <<"c", "data">>

(* When nothing is under way and no timer runs, both ends have finished the *)
(* handshake and hold each other's keys: a lost datagram of either flight  *)
(* is made good.  Two losses the code does not make good are left out: that*)
(* of the acknowledgement of a last flight, and of a KeyUpdate.  Of two    *)
(* KeyUpdates under way the second may be two epochs ahead and is dropped. *)
Repairable == \A r \in lost : ~(r.k = "ack" /\ r.e >= 3) /\ ~(r.k = "hs" /\ r.t \in Update)
Quiet == c2s = {} /\ s2c = {} /\ ~cli.timer /\ ~srv.timer
Completes ==
    Quiet /\ Repairable =>
        /\ cli.st = "APPDATA" /\ srv.st = "APPDATA"
        /\ Len(SelectSeq(calls, LAMBDA c : c[2] = "update")) <= 1 =>
               /\ cli.rd = srv.wr /\ srv.rd = cli.wr
               /\ cli.defer = <<>> /\ srv.defer = <<>>

(* A protected record that overtakes the ServerHello reaches a client that  *)
(* has no read key, and is handed to the state machine as it is.           *)
OvertakeRecv ==
    \E r \in s2c :
        /\ cli.rd = 0 /\ r.e # 0
        /\ ClientIs(incoming_data(cli, r), s2c \ {r})
        /\ UNCHANGED <<plan, srv, lost, copies, calls>>
OvertakeSpec == Init /\ [][Next \/ OvertakeRecv]_vars

(* Neither end gives up for one lost or overtaken datagram: the timer and   *)
(* the peer's acknowledgement make good what RTX_TRIES retransmissions can.*)
NoGiveUp == cli.st # "ERROR" /\ srv.st # "ERROR"
=============================================================================
