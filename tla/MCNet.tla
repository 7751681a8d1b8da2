------------------------------- MODULE MCNet --------------------------------
(***************************************************************************)
(* The parts above and beside the TCP sockets, one per behaviour: TLS      *)
(* (TLS), DTLS 1.3 (DTLS13), HTTP (Http), a datagram source (EvUDP), an    *)
(* asynchronous lookup, and the keys and strike register for the session   *)
(* tickets of a TLS server.  which says what a behaviour is about; the     *)
(* variables of the others keep the value 0.                               *)
(***************************************************************************)
EXTENDS ReplayWindow, SessionTickets

CONSTANTS Which, Configs, MaxCalls, DtlsPlans, RTX_TRIES, DEFER_MAX, REASM_SLOTS, ACK_MAX, SPAN, HttpPlans

VARIABLES which, plan,
          cli, srv, c2s, s2c, calls, sent, lost, copies,
          cl, sv, started, stops,
          iocbq, events, active, changing, closed, handle, edge, s, k, pc, detached, h,
          r, thread, creator, task, rh
endVars == <<cli, srv, c2s, s2c, calls, sent, lost, copies>>
httpVars == <<cl, sv, started, stops>>
udpVars == <<iocbq, events, active, changing, closed, handle, edge, s, k, pc, detached, h>>
resolveVars == <<r, thread, creator, task, rh>>
vars == <<which, plan, endVars, httpVars, udpVars, resolveVars, ticketVars>>

L == INSTANCE TLS
D == INSTANCE DTLS13 WITH Plans <- DtlsPlans
H == INSTANCE Http WITH Plans <- HttpPlans, SPLIT <- FALSE
U == INSTANCE EvUDP WITH MaxSend <- 3, MaxIn <- 2, MaxFail <- 1, Room <- 1, NodeIds <- {1}
R == INSTANCE EvResolve WITH h <- rh, Results <- {"OK", "ERR"}

\* The plans come from instances that are given none, as they are what the
\* instances above are given.
LP == INSTANCE TLS WITH Configs <- {}
DP == INSTANCE DTLS13 WITH Plans <- {}
HP == INSTANCE Http WITH Plans <- {}, SPLIT <- FALSE
AllConfigs == LP!AllConfigs
AllDtlsPlans == DP!AllPlans
AllHttpPlans == HP!AllPlans

NoEnds == cli = 0 /\ srv = 0 /\ c2s = 0 /\ s2c = 0 /\ calls = 0 /\ sent = 0 /\ lost = 0 /\ copies = 0
NoHttp == cl = 0 /\ sv = 0 /\ started = 0 /\ stops = 0
NoUdp == /\ iocbq = 0 /\ events = 0 /\ active = 0 /\ changing = 0 /\ closed = 0 /\ handle = 0 /\ edge = 0
         /\ s = 0 /\ k = 0 /\ pc = 0 /\ detached = 0 /\ h = 0
NoResolve == r = 0 /\ thread = 0 /\ creator = 0 /\ task = 0 /\ rh = 0
InitWith(ResolveInit) ==
  /\ which \in Which
  /\ CASE which = "tls" -> L!Init /\ plan = 0 /\ lost = 0 /\ copies = 0 /\ NoHttp
       [] which = "dtls" -> D!Init /\ sent = 0 /\ NoHttp
       [] which = "http" -> H!Init /\ NoEnds
       [] OTHER -> plan = 0 /\ NoEnds /\ NoHttp
  /\ IF which = "udp" THEN U!Init ELSE NoUdp
  /\ IF which = "resolve" THEN ResolveInit ELSE NoResolve
  /\ TicketInit

Next ==
  \/ which = "tls" /\ L!Next /\ UNCHANGED <<which, plan, lost, copies, httpVars, udpVars, resolveVars, ticketVars>>
  \/ which = "dtls" /\ D!Next /\ UNCHANGED <<which, sent, httpVars, udpVars, resolveVars, ticketVars>>
  \/ which = "http" /\ H!Next /\ UNCHANGED <<which, endVars, udpVars, resolveVars, ticketVars>>
  \/ which = "udp" /\ U!Next /\ UNCHANGED <<which, plan, endVars, httpVars, resolveVars, ticketVars>>
  \/ which = "resolve" /\ R!Next /\ UNCHANGED <<which, plan, endVars, httpVars, udpVars, ticketVars>>
  \/ which = "tickets" /\ TicketNext /\ UNCHANGED <<which, plan, endVars, httpVars, udpVars, resolveVars>>

\* The lookup is created on the loop's own thread.
Spec == InitWith(R!Init /\ thread = "loop") /\ [][Next]_vars
\* On any thread.
AnyThreadSpec == InitWith(R!Init) /\ [][Next]_vars
\* The loop runs, and the kernel's send buffer drains.
FairUdpSpec ==
  Spec /\ WF_vars(which = "udp" /\ (U!Loop \/ (U!Drains /\ UNCHANGED detached))
                  /\ UNCHANGED <<which, plan, endVars, httpVars, resolveVars, ticketVars>>)
-----------------------------------------------------------------------------
(* Two TLS ends that completed their handshake settled on the version both  *)
(* allow, one suite, one application protocol and the same secrets, and    *)
(* stay in step through key updates of both: see Agreement in TLS.         *)
Agreement == which = "tls" => L!Agreement
(* Who is taken to be authenticated has proved its key over this            *)
(* transcript: see Authenticated in TLS.                                   *)
Authenticated == which = "tls" => L!Authenticated
(* Two TLS ends whose configurations fit never abort: see NoSpuriousFailure *)
(* in TLS.                                                                 *)
NoSpuriousFailure == which = "tls" => L!NoSpuriousFailure
(* Each end is given what the other sent, in order and once: TLS            *)
(* application and early data (DataInOrder in TLS), DTLS handshake         *)
(* messages and data over a network that loses, repeats and reorders       *)
(* (InOrderOnce in DTLS13).                                                *)
InOrderOnce == (which = "tls" => L!DataInOrder) /\ (which = "dtls" => D!InOrderOnce)
(* Nothing stalls.  When nothing is under way a TLS handshake has completed *)
(* (HandshakeCompletes in TLS), a DTLS handshake too though a datagram     *)
(* was lost (Completes in DTLS13), and every HTTP request has been         *)
(* answered or failed (Completes in Http).                                 *)
Completes == /\ which = "tls" => L!HandshakeCompletes
             /\ which = "dtls" => D!Completes
             /\ which = "http" => H!Completes
(* An HTTP request is given its own response, and is handled once each time *)
(* it is sent: see OwnResponse and HandledOnce in Http.                    *)
OwnResponse == which = "http" => H!OwnResponse /\ H!HandledOnce
(* A pooled connection serves nobody and owes nothing: see PoolSound in     *)
(* Http.                                                                   *)
PoolSound == which = "http" => H!PoolSound
(* Each asynchronous call is answered once.  A datagram handed to a source  *)
(* is sent, or failed, and its callback called (SendAccounted in EvUDP);   *)
(* the source does not fall asleep on work, and lives as long as a callback*)
(* or an operation refers to it (Served, RefsExact, QuietAfterStop); a     *)
(* lookup that was not cancelled is answered once (ResolvedOnce in         *)
(* EvResolve).                                                             *)
Served == /\ which = "udp" => U!SendAccounted /\ U!Served /\ U!RefsExact /\ U!QuietAfterStop
          /\ which = "resolve" => R!ResolvedOnce
(* Not with this code: see SendResumes in EvUDP. *)
SendResumes == (which = "udp" /\ s.qsend # <<>>) ~> (which = "udp" /\ s.qsend = <<>>)
=============================================================================
