--------------------------- MODULE SessionTickets ---------------------------
(***************************************************************************)
(* RTLSSessionTicketKeys (rlib/net/rtlssessiontickets.c): the key store    *)
(* that servers share to seal and open session tickets, and its strike     *)
(* register, which remembers the 0-RTT hellos already accepted.  Every     *)
(* call holds the store's lock, so that each is one step.                  *)
(***************************************************************************)
EXTENDS Naturals, Sequences, FiniteSets

CONSTANTS KEYS_MAX,      \* R_TLS_STK_KEYS_MAX
          STRIKE_MAX,    \* R_TLS_STK_STRIKE_MAX
          HelloIds,      \* identifiers of hellos (PSK binders)
          Lifetimes,     \* from acceptance to expiry
          MaxTime, MaxKeys, MaxStruck      \* bounds on the clock, the rotations and the acceptances

ASSUME TicketAssumption ==
    /\ KEYS_MAX \in Nat \ {0} /\ STRIKE_MAX \in Nat \ {0}
    /\ 0 \notin HelloIds /\ Lifetimes \subseteq Nat \ {0}
    /\ MaxTime \in Nat /\ MaxKeys \in Nat /\ MaxStruck \in Nat

VARIABLES keys,      \* key names, keys[1] active
          strikes,   \* slots [id, expiry]; id 0 is a free slot
          now,
          fresh,     \* keys generated so far
          tickets,   \* tickets handed out: names of the keys they are sealed under
          struck     \* accepted hellos: [id, expiry, at]

ticketVars == <<keys, strikes, now, fresh, tickets, struck>>

TicketInit ==
    /\ keys = <<1>> /\ fresh = 1 /\ strikes = <<>> /\ now = 0
    /\ tickets = {} /\ struck = <<>>

rotate ==
    /\ fresh < MaxKeys
    /\ fresh' = fresh + 1
    /\ keys' = LET shifted == <<fresh + 1>> \o keys
               IN SubSeq(shifted, 1, IF Len(shifted) > KEYS_MAX THEN KEYS_MAX ELSE Len(shifted))
    /\ UNCHANGED <<strikes, now, tickets, struck>>

seal ==
    /\ tickets' = tickets \cup {keys[1]}
    /\ UNCHANGED <<keys, strikes, now, fresh, struck>>

open(ticket) == \E i \in DOMAIN keys : keys[i] = ticket

(* The scan stops at a live entry of the same id; what it passed before is  *)
(* reclaimed.                                                              *)
Live_early(e) == e.id # 0 /\ e.expiry > now + 1
Live(e) == e.id # 0 /\ e.expiry > now
Hit(s, id) == {i \in DOMAIN s : Live(s[i]) /\ s[i].id = id}
First(S) == CHOOSE i \in S : \A j \in S : i <= j
Reclaim(s, n) == [i \in DOMAIN s |-> IF i < n /\ ~Live(s[i]) THEN [s[i] EXCEPT !.id = 0] ELSE s[i]]

Oldest(s) == First({i \in DOMAIN s : \A j \in DOMAIN s : s[i].expiry <= s[j].expiry})

strike(id, expiry) ==
    LET hits == Hit(strikes, id)
        s == Reclaim(strikes, IF hits = {} THEN Len(strikes) + 1 ELSE First(hits))
        free == {i \in DOMAIN s : s[i].id = 0}
        slot == IF free # {} THEN First(free)
                ELSE IF Len(s) < STRIKE_MAX THEN Len(s) + 1 ELSE Oldest(s)
        entry == [id |-> id, expiry |-> expiry]
    IN /\ strikes' = IF hits # {} THEN s
                     ELSE [i \in 1..(IF slot > Len(s) THEN slot ELSE Len(s)) |->
                               IF i = slot THEN entry ELSE s[i]]
       /\ struck' = IF hits = {} THEN Append(struck, [id |-> id, expiry |-> expiry, at |-> now])
                    ELSE struck
       /\ UNCHANGED <<keys, now, fresh, tickets>>

Tick == now < MaxTime /\ now' = now + 1 /\ UNCHANGED <<keys, strikes, fresh, tickets, struck>>

TicketNext ==
    \/ rotate \/ seal \/ Tick
    \/ \E id \in HelloIds, l \in Lifetimes : Len(struck) < MaxStruck /\ strike(id, now + l)

TicketSpec == TicketInit /\ [][TicketNext]_ticketVars

(* A 0-RTT hello is accepted a second time before its expiry only if the    *)
(* register overflowed in between: at some acceptance k, STRIKE_MAX other  *)
(* accepted hellos were live (r_tls_session_ticket_keys_strike).           *)
StruckOnce ==
    \A i, j \in DOMAIN struck :
        i < j /\ struck[i].id = struck[j].id /\ struck[j].at < struck[i].expiry =>
            \E k \in (i + 1)..(j - 1) :
                Cardinality({m \in (1..k) \ {i} : struck[m].expiry > struck[k].at}) >= STRIKE_MAX

(* A ticket opens exactly while fewer than KEYS_MAX rotations have happened *)
(* since it was sealed (r_tls_session_ticket_keys_rotate ages keys out).   *)
TicketsOpen == \A t \in tickets : open(t) <=> fresh - t < KEYS_MAX

(* A 0-RTT hello is not accepted twice, and a ticket opens while its key is *)
(* kept (r_tls_session_ticket_keys_strike, r_tls_session_ticket_keys_open).*)
ReplayRefused == StruckOnce /\ TicketsOpen
=============================================================================
