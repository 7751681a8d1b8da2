------------------------------- MODULE MCRtc -------------------------------
(***************************************************************************)
(* The real-time stack in one run: two ICE agents (Ice), a TURN client     *)
(* and its server (IceTurn), and two sides exchanging media over SRTP      *)
(* (Media).  The variable which says what a behaviour is about; the        *)
(* variables of the others keep the value 0.                               *)
(***************************************************************************)
EXTENDS Integers, Sequences, TLC

CONSTANTS CHECK_MAX_SENDS, TCP_MAX_CONNS, TCP_RX_MAX, SHIFT, IcePlans,
          Bases, Peers, TURN_MAX_SENDS, REFRESH_CAP, PERM_LIFE, CHAN_LIFE, LIFETIME, CHAN_MIN, CHAN_MAX,
          MaxTime, MaxFaults, MaxSends,
          SEQ, WINDOW, EKT_BURST, EKT_USES, R_SRTP_FILTER_ANY, StopOn, MediaPlans, COPIES

VARIABLES which, plan, pc, net, loss,
          ag, stream, eofs, sent,
          c, sv, up, down, now, rot, delivered,
          m, acc, twice, missed

I == INSTANCE Ice WITH Plans <- IcePlans
T == INSTANCE IceTurn WITH CHECK_MAX_SENDS <- TURN_MAX_SENDS
M == INSTANCE Media WITH Plans <- MediaPlans

\* The plans come from instances that are given none, as they are what the
\* instances above are given.
IP == INSTANCE Ice WITH Plans <- {}
MP == INSTANCE Media WITH Plans <- {}, StopOn <- {}
AllIcePlans == IP!AllPlans
AllMediaPlans == MP!AllMediaPlans
NoStops == MP!NoStops
TwoPeers == {[ip |-> "p", port |-> 1], [ip |-> "q", port |-> 1]}

ice == <<ag, stream, eofs, sent>>
turn == <<c, sv, up, down, now, rot, delivered>>
media == <<m, acc, twice, missed>>
IdleIce == ag = 0 /\ stream = 0 /\ eofs = 0 /\ sent = 0
IdleTurn == c = 0 /\ sv = 0 /\ up = 0 /\ down = 0 /\ now = 0 /\ rot = 0 /\ delivered = 0
IdleMedia == m = 0 /\ acc = 0 /\ twice = 0 /\ missed = 0

Init == \/ which = "ice" /\ I!Init /\ IdleTurn /\ IdleMedia
        \/ which = "turn" /\ T!Init /\ IdleIce /\ IdleMedia /\ plan = 0 /\ pc = 0 /\ net = 0
        \/ which = "media" /\ M!MediaInit /\ IdleIce /\ IdleTurn /\ loss = 0
Next == \/ which = "ice" /\ I!Next /\ UNCHANGED <<which, turn, media>>
        \/ which = "turn" /\ T!Next /\ UNCHANGED <<which, ice, media, plan, pc, net>>
        \/ which = "media" /\ M!MediaNext /\ UNCHANGED <<which, ice, turn, loss>>
Spec == Init /\ [][Next]_<<which, plan, pc, net, loss, ice, turn, media>>

-----------------------------------------------------------------------------
(* When nothing is in flight and no timer runs, both ICE agents are         *)
(* connected, in opposite roles, whatever roles and tie-breakers they      *)
(* started with and whichever message was lost (role conflicts, check      *)
(* retransmissions, triggered checks and nomination).                      *)
Established == which = "ice" => I!Established

(* What a connected agent sends on its selected pair reaches the other      *)
(* agent's application once, over UDP, and over a TCP stream cut anywhere  *)
(* (r_rtc_ice_transport_send, r_rtc_ice_tcp_recv_cb).                      *)
Delivered == which = "ice" => I!Delivered

(* Nothing is used after it was released.  Until the application closes     *)
(* the agent, no check or datagram goes out on a socket or connection that *)
(* was freed: pairs and timers only borrow them (r_rtc_ice_drop_conn).  No *)
(* SRTP stream refers to a crypto context freed by a rekey or an EKT       *)
(* install (r_srtp_update_crypto_context_for_ssrc, r_srtp_ekt_install).    *)
NoDangling == (which = "ice" => I!Borrowed) /\ (which = "media" => M!StreamsLive)

(* The TURN client's view and the server's agree.  Once the client is idle  *)
(* and no datagram was lost, its allocation, permissions and bound channels*)
(* are still alive at the server: each refresh goes out before the lifetime*)
(* it renews ends (r_rtc_ice_turn_schedule_refresh).  A relayed payload    *)
(* keeps its peer, by channel or by indication, and close releases the     *)
(* allocation unless the nonce was rotated (r_rtc_ice_turn_ensure_channel, *)
(* r_rtc_ice_turn_release).                                                *)
Relayed == which = "turn" => T!KeptAlive /\ T!RelayedRight

(* A receiver takes each packet exactly once.  Between two installations of *)
(* its keys a stream accepts no packet index twice, however datagrams are  *)
(* repeated and reordered, except one exactly the window's size behind the *)
(* newest, which the code accepts (r_srtp_stream_replay_check); and an     *)
(* authentic packet within the window and half the sequence space, made    *)
(* with a key the receiver holds, is accepted across wraps, rekeys, MKI    *)
(* rolls and EKT (r_rtp_estimate_seq_idx, r_srtp_stream_ensure_key).       *)
ExactlyOnce == which = "media" => M!AtMostOnce /\ M!NothingMissed

(* Decrypted media and reports reach only running receivers and senders,    *)
(* each the one whose m-line owns the SSRC (r_rtc_rtp_listener_handle_rtp, *)
(* r_rtc_rtp_listener_handle_rtcp, r_rtc_rtp_listener_remove_receiver).    *)
Routed == which = "media" => M!Routed
=============================================================================
