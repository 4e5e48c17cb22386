----------------------------- MODULE MCSoftTimer -----------------------------
(* SoftTimer with the program's one timer, tcp_timer, at a counter width   *)
(* small enough that msAddition wraps many times in a behaviour.           *)
EXTENDS SoftTimer

CONSTANTS tcp_timer, udp_t, dns_t

\* TCP_TMR_INTERVAL (250 ms) scaled to the 3-bit counter.
MCTimerPeriod == [t \in {tcp_timer} |-> 3]

\* linkoutput_fn() only ever calls msleep(1).
MCSleepMs == {1}

\* Three timers: enough for a head, a middle and a last element.
MCListNodes == {tcp_timer, udp_t, dns_t}

=============================================================================
