---------------------------- MODULE TrafficShaper ----------------------------
(***************************************************************************)
(* The TR-10-7 traffic shaper and the ST 2110-21 network compatibility     *)
(* model (NCM) tracker that audits it, as operators on their state.        *)
(*                                                                         *)
(* The shaper is a pair of token buckets kept as theoretical arrival times *)
(* (TAT), one counting packets and one counting bits.  A TAT of 0 means    *)
(* "no packet yet", and so does an epoch of 0 in the tracker: the sender's *)
(* clock never reads 0.  Times are nanoseconds in the code and any unit    *)
(* here.                                                                   *)
(***************************************************************************)
EXTENDS Integers

CONSTANTS
    Second,         \* clock units in one second: 10^9 in the code
    Cmax,           \* the largest burst, tr107_cmax
    DrainInterval,  \* packet_drain_interval_ns_, the same in both classes
    MaxSpacing,     \* maximum_packet_spacing_ns, of the largest datagram
    MaxDrift,       \* maximum_drift_ns_
    MaxTime         \* the largest uint64_t

ASSUME ShaperAssumption ==
    /\ Second \in Nat \ {0}
    /\ Cmax \in Nat \ {0}
    /\ DrainInterval \in Nat \ {0}
    /\ MaxSpacing \in Nat \ {0}
    /\ MaxDrift \in Nat \ {0}
    /\ MaxTime \in Nat

Greatest(a, b) == IF a >= b THEN a ELSE b

-----------------------------------------------------------------------------
(* Derivation of the parameters from the session's limits *)

CeilDiv(a, b) == (a + b - 1) \div b

PacketBits(udpBytes) == (udpBytes + 28) * 8

MaximumPacketsPerSecond(kbps, udpBytes) == CeilDiv(kbps * 1000, PacketBits(udpBytes))

\* tr107_cmax
BurstLimit(packetsPerSecond) == Greatest(16, packetsPerSecond \div 21600)

\* The shaper's drain interval, beta = 11/10.
ShaperDrainInterval(packetsPerSecond) == CeilDiv(10 * Second, packetsPerSecond * 11)

\* The tracker's, which avoids the product when it would exceed the numerator.
TrackerDrainInterval(packetsPerSecond) ==
    IF packetsPerSecond > (10 * Second) \div 11 THEN 1
    ELSE Greatest(1, CeilDiv(10 * Second, packetsPerSecond * 11))

-----------------------------------------------------------------------------
(* The shaper *)

IdleShaper == [packetTat |-> 0, bitrateTat |-> 0]

SaturatedAdd(value, increment) ==
    IF value > MaxTime - increment THEN MaxTime ELSE value + increment

\* Faulty: a tolerance of one packet too many.
Earliest_OffByOne(tat, spacing) ==
    IF tat > Cmax * spacing THEN tat - Cmax * spacing ELSE 0

\* Earliest time of a packet when a bucket holds Cmax packets of `spacing`.
Earliest(tat, spacing) ==
    IF tat > (Cmax - 1) * spacing THEN tat - (Cmax - 1) * spacing ELSE 0

\* Faulty: any pause restarts the buckets.
Restarts_AnyPause(s, now) ==
    \/ s.packetTat = 0
    \/ s.packetTat = MaxTime
    \/ now > s.packetTat

\* Both buckets start again at `now` at the first packet, after a pause longer
\* than MaxDrift, and when the packet bucket has saturated.
Restarts(s, now) ==
    \/ s.packetTat = 0
    \/ s.packetTat = MaxTime
    \/ now > s.packetTat /\ now - s.packetTat > MaxDrift

Rebased(s, now) ==
    IF Restarts(s, now) THEN [packetTat |-> now, bitrateTat |-> now] ELSE s

\* schedule_ns: the time it returns for a packet offered at `now` ...
ScheduledTime(s, now) ==
    Greatest(now,
        Greatest(Earliest(Rebased(s, now).packetTat, DrainInterval),
                 Earliest(Rebased(s, now).bitrateTat, MaxSpacing)))

\* Faulty: the bits are charged twice.
Charged_Twice(s, now, spacing) ==
    [packetTat  |-> SaturatedAdd(Greatest(Rebased(s, now).packetTat, ScheduledTime(s, now)),
                                 DrainInterval),
     bitrateTat |-> SaturatedAdd(Greatest(Rebased(s, now).bitrateTat, ScheduledTime(s, now)),
                                 2 * spacing)]

\* ... and the state it leaves; `spacing` is the time the packet's bits take.
Charged(s, now, spacing) ==
    [packetTat  |-> SaturatedAdd(Greatest(Rebased(s, now).packetTat, ScheduledTime(s, now)),
                                 DrainInterval),
     bitrateTat |-> SaturatedAdd(Greatest(Rebased(s, now).bitrateTat, ScheduledTime(s, now)),
                                 spacing)]

-----------------------------------------------------------------------------
(* NetworkCompatibilityTracker::observe *)

IdleTracker == [epoch |-> 0, drains |-> 0, cinst |-> 0]

DrainCount(t, time) == (time - t.epoch) \div DrainInterval

Observed(t, time) ==
    IF t.epoch = 0 THEN [t EXCEPT !.epoch = time, !.cinst = @ + 1]
    ELSE IF time >= t.epoch THEN
        LET drained == DrainCount(t, time) - t.drains
        IN  [t EXCEPT !.drains = DrainCount(t, time),
                      !.cinst = IF drained >= @ THEN 1 ELSE @ - drained + 1]
    ELSE [t EXCEPT !.cinst = @ + 1]
=============================================================================
