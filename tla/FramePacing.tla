----------------------------- MODULE FramePacing -----------------------------
(***************************************************************************)
(* The timeline the transmitter's worker follows for one frame after       *)
(* another: the report at its time, the CPB insertion at its time, then    *)
(* the RTP packets at the times the traffic shaper gives, each observed by *)
(* the NCM tracker.                                                        *)
(*                                                                         *)
(* `now` is the monotonic clock (qpc_now_ns).  wait_until never returns    *)
(* early, but may return late; sending and other work take time.  Beside   *)
(* the code's own tracker, `meter` is a reference leaky bucket that drains *)
(* at the maximum IP bitrate and is filled by what is really sent.         *)
(***************************************************************************)
EXTENDS TrafficShaper

CONSTANTS
    SrDelay, EncoderDelay, AuOffset, \* IpmxSessionTiming
    Spacings,       \* bit spacings of the packets: MaxSpacing is the longest
    MaxPackets,     \* bound: packets of a frame
    MaxAge,         \* bound: how old a frame's nominal time is when it is taken
    MaxLateness,    \* bound: how late wait_until returns
    MaxWork,        \* bound: how long a send or other work takes
    Horizon         \* bound: no frame is taken and no packet offered after it

ASSUME PacingAssumption ==
    /\ SrDelay \in Nat /\ EncoderDelay \in Nat /\ AuOffset \in Nat
    /\ SrDelay <= EncoderDelay
    /\ Spacings \subseteq 1 .. MaxSpacing
    /\ MaxPackets \in Nat /\ MaxAge \in Nat /\ MaxWork \in Nat
    /\ MaxLateness \in Nat /\ Horizon \in Nat

\* The end of the clock's range (584 years of nanoseconds) is out of reach.
ASSUME ClockAssumption ==
    Horizon + EncoderDelay + AuOffset + (Cmax + 2) * (DrainInterval + MaxSpacing) < MaxTime

VARIABLES
    now,         \* the clock
    step,        \* what the worker does next
    nominal,     \* nominal or capture time of the frame
    remaining,   \* its packets not yet sent
    first,       \* no packet of it has been sent
    srCompleted, \* sender_report_completed_ns
    scheduled,   \* time of the packet last scheduled
    charge,      \* its bit spacing, until it is sent
    shaper, tracker,
    meter        \* history: reference bucket and the time of its last packet

vars == <<now, step, nominal, remaining, first, srCompleted, scheduled, charge,
          shaper, tracker, meter>>

\* make_ipmx_frame_schedule
SenderReportTime == nominal + SrDelay
CpbInsertionTime == nominal + EncoderDelay
FirstRtpTime     == nominal + EncoderDelay + AuOffset

\* When a wait for time t that starts now may end.
WaitUntil(t) == {Greatest(now, t) + late : late \in 0 .. MaxLateness}

\* When work that starts at time t may end.
WorkFrom(t) == {t + work : work \in 0 .. MaxWork}

Init ==
    /\ now \in 1 .. 1 + MaxWork
    /\ step = "frame"
    /\ nominal = 0
    /\ remaining = 0
    /\ first = TRUE
    /\ srCompleted = 0
    /\ scheduled = 0
    /\ charge = 0
    /\ shaper = IdleShaper
    /\ tracker = IdleTracker
    /\ meter = [level |-> 0, time |-> 0]

\* A frame is taken from the queue, after any wait for one.
TakeFrame ==
    /\ step = "frame"
    /\ now' \in now .. Horizon
    /\ nominal' \in {t \in 1 .. now' : now' - t <= MaxAge}
    /\ remaining' \in 0 .. MaxPackets
    /\ first' = TRUE
    /\ step' = "report"
    /\ UNCHANGED <<srCompleted, scheduled, charge, shaper, tracker, meter>>

\* The times of a frame are locals of the worker's loop: they end with it.
EndFrame == step' = "frame" /\ nominal' = 0 /\ srCompleted' = 0

\* The report of a frame without packets is all that is sent for it.
SendReport ==
    /\ step = "report"
    /\ \E reported \in WaitUntil(SenderReportTime) : now' \in WorkFrom(reported)
    /\ IF remaining = 0 THEN EndFrame
       ELSE step' = "cpb" /\ srCompleted' = now' /\ UNCHANGED nominal
    /\ UNCHANGED <<remaining, first, scheduled, charge, shaper, tracker, meter>>

InsertInCpb ==
    /\ step = "cpb"
    /\ now' \in WaitUntil(CpbInsertionTime)
    /\ step' = "schedule"
    /\ UNCHANGED <<nominal, remaining, first, srCompleted, scheduled, charge,
                   shaper, tracker, meter>>

\* Faulty: the first packet does not wait for the report.
OfferTime_ScheduleOnly(clock) == IF first THEN Greatest(FirstRtpTime, clock) ELSE clock

\* The time at which a packet is offered to the shaper.
OfferTime(clock) ==
    IF first THEN Greatest(FirstRtpTime, Greatest(clock, srCompleted + AuOffset)) ELSE clock

SchedulePacket ==
    /\ step = "schedule"
    /\ now <= Horizon
    /\ \E spacing \in Spacings :
          /\ shaper' = Charged(shaper, OfferTime(now), spacing)
          /\ charge' = spacing
    /\ scheduled' = ScheduledTime(shaper, OfferTime(now))
    /\ step' = "send"
    /\ UNCHANGED <<now, nominal, remaining, first, srCompleted, tracker, meter>>

\* The reference bucket when a packet of the given spacing leaves at time t.
Metered(m, t, spacing) ==
    [level |-> Greatest(0, m.level - (t - m.time)) + spacing, time |-> t]

SendPacket ==
    /\ step = "send"
    /\ \E actual \in WaitUntil(scheduled) :
          /\ tracker' = Observed(tracker, actual)
          /\ meter' = Metered(meter, actual, charge)
          /\ now' \in WorkFrom(actual)
    /\ remaining' = remaining - 1
    /\ first' = FALSE
    /\ charge' = 0
    /\ IF remaining = 1 THEN EndFrame
       ELSE step' = "schedule" /\ UNCHANGED <<nominal, srCompleted>>
    /\ UNCHANGED <<scheduled, shaper>>

Next == TakeFrame \/ SendReport \/ InsertInCpb \/ SchedulePacket \/ SendPacket

Spec == Init /\ [][Next]_vars

-----------------------------------------------------------------------------
Shaper == [packetTat : Nat, bitrateTat : Nat]
Tracker == [epoch : Nat, drains : Nat, cinst : Nat]
Meter == [level : Nat, time : Nat]

TypeOK ==
    /\ now \in Nat \ {0}
    /\ step \in {"frame", "report", "cpb", "schedule", "send"}
    /\ nominal \in Nat
    /\ remaining \in Nat
    /\ step \in {"cpb", "schedule", "send"} => remaining > 0
    /\ first \in BOOLEAN
    /\ srCompleted \in Nat /\ scheduled \in Nat /\ charge \in Nat
    /\ shaper \in Shaper
    /\ tracker \in Tracker
    /\ meter \in Meter

-----------------------------------------------------------------------------
(* Safety *)

\* What the shaper enforces on scheduled times is what the tracker audits on
\* actual ones: CINST never exceeds CMAX when no packet leaves late, and by at
\* most one packet for every drain interval, or part of one, a packet may be
\* late.
NcmCompliance == tracker.cinst <= Cmax + CeilDiv(MaxLateness, DrainInterval)

\* No burst carries more bits than CMAX of the largest packets, above what the
\* maximum IP bitrate drains (and what lateness lets accumulate).
BitrateCompliance == meter.level <= Cmax * MaxSpacing + MaxLateness

\* The budgets never move back in time: nothing the shaper has charged is
\* forgiven, the restart after a pause included.
BudgetsAdvance ==
    [][/\ shaper'.packetTat >= shaper.packetTat
       /\ shaper'.bitrateTat >= shaper.bitrateTat]_vars

\* The shaper holds a packet no longer than one spacing of the largest packet
\* after the one before it: it delays no packet more than the rates require.
NoOverdelay ==
    [][step = "schedule" /\ shaper.packetTat # 0 =>
          scheduled' <= Greatest(OfferTime(now),
                                 scheduled + Greatest(DrainInterval, MaxSpacing))]_vars

\* The report of a frame leaves no earlier than its time, and no RTP packet
\* leaves earlier than the access-unit offset after the report was handed to
\* the network, or than the frame's first RTP time.
ReportThenMedia ==
    step = "send" =>
       /\ srCompleted >= SenderReportTime
       /\ scheduled >= FirstRtpTime
       /\ scheduled >= srCompleted + AuOffset
=============================================================================
