------------------------- MODULE FramePacingProofs -------------------------
(***************************************************************************)
(* Proofs about FramePacing, for every burst limit, drain interval, packet *)
(* size, timing of the session and lateness of the timer.                  *)
(***************************************************************************)
EXTENDS FramePacing, TLAPS

-----------------------------------------------------------------------------
(* Arithmetic.  Products of variables are kept out of the other proofs.    *)

LEMMA Division ==
  ASSUME NEW a \in Nat, NEW b \in Nat \ {0}
  PROVE  /\ a \div b \in Nat
         /\ b * (a \div b) <= a
         /\ a < b * (a \div b) + b
OBVIOUS

LEMMA CeilDivBounds ==
  ASSUME NEW a \in Nat, NEW b \in Nat \ {0}
  PROVE  CeilDiv(a, b) \in Nat /\ a <= b * CeilDiv(a, b)
<1>1. a + b - 1 \in Nat
  OBVIOUS
<1>. QED  BY <1>1, Division DEF CeilDiv

LEMMA ProductCancels ==
  ASSUME NEW x \in Int, NEW y \in Int, NEW b \in Nat \ {0}, x * b < y * b + b
  PROVE  x <= y
<1>1. x * b < (y + 1) * b
  OBVIOUS
<1>2. ASSUME x > y PROVE FALSE
  <2>1. x - y - 1 \in Nat
    BY <1>2
  <2>2. (x - y - 1) * b >= 0
    BY <2>1
  <2>. QED  BY <1>1, <2>2
<1>. QED  BY <1>2

LEMMA Constants ==
  /\ Second \in Nat \ {0} /\ Cmax \in Nat \ {0} /\ DrainInterval \in Nat \ {0}
  /\ MaxSpacing \in Nat \ {0} /\ MaxDrift \in Nat \ {0} /\ MaxTime \in Nat
  /\ SrDelay \in Nat /\ EncoderDelay \in Nat /\ AuOffset \in Nat /\ SrDelay <= EncoderDelay
  /\ Spacings \subseteq 1 .. MaxSpacing
  /\ MaxPackets \in Nat /\ MaxAge \in Nat /\ MaxWork \in Nat /\ MaxLateness \in Nat
  /\ Horizon \in Nat
BY ShaperAssumption, PacingAssumption DEF ShaperAssumption, PacingAssumption

-----------------------------------------------------------------------------
(* The drain interval *)

LEMMA CeilDivOne ==
  ASSUME NEW a \in Nat \ {0}, NEW b \in Nat \ {0}
  PROVE  CeilDiv(a, b) >= 1 /\ (a <= b => CeilDiv(a, b) = 1)
<1>. DEFINE q == (a + b - 1) \div b
<1>1. q \in Nat /\ b * q <= a + b - 1 /\ a + b - 1 < b * q + b
  <2>1. a + b - 1 \in Nat
    OBVIOUS
  <2>. QED  BY <2>1, Division
<1>. HIDE DEF q
<1>2. q # 0
  <2>1. q = 0 => b * q = 0
    OBVIOUS
  <2>. QED  BY <1>1, <2>1
<1>3. q >= 2 => b * q >= b + b
  <2>1. ASSUME q >= 2 PROVE b * q >= b + b
    <3>1. q - 2 \in Nat /\ b * (q - 2) \in Nat
      BY <1>1, <2>1
    <3>2. b * q = b * (q - 2) + b + b
      BY <1>1
    <3>. QED  BY <1>1, <3>1, <3>2
  <2>. QED  BY <2>1
<1>4. a <= b => q = 1
  BY <1>1, <1>2, <1>3
<1>. QED  BY <1>1, <1>2, <1>4 DEF CeilDiv, q

\* The shaper and the tracker derive the same drain interval from a packet
\* rate, although the tracker avoids a product that may be too large: this is
\* why one constant stands for both (traffic_shaper.cpp, the constructors).
THEOREM DrainIntervalsAgree ==
  ASSUME NEW rate \in Nat \ {0}
  PROVE  TrackerDrainInterval(rate) = ShaperDrainInterval(rate)
<1>1. 10 * Second \in Nat \ {0} /\ rate * 11 \in Nat \ {0}
  BY Constants
<1>2. ShaperDrainInterval(rate) >= 1 /\ ShaperDrainInterval(rate) \in Nat
  BY <1>1, CeilDivOne, CeilDivBounds DEF ShaperDrainInterval
<1>3. CASE rate > (10 * Second) \div 11
  <2>1. 10 * Second < 11 * ((10 * Second) \div 11) + 11 /\ (10 * Second) \div 11 \in Nat
    BY <1>1, Division
  <2>2. 10 * Second <= rate * 11
    BY <1>1, <1>3, <2>1
  <2>3. ShaperDrainInterval(rate) = 1
    BY <1>1, <2>2, CeilDivOne DEF ShaperDrainInterval
  <2>. QED  BY <1>3, <2>3 DEF TrackerDrainInterval
<1>4. CASE ~(rate > (10 * Second) \div 11)
  BY <1>2, <1>4 DEF TrackerDrainInterval, ShaperDrainInterval, Greatest
<1>. QED  BY <1>3, <1>4

-----------------------------------------------------------------------------
(* The shaper, for one packet.  The burst of a bucket, Cmax packets, and   *)
(* its tolerance, one packet less, as lengths of time.                     *)

Burst(spacing) == Cmax * spacing
Tolerance(spacing) == (Cmax - 1) * spacing

LEMMA BurstIsToleranceAndOne ==
  ASSUME NEW spacing \in Nat
  PROVE  /\ Burst(spacing) \in Nat /\ Tolerance(spacing) \in Nat
         /\ Burst(spacing) = Tolerance(spacing) + spacing
<1>1. Cmax \in Nat \ {0}
  BY Constants
<1>2. Cmax - 1 \in Nat
  BY <1>1
<1>3. Cmax * spacing \in Nat /\ (Cmax - 1) * spacing \in Nat
  BY <1>1, <1>2
<1>4. Cmax * spacing = (Cmax - 1) * spacing + spacing
  BY <1>1
<1>. QED  BY <1>3, <1>4 DEF Burst, Tolerance

\* A packet is scheduled no earlier than it is offered and than its bucket
\* allows, and no later than one spacing after the packet before it.
LEMMA EarliestBounds ==
  ASSUME NEW tat \in Nat, NEW spacing \in Nat
  PROVE  /\ Earliest(tat, spacing) \in Nat
         /\ tat <= Earliest(tat, spacing) + Tolerance(spacing)
         /\ \A s \in Nat : tat <= s + Burst(spacing) => Earliest(tat, spacing) <= s + spacing
<1>1. Tolerance(spacing) \in Nat /\ Burst(spacing) = Tolerance(spacing) + spacing
  BY BurstIsToleranceAndOne
<1>2. Earliest(tat, spacing) = IF tat > Tolerance(spacing) THEN tat - Tolerance(spacing) ELSE 0
  BY DEF Earliest, Tolerance
<1>. QED  BY <1>1, <1>2

\* The shaper's step, in the form the proofs use: the buckets as they count for
\* this packet, the time it gets, and what it is charged.
LEMMA ShaperStep ==
  ASSUME NEW s \in Shaper, NEW t \in Nat \ {0}, NEW spacing \in 1 .. MaxSpacing,
         NEW last \in Nat,
         s.packetTat <= last + Burst(DrainInterval),
         s.bitrateTat <= last + Burst(MaxSpacing),
         last + Burst(DrainInterval) + DrainInterval < MaxTime,
         last + Burst(MaxSpacing) + MaxSpacing < MaxTime,
         Greatest(t, last + Greatest(DrainInterval, MaxSpacing)) + DrainInterval + MaxSpacing
            < MaxTime
  PROVE  LET time == ScheduledTime(s, t)
             new  == Charged(s, t, spacing)
         IN  /\ time \in Nat /\ new \in Shaper
             /\ t <= time
             /\ time <= Greatest(t, last + Greatest(DrainInterval, MaxSpacing))
             /\ new.packetTat >= time + DrainInterval
             /\ s.packetTat # 0 => new.packetTat >= s.packetTat + DrainInterval
             /\ new.packetTat <= time + Burst(DrainInterval)
             /\ new.bitrateTat <= time + Burst(MaxSpacing)
             /\ new.bitrateTat >= time + spacing
             /\ (/\ s.packetTat >= last + DrainInterval
                 /\ Burst(MaxSpacing) <= MaxDrift + DrainInterval)
                   => new.bitrateTat >= s.bitrateTat + spacing
<1>. DEFINE D == DrainInterval
            M == MaxSpacing
            p == Rebased(s, t).packetTat
            b == Rebased(s, t).bitrateTat
            time == ScheduledTime(s, t)
            new == Charged(s, t, spacing)
<1>1. /\ s.packetTat \in Nat /\ s.bitrateTat \in Nat /\ D \in Nat \ {0} /\ M \in Nat
      /\ MaxTime \in Nat /\ MaxDrift \in Nat /\ spacing \in Nat /\ spacing <= M
  BY Constants DEF Shaper
<1>2. /\ Burst(D) \in Nat /\ Tolerance(D) \in Nat /\ Burst(D) = Tolerance(D) + D
      /\ Burst(M) \in Nat /\ Tolerance(M) \in Nat /\ Burst(M) = Tolerance(M) + M
  BY <1>1, BurstIsToleranceAndOne
<1>3. /\ p \in Nat /\ b \in Nat
      /\ s.packetTat # 0 => p >= s.packetTat
      /\ \/ p = t /\ b = t
         \/ p = s.packetTat /\ b = s.bitrateTat
      /\ s.packetTat >= last + D /\ Burst(M) <= MaxDrift + D => b >= s.bitrateTat
  <2>1. CASE Restarts(s, t)
    <3>1. p = t /\ b = t
      BY <2>1 DEF Rebased
    <3>2. s.packetTat # MaxTime
      BY <1>1, <1>2
    <3>3. s.packetTat # 0 => t > s.packetTat
      BY <2>1, <3>2 DEF Restarts
    <3>4. s.packetTat >= last + D /\ Burst(M) <= MaxDrift + D => t >= s.bitrateTat
      <4>1. s.packetTat # 0 => t > s.packetTat + MaxDrift
        BY <1>1, <2>1, <3>2 DEF Restarts
      <4>. QED  BY <1>1, <1>2, <4>1
    <3>. QED  BY <1>1, <3>1, <3>3, <3>4
  <2>2. CASE ~Restarts(s, t)
    <3>1. p = s.packetTat /\ b = s.bitrateTat
      BY <2>2 DEF Rebased
    <3>. QED  BY <1>1, <3>1
  <2>. QED  BY <2>1, <2>2
<1>. HIDE DEF p, b
<1>4. /\ Earliest(p, D) \in Nat /\ p <= Earliest(p, D) + Tolerance(D)
      /\ \A x \in Nat : p <= x + Burst(D) => Earliest(p, D) <= x + D
      /\ Earliest(b, M) \in Nat /\ b <= Earliest(b, M) + Tolerance(M)
      /\ \A x \in Nat : b <= x + Burst(M) => Earliest(b, M) <= x + M
  BY <1>1, <1>3, EarliestBounds
<1>5. time = Greatest(t, Greatest(Earliest(p, D), Earliest(b, M)))
  BY DEF ScheduledTime, p, b
<1>6. /\ time \in Nat /\ t <= time /\ Earliest(p, D) <= time /\ Earliest(b, M) <= time
      /\ time = t \/ time = Earliest(p, D) \/ time = Earliest(b, M)
  <2>. HIDE DEF time
  <2>. QED  BY <1>4, <1>5 DEF Greatest
<1>7. time <= Greatest(t, last + Greatest(D, M))
  <2>. HIDE DEF time
  <2>1. CASE p = t /\ b = t
    <3>1. Earliest(p, D) <= t /\ Earliest(b, M) <= t
      BY <1>1, <1>2, <2>1 DEF Earliest, Tolerance
    <3>. QED  BY <1>1, <1>4, <1>6, <3>1 DEF Greatest
  <2>2. CASE p = s.packetTat /\ b = s.bitrateTat
    <3>1. Earliest(p, D) <= last + D /\ Earliest(b, M) <= last + M
      BY <1>4, <2>2
    <3>. QED  BY <1>1, <1>4, <1>6, <3>1 DEF Greatest
  <2>. QED  BY <1>3, <2>1, <2>2
<1>8. new = [packetTat |-> SaturatedAdd(Greatest(p, time), D),
             bitrateTat |-> SaturatedAdd(Greatest(b, time), spacing)]
  BY DEF Charged, p, b
<1>. HIDE DEF time
<1>9. p + D < MaxTime /\ b + M < MaxTime /\ time + D < MaxTime /\ time + M < MaxTime
  <2>1. time + D + M < MaxTime
    <3>1. Greatest(t, last + Greatest(D, M)) \in Nat
      BY <1>1 DEF Greatest
    <3>. QED  BY <1>1, <1>6, <1>7, <3>1
  <2>2. (p <= time \/ p = s.packetTat) /\ (b <= time \/ b = s.bitrateTat)
    BY <1>3, <1>6
  <2>. QED  BY <1>1, <1>2, <1>3, <1>6, <2>1, <2>2
<1>10. SaturatedAdd(Greatest(p, time), D) = Greatest(p, time) + D
  BY <1>1, <1>3, <1>6, <1>9 DEF SaturatedAdd, Greatest
<1>11. SaturatedAdd(Greatest(b, time), spacing) = Greatest(b, time) + spacing
  BY <1>1, <1>3, <1>6, <1>9 DEF SaturatedAdd, Greatest
<1>12. /\ new.packetTat = Greatest(p, time) + D
       /\ new.bitrateTat = Greatest(b, time) + spacing
       /\ new \in Shaper
  <2>1. Greatest(p, time) + D \in Nat /\ Greatest(b, time) + spacing \in Nat
    BY <1>1, <1>3, <1>6 DEF Greatest
  <2>. QED  BY <1>8, <1>10, <1>11, <2>1 DEF Shaper
<1>. HIDE DEF new
<1>13. /\ new.packetTat >= time + D /\ new.packetTat >= p + D
       /\ new.packetTat <= time + Burst(D)
  BY <1>1, <1>2, <1>3, <1>4, <1>6, <1>12 DEF Greatest
<1>14. /\ new.bitrateTat >= time + spacing /\ new.bitrateTat >= b + spacing
       /\ new.bitrateTat <= time + Burst(M)
  BY <1>1, <1>2, <1>3, <1>4, <1>6, <1>12 DEF Greatest
<1>15. s.packetTat # 0 => new.packetTat >= s.packetTat + D
  <2>1. new.packetTat \in Nat
    BY <1>12 DEF Shaper
  <2>. QED  BY <1>1, <1>3, <1>13, <2>1
<1>16. s.packetTat >= last + D /\ Burst(M) <= MaxDrift + D
         => new.bitrateTat >= s.bitrateTat + spacing
  <2>1. new.bitrateTat \in Nat
    BY <1>12 DEF Shaper
  <2>. QED  BY <1>1, <1>3, <1>14, <2>1
<1>. QED  BY <1>6, <1>7, <1>12, <1>13, <1>14, <1>15, <1>16 DEF time, new

-----------------------------------------------------------------------------
(* The tracker, for one packet.  The level reaches zero at Emptied, if no  *)
(* packet follows: that time is what the tracker and the shaper's packet   *)
(* bucket have in common.                                                  *)

Emptied(t) == t.epoch + (t.drains + t.cinst) * DrainInterval

LEMMA TrackerStep ==
  ASSUME NEW t \in Tracker, t.epoch = 0 => t.drains = 0 /\ t.cinst = 0,
         NEW a \in Nat \ {0}, t.epoch <= a
  PROVE  LET new == Observed(t, a)
         IN  /\ new \in Tracker /\ new.epoch # 0 /\ new.epoch <= a
             /\ a < new.epoch + new.drains * DrainInterval + DrainInterval
             /\ \/ Emptied(new) <= a + DrainInterval
                \/ t.epoch # 0 /\ Emptied(new) = Emptied(t) + DrainInterval
<1>. DEFINE D == DrainInterval
            q == DrainCount(t, a)
            new == Observed(t, a)
<1>1. /\ D \in Nat \ {0} /\ t.epoch \in Nat /\ t.drains \in Nat /\ t.cinst \in Nat
      /\ t = [epoch |-> t.epoch, drains |-> t.drains, cinst |-> t.cinst]
  BY Constants DEF Tracker
<1>2. q \in Nat /\ t.epoch + q * D <= a /\ a < t.epoch + q * D + D
  <2>1. a - t.epoch \in Nat
    BY <1>1
  <2>2. q \in Nat /\ D * q <= a - t.epoch /\ a - t.epoch < D * q + D
    BY <1>1, <2>1, Division DEF DrainCount
  <2>. HIDE DEF q
  <2>. QED  BY <1>1, <2>2
<1>. HIDE DEF q
<1>3. CASE t.epoch = 0
  <2>1. new = [epoch |-> a, drains |-> 0, cinst |-> 1]
    <3>1. t.drains = 0 /\ t.cinst + 1 = 1
      BY <1>3
    <3>2. new = [t EXCEPT !.epoch = a, !.cinst = t.cinst + 1]
      BY <1>3 DEF Observed
    <3>3. new = [epoch |-> a, drains |-> t.drains, cinst |-> t.cinst + 1]
      BY <1>1, <3>2 DEF Tracker
    <3>. QED  BY <3>1, <3>3
  <2>. HIDE DEF new
  <2>2. Emptied(new) = a + D
    <3>1. Emptied(new) = a + (0 + 1) * D
      BY <2>1 DEF Emptied
    <3>. QED  BY <1>1, <3>1
  <2>3. new \in Tracker /\ new.epoch = a /\ new.drains = 0
    BY <2>1 DEF Tracker
  <2>4. new.drains * D = 0
    BY <1>1, <2>3
  <2>. QED  BY <1>1, <2>2, <2>3, <2>4 DEF new
<1>4. CASE t.epoch # 0
  <2>1. new = [epoch |-> t.epoch, drains |-> q,
               cinst |-> IF q - t.drains >= t.cinst THEN 1
                         ELSE t.cinst - (q - t.drains) + 1]
    BY <1>1, <1>4 DEF Observed, q
  <2>. HIDE DEF new
  <2>2. new \in Tracker /\ new.epoch = t.epoch /\ new.drains = q
    BY <1>1, <1>2, <2>1 DEF Tracker
  <2>3. CASE q - t.drains >= t.cinst
    <3>1. Emptied(new) = t.epoch + (q + 1) * D
      BY <2>1, <2>3 DEF Emptied
    <3>2. Emptied(new) = t.epoch + q * D + D
      BY <1>1, <1>2, <3>1
    <3>. QED  BY <1>1, <1>2, <1>4, <2>2, <3>2 DEF new
  <2>4. CASE ~(q - t.drains >= t.cinst)
    <3>1. Emptied(new) = t.epoch + (q + (t.cinst - (q - t.drains) + 1)) * D
      BY <2>1, <2>4 DEF Emptied
    <3>2. q + (t.cinst - (q - t.drains) + 1) = t.drains + t.cinst + 1
      BY <1>1, <1>2
    <3>3. Emptied(new) = t.epoch + (t.drains + t.cinst + 1) * D
      BY <3>1, <3>2
    <3>4. Emptied(new) = Emptied(t) + D
      BY <1>1, <3>3 DEF Emptied
    <3>. QED  BY <1>1, <1>2, <1>4, <2>2, <3>4 DEF new
  <2>. QED  BY <2>3, <2>4
<1>. QED  BY <1>3, <1>4

-----------------------------------------------------------------------------
(* The invariant.  The worker follows the clock, and so do the times it    *)
(* schedules; the tracker's bucket is never more than the timer's lateness *)
(* ahead of the shaper's, for the packet that is scheduled and not yet     *)
(* sent as well.                                                           *)

\* No packet is scheduled later than this.
Latest == Horizon + EncoderDelay + AuOffset + DrainInterval + MaxSpacing

TimelineInv ==
    /\ nominal <= Horizon
    /\ srCompleted <= now
    /\ scheduled <= Latest
    /\ step # "send" => scheduled <= now
    /\ step = "send" => now <= scheduled

ReportInv ==
    /\ step \in {"report", "cpb"} => first
    /\ step \in {"cpb", "schedule", "send"} => srCompleted >= SenderReportTime
    /\ step = "schedule" /\ ~first => now >= FirstRtpTime /\ now >= srCompleted + AuOffset
    /\ step = "send" => scheduled >= FirstRtpTime /\ scheduled >= srCompleted + AuOffset

BudgetInv ==
    /\ shaper.packetTat <= scheduled + Burst(DrainInterval)
    /\ shaper.bitrateTat <= scheduled + Burst(MaxSpacing)
    /\ step = "send" => shaper.packetTat >= scheduled + DrainInterval
    /\ tracker.epoch = 0 => tracker.drains = 0 /\ tracker.cinst = 0
    /\ tracker.epoch <= now
    /\ tracker.epoch # 0 =>
          /\ shaper.packetTat # 0
          /\ Emptied(tracker) <= shaper.packetTat + MaxLateness
          /\ step = "send" => Emptied(tracker) + DrainInterval <= shaper.packetTat + MaxLateness

PacingInv == TypeOK /\ TimelineInv /\ ReportInv /\ BudgetInv /\ NcmCompliance

LEMMA InitPacing == Init => PacingInv
<1>. SUFFICES ASSUME Init PROVE PacingInv
  OBVIOUS
<1>1. TypeOK
  BY Constants DEF Init, TypeOK, Shaper, Tracker, Meter, IdleShaper, IdleTracker
<1>2. TimelineInv /\ ReportInv
  BY Constants DEF Init, TimelineInv, ReportInv, Latest
<1>3. BudgetInv
  <2>1. Burst(DrainInterval) \in Nat /\ Burst(MaxSpacing) \in Nat
    BY Constants, BurstIsToleranceAndOne
  <2>. QED  BY <2>1, Constants DEF Init, BudgetInv, IdleShaper, IdleTracker
<1>4. NcmCompliance
  <2>1. CeilDiv(MaxLateness, DrainInterval) \in Nat
    BY Constants, CeilDivBounds
  <2>. QED  BY <2>1, Constants DEF Init, NcmCompliance, IdleTracker
<1>. QED  BY <1>1, <1>2, <1>3, <1>4 DEF PacingInv

\* Steps that touch neither the shaper nor the tracker: the clock goes on.
LEMMA BudgetKept ==
  ASSUME PacingInv, step # "send", step' # "send", now' \in Nat, now <= now',
         UNCHANGED <<scheduled, shaper, tracker>>
  PROVE  BudgetInv' /\ NcmCompliance'
<1>1. tracker.epoch \in Nat /\ now \in Nat
  BY DEF PacingInv, TypeOK, Tracker
<1>. QED  BY <1>1 DEF PacingInv, BudgetInv, NcmCompliance, Emptied

LEMMA TakeFramePacing ==
  ASSUME PacingInv, TakeFrame
  PROVE  PacingInv'
<1>0. /\ now \in Nat \ {0} /\ scheduled \in Nat /\ srCompleted \in Nat /\ step = "frame"
      /\ srCompleted <= now /\ scheduled <= now /\ scheduled <= Latest
  BY DEF TakeFrame, PacingInv, TypeOK, TimelineInv
<1>1. /\ now' \in Nat \ {0} /\ now <= now' /\ nominal' \in Nat /\ nominal' <= Horizon
      /\ remaining' \in Nat /\ first' /\ step' = "report"
      /\ UNCHANGED <<srCompleted, scheduled, charge, shaper, tracker, meter>>
  BY <1>0, Constants DEF TakeFrame
<1>2. TypeOK'
  BY <1>1 DEF PacingInv, TypeOK, TakeFrame
<1>3. TimelineInv'
  BY <1>0, <1>1 DEF TimelineInv, Latest
<1>4. ReportInv'
  BY <1>1 DEF ReportInv
<1>5. BudgetInv' /\ NcmCompliance'
  BY <1>0, <1>1, BudgetKept
<1>. QED  BY <1>2, <1>3, <1>4, <1>5 DEF PacingInv

LEMMA SendReportPacing ==
  ASSUME PacingInv, SendReport
  PROVE  PacingInv'
<1>0. /\ now \in Nat \ {0} /\ scheduled \in Nat /\ srCompleted \in Nat /\ step = "report"
      /\ nominal \in Nat /\ remaining \in Nat /\ first /\ nominal <= Horizon
      /\ srCompleted <= now /\ scheduled <= now /\ scheduled <= Latest
  BY DEF SendReport, PacingInv, TypeOK, TimelineInv, ReportInv
<1>1. now' \in Nat \ {0} /\ now <= now' /\ SenderReportTime <= now'
  BY <1>0, Constants DEF SendReport, WaitUntil, WorkFrom, SenderReportTime, Greatest
<1>2. /\ \/ remaining = 0 /\ step' = "frame" /\ nominal' = 0 /\ srCompleted' = 0
         \/ remaining # 0 /\ step' = "cpb" /\ nominal' = nominal /\ srCompleted' = now'
      /\ UNCHANGED <<remaining, first, scheduled, charge, shaper, tracker, meter>>
  BY DEF SendReport, EndFrame
<1>3. TypeOK'
  BY <1>0, <1>1, <1>2 DEF PacingInv, TypeOK
<1>4. TimelineInv'
  BY <1>0, <1>1, <1>2, Constants DEF TimelineInv, Latest
<1>5. ReportInv'
  BY <1>0, <1>1, <1>2 DEF ReportInv, SenderReportTime
<1>6. BudgetInv' /\ NcmCompliance'
  BY <1>0, <1>1, <1>2, BudgetKept
<1>. QED  BY <1>3, <1>4, <1>5, <1>6 DEF PacingInv

LEMMA InsertInCpbPacing ==
  ASSUME PacingInv, InsertInCpb
  PROVE  PacingInv'
<1>0. /\ now \in Nat \ {0} /\ scheduled \in Nat /\ srCompleted \in Nat /\ step = "cpb"
      /\ nominal \in Nat /\ first /\ srCompleted <= now /\ scheduled <= now
  BY DEF InsertInCpb, PacingInv, TypeOK, TimelineInv, ReportInv
<1>1. now' \in Nat \ {0} /\ now <= now'
  BY <1>0, Constants DEF InsertInCpb, WaitUntil, CpbInsertionTime, Greatest
<1>2. /\ step' = "schedule"
      /\ UNCHANGED <<nominal, remaining, first, srCompleted, scheduled, charge,
                     shaper, tracker, meter>>
  BY DEF InsertInCpb
<1>3. TypeOK'
  BY <1>0, <1>1, <1>2 DEF PacingInv, TypeOK
<1>4. TimelineInv'
  BY <1>0, <1>1, <1>2 DEF PacingInv, TimelineInv, Latest
<1>5. ReportInv'
  BY <1>0, <1>2 DEF PacingInv, ReportInv, SenderReportTime
<1>6. BudgetInv' /\ NcmCompliance'
  BY <1>0, <1>1, <1>2, BudgetKept
<1>. QED  BY <1>3, <1>4, <1>5, <1>6 DEF PacingInv

\* While packets are offered the budgets stay within the clock's range.
LEMMA InRange ==
  ASSUME NEW last \in Nat, last <= Horizon,
         NEW t \in Nat, t <= Horizon + EncoderDelay + AuOffset
  PROVE  LET limit == Greatest(t, last + Greatest(DrainInterval, MaxSpacing))
         IN  /\ last + Burst(DrainInterval) + DrainInterval < MaxTime
             /\ last + Burst(MaxSpacing) + MaxSpacing < MaxTime
             /\ limit <= Latest
             /\ limit + DrainInterval + MaxSpacing < MaxTime
<1>1. (Cmax + 2) * (DrainInterval + MaxSpacing) =
         Burst(DrainInterval) + Burst(MaxSpacing) + 2 * DrainInterval + 2 * MaxSpacing
  <2>1. /\ (Cmax + 2) * (DrainInterval + MaxSpacing)
             = (Cmax + 2) * DrainInterval + (Cmax + 2) * MaxSpacing
        /\ (Cmax + 2) * DrainInterval = Cmax * DrainInterval + 2 * DrainInterval
        /\ (Cmax + 2) * MaxSpacing = Cmax * MaxSpacing + 2 * MaxSpacing
    BY Constants
  <2>2. Cmax * DrainInterval \in Nat /\ Cmax * MaxSpacing \in Nat
    BY Constants
  <2>. QED  BY <2>1, <2>2, Constants DEF Burst
<1>2. Burst(DrainInterval) \in Nat /\ Burst(MaxSpacing) \in Nat
  BY Constants, BurstIsToleranceAndOne
<1>3. Horizon + EncoderDelay + AuOffset + Burst(DrainInterval) + Burst(MaxSpacing)
        + 2 * DrainInterval + 2 * MaxSpacing < MaxTime
  BY <1>1, <1>2, ClockAssumption, Constants DEF ClockAssumption
<1>. QED  BY <1>2, <1>3, Constants DEF Greatest, Latest

\* What scheduling a packet does, in the terms of ShaperStep.
LEMMA Scheduling ==
  ASSUME PacingInv, SchedulePacket
  PROVE  /\ scheduled' \in Nat /\ shaper' \in Shaper
         /\ charge' \in 1 .. MaxSpacing /\ step' = "send"
         /\ UNCHANGED <<now, nominal, remaining, first, srCompleted, tracker, meter>>
         /\ now <= scheduled' /\ scheduled' <= Latest
         /\ first => scheduled' >= FirstRtpTime /\ scheduled' >= srCompleted + AuOffset
         /\ scheduled' <= Greatest(OfferTime(now),
                                   scheduled + Greatest(DrainInterval, MaxSpacing))
         /\ shaper'.packetTat >= scheduled' + DrainInterval
         /\ shaper.packetTat # 0 => shaper'.packetTat >= shaper.packetTat + DrainInterval
         /\ shaper'.packetTat <= scheduled' + Burst(DrainInterval)
         /\ shaper'.bitrateTat <= scheduled' + Burst(MaxSpacing)
         /\ shaper'.bitrateTat >= scheduled' + charge'
         /\ (/\ shaper.packetTat >= scheduled + DrainInterval
             /\ Burst(MaxSpacing) <= MaxDrift + DrainInterval)
               => shaper'.bitrateTat >= shaper.bitrateTat + charge'
<1>. DEFINE offer == OfferTime(now)
<1>0. /\ now \in Nat \ {0} /\ scheduled \in Nat /\ srCompleted \in Nat /\ nominal \in Nat
      /\ step = "schedule" /\ now <= Horizon /\ nominal <= Horizon
      /\ srCompleted <= now /\ scheduled <= now /\ shaper \in Shaper /\ tracker \in Tracker
  BY DEF SchedulePacket, PacingInv, TypeOK, TimelineInv
<1>1. /\ offer \in Nat \ {0} /\ now <= offer
      /\ offer <= Horizon + EncoderDelay + AuOffset
      /\ first => offer >= FirstRtpTime /\ offer >= srCompleted + AuOffset
      /\ ~first => offer = now
  BY <1>0, Constants DEF OfferTime, FirstRtpTime, Greatest
<1>. HIDE DEF offer
<1>2. PICK spacing \in 1 .. MaxSpacing :
         shaper' = Charged(shaper, offer, spacing) /\ charge' = spacing
  BY Constants DEF SchedulePacket, offer
<1>3. /\ scheduled' = ScheduledTime(shaper, offer) /\ step' = "send"
      /\ UNCHANGED <<now, nominal, remaining, first, srCompleted, tracker, meter>>
  BY DEF SchedulePacket, offer
<1>4. /\ scheduled + Burst(DrainInterval) + DrainInterval < MaxTime
      /\ scheduled + Burst(MaxSpacing) + MaxSpacing < MaxTime
      /\ Greatest(offer, scheduled + Greatest(DrainInterval, MaxSpacing)) <= Latest
      /\ Greatest(offer, scheduled + Greatest(DrainInterval, MaxSpacing))
           + DrainInterval + MaxSpacing < MaxTime
  <2>1. scheduled <= Horizon /\ offer \in Nat
    BY <1>0, <1>1, Constants
  <2>. QED  BY <1>0, <1>1, <2>1, InRange
<1>5. /\ shaper.packetTat <= scheduled + Burst(DrainInterval)
      /\ shaper.bitrateTat <= scheduled + Burst(MaxSpacing)
  BY DEF PacingInv, BudgetInv
<1>6. /\ scheduled' \in Nat /\ shaper' \in Shaper
      /\ offer <= scheduled'
      /\ scheduled' <= Greatest(offer, scheduled + Greatest(DrainInterval, MaxSpacing))
      /\ shaper'.packetTat >= scheduled' + DrainInterval
      /\ shaper.packetTat # 0 => shaper'.packetTat >= shaper.packetTat + DrainInterval
      /\ shaper'.packetTat <= scheduled' + Burst(DrainInterval)
      /\ shaper'.bitrateTat <= scheduled' + Burst(MaxSpacing)
      /\ shaper'.bitrateTat >= scheduled' + spacing
      /\ (/\ shaper.packetTat >= scheduled + DrainInterval
          /\ Burst(MaxSpacing) <= MaxDrift + DrainInterval)
            => shaper'.bitrateTat >= shaper.bitrateTat + spacing
  BY <1>0, <1>1, <1>2, <1>3, <1>4, <1>5, ShaperStep
<1>7. scheduled' <= Latest
  <2>1. /\ Greatest(offer, scheduled + Greatest(DrainInterval, MaxSpacing)) \in Nat
        /\ Latest \in Nat
    BY <1>0, <1>1, Constants DEF Greatest, Latest
  <2>. QED  BY <1>4, <1>6, <2>1
<1>8. first => scheduled' >= FirstRtpTime /\ scheduled' >= srCompleted + AuOffset
  <2>1. FirstRtpTime \in Nat /\ srCompleted + AuOffset \in Nat
    BY <1>0, Constants DEF FirstRtpTime
  <2>. QED  BY <1>1, <1>6, <2>1
<1>9. now <= scheduled'
  BY <1>0, <1>1, <1>6
<1>. QED  BY <1>2, <1>3, <1>6, <1>7, <1>8, <1>9 DEF offer

LEMMA SchedulePacketPacing ==
  ASSUME PacingInv, SchedulePacket
  PROVE  PacingInv'
<1>0. /\ now \in Nat \ {0} /\ scheduled \in Nat /\ srCompleted \in Nat /\ nominal \in Nat
      /\ step = "schedule" /\ shaper \in Shaper /\ tracker \in Tracker
  BY DEF SchedulePacket, PacingInv, TypeOK
<1>1. /\ scheduled' \in Nat /\ shaper' \in Shaper /\ charge' \in Nat /\ step' = "send"
      /\ UNCHANGED <<now, nominal, remaining, first, srCompleted, tracker, meter>>
      /\ now <= scheduled' /\ scheduled' <= Latest
  BY Scheduling
<1>7. TypeOK'
  BY <1>0, <1>1 DEF PacingInv, TypeOK
<1>8. TimelineInv'
  BY <1>0, <1>1 DEF PacingInv, TimelineInv, Latest
<1>9. ReportInv'
  <2>1. scheduled' >= FirstRtpTime /\ scheduled' >= srCompleted + AuOffset
    <3>1. FirstRtpTime \in Nat /\ srCompleted + AuOffset \in Nat
      BY <1>0, Constants DEF FirstRtpTime
    <3>2. CASE first
      BY <3>2, Scheduling
    <3>3. CASE ~first
      BY <1>0, <1>1, <3>1, <3>3 DEF PacingInv, ReportInv
    <3>. QED  BY <3>2, <3>3
  <2>2. srCompleted >= SenderReportTime
    BY <1>0 DEF PacingInv, ReportInv
  <2>. QED  BY <1>1, <2>1, <2>2 DEF ReportInv, FirstRtpTime, SenderReportTime
<1>10. BudgetInv'
  <2>1. ASSUME tracker.epoch # 0
        PROVE  /\ shaper'.packetTat # 0
               /\ Emptied(tracker) + DrainInterval <= shaper'.packetTat + MaxLateness
               /\ Emptied(tracker) <= shaper'.packetTat + MaxLateness
    <3>1. shaper.packetTat # 0 /\ Emptied(tracker) <= shaper.packetTat + MaxLateness
      BY <2>1 DEF PacingInv, BudgetInv
    <3>2. shaper.packetTat \in Nat /\ shaper'.packetTat \in Nat
      BY <1>0, <1>1 DEF Shaper
    <3>3. Emptied(tracker) \in Nat
      BY <1>0, Constants DEF Emptied, Tracker
    <3>. QED  BY <3>1, <3>2, <3>3, Constants, Scheduling
  <2>2. Emptied(tracker)' = Emptied(tracker)
    BY <1>1 DEF Emptied
  <2>3. tracker.epoch = 0 => tracker.drains = 0 /\ tracker.cinst = 0
    BY DEF PacingInv, BudgetInv
  <2>4. tracker.epoch <= now
    BY DEF PacingInv, BudgetInv
  <2>. QED  BY <1>1, <2>1, <2>2, <2>3, <2>4, Scheduling DEF BudgetInv, Burst
<1>11. NcmCompliance'
  BY <1>1 DEF PacingInv, NcmCompliance
<1>. QED  BY <1>7, <1>8, <1>9, <1>10, <1>11 DEF PacingInv

LEMMA SendPacketPacing ==
  ASSUME PacingInv, SendPacket
  PROVE  PacingInv'
<1>0. /\ now \in Nat \ {0} /\ scheduled \in Nat /\ srCompleted \in Nat /\ nominal \in Nat
      /\ step = "send" /\ remaining \in Nat /\ remaining > 0
      /\ now <= scheduled /\ srCompleted <= now /\ shaper \in Shaper /\ tracker \in Tracker
  BY DEF SendPacket, PacingInv, TypeOK, TimelineInv
<1>1. PICK actual \in WaitUntil(scheduled) :
         /\ tracker' = Observed(tracker, actual)
         /\ meter' = Metered(meter, actual, charge)
         /\ now' \in WorkFrom(actual)
  BY DEF SendPacket
<1>2. /\ actual \in Nat \ {0} /\ scheduled <= actual /\ actual <= scheduled + MaxLateness
      /\ now <= actual /\ now' \in Nat \ {0} /\ actual <= now'
  BY <1>0, <1>1, Constants DEF WaitUntil, WorkFrom, Greatest
<1>3. /\ \/ remaining = 1 /\ step' = "frame" /\ nominal' = 0 /\ srCompleted' = 0
         \/ remaining # 1 /\ step' = "schedule" /\ UNCHANGED <<nominal, srCompleted>>
      /\ remaining' = remaining - 1 /\ first' = FALSE /\ charge' = 0
      /\ UNCHANGED <<scheduled, shaper>>
  BY DEF SendPacket, EndFrame
<1>4. /\ tracker' \in Tracker /\ tracker'.epoch # 0 /\ tracker'.epoch <= actual
      /\ actual < tracker'.epoch + tracker'.drains * DrainInterval + DrainInterval
      /\ \/ Emptied(tracker') <= actual + DrainInterval
         \/ tracker.epoch # 0 /\ Emptied(tracker') = Emptied(tracker) + DrainInterval
  <2>1. tracker.epoch = 0 => tracker.drains = 0 /\ tracker.cinst = 0
    BY DEF PacingInv, BudgetInv
  <2>2. tracker.epoch <= actual
    <3>1. tracker.epoch <= now /\ tracker.epoch \in Nat
      BY <1>0 DEF PacingInv, BudgetInv, Tracker
    <3>. QED  BY <1>0, <1>2, <3>1
  <2>. QED  BY <1>0, <1>1, <1>2, <2>1, <2>2, TrackerStep
<1>5. /\ shaper.packetTat \in Nat /\ shaper.packetTat >= scheduled + DrainInterval
      /\ shaper.packetTat <= scheduled + Burst(DrainInterval)
      /\ shaper.bitrateTat <= scheduled + Burst(MaxSpacing)
      /\ tracker.epoch # 0 => Emptied(tracker) + DrainInterval <= shaper.packetTat + MaxLateness
  BY <1>0 DEF PacingInv, BudgetInv, Shaper
<1>6. Emptied(tracker') <= shaper.packetTat + MaxLateness
  <2>1. Emptied(tracker') \in Nat
    BY <1>4, Constants DEF Emptied, Tracker
  <2>. QED  BY <1>0, <1>2, <1>4, <1>5, <2>1, Constants
<1>7. TypeOK'
  <2>1. meter' \in Meter
    BY <1>1, <1>2 DEF Metered, Meter, Greatest, PacingInv, TypeOK
  <2>2. /\ remaining' \in Nat /\ step' \in {"frame", "schedule"}
        /\ step' = "schedule" => remaining' > 0
        /\ nominal' \in Nat /\ srCompleted' \in Nat
    BY <1>0, <1>3
  <2>. QED  BY <1>0, <1>2, <1>3, <1>4, <2>1, <2>2 DEF PacingInv, TypeOK
<1>8. TimelineInv'
  BY <1>0, <1>2, <1>3, Constants DEF PacingInv, TimelineInv, Latest
<1>9. ReportInv'
  <2>1. step' = "schedule" => now' >= FirstRtpTime /\ now' >= srCompleted + AuOffset
    <3>1. FirstRtpTime \in Nat /\ srCompleted + AuOffset \in Nat
      BY <1>0, Constants DEF FirstRtpTime
    <3>2. scheduled >= FirstRtpTime /\ scheduled >= srCompleted + AuOffset
      BY <1>0 DEF PacingInv, ReportInv
    <3>. QED  BY <1>0, <1>2, <3>1, <3>2
  <2>2. srCompleted >= SenderReportTime
    BY <1>0 DEF PacingInv, ReportInv
  <2>. QED  BY <1>3, <2>1, <2>2 DEF ReportInv, FirstRtpTime, SenderReportTime
<1>10. BudgetInv'
  <2>1. tracker'.epoch <= now'
    BY <1>2, <1>4 DEF Tracker
  <2>2. shaper.packetTat # 0
    BY <1>0, <1>5, Constants
  <2>3. step' # "send"
    BY <1>3
  <2>4. Emptied(tracker)' = Emptied(tracker')
    BY DEF Emptied
  <2>. QED  BY <1>3, <1>4, <1>5, <1>6, <2>1, <2>2, <2>3, <2>4 DEF BudgetInv, Burst
<1>11. NcmCompliance'
  <2>. DEFINE D == DrainInterval
              d == tracker'.drains
              c == tracker'.cinst
              allowance == CeilDiv(MaxLateness, D)
  <2>1. d \in Nat /\ c \in Nat /\ tracker'.epoch \in Nat /\ D \in Nat \ {0} /\ Cmax \in Nat
    BY <1>4, Constants DEF Tracker
  <2>2. allowance \in Nat /\ MaxLateness <= D * allowance
    BY Constants, CeilDivBounds
  <2>. HIDE DEF d, c, D, allowance
  <2>3. Emptied(tracker') = tracker'.epoch + d * D + c * D
    <3>1. Emptied(tracker') = tracker'.epoch + (d + c) * D
      BY DEF Emptied, d, c, D
    <3>. QED  BY <2>1, <3>1
  <2>4. c * D < Cmax * D + D + D * allowance
    <3>1. d * D \in Nat /\ c * D \in Nat /\ D * allowance \in Nat /\ Cmax * D \in Nat
      BY <2>1, <2>2
    <3>2. actual < tracker'.epoch + d * D + D
      BY <1>4 DEF d, D
    <3>3. shaper.packetTat <= scheduled + Cmax * D
      BY <1>5 DEF Burst, D
    <3>. QED  BY <1>0, <1>2, <1>5, <1>6, <2>1, <2>2, <2>3, <3>1, <3>2, <3>3, Constants
  <2>5. c * D < (Cmax + allowance) * D + D
    BY <2>1, <2>2, <2>4
  <2>6. c <= Cmax + allowance
    BY <2>1, <2>2, <2>5, ProductCancels
  <2>. QED  BY <2>6 DEF NcmCompliance, c, allowance, D, CeilDiv
<1>. QED  BY <1>7, <1>8, <1>9, <1>10, <1>11 DEF PacingInv

THEOREM PacingInvariance == Spec => []PacingInv
<1>1. PacingInv /\ [Next]_vars => PacingInv'
  <2>. SUFFICES ASSUME PacingInv, [Next]_vars PROVE PacingInv'
    OBVIOUS
  <2>1. CASE UNCHANGED vars
    BY <2>1 DEF vars, PacingInv, TypeOK, TimelineInv, ReportInv, BudgetInv, NcmCompliance,
                Emptied, Latest, FirstRtpTime, SenderReportTime, Burst
  <2>. QED  BY <2>1, TakeFramePacing, SendReportPacing, InsertInCpbPacing,
               SchedulePacketPacing, SendPacketPacing DEF Next
<1>. QED  BY <1>1, InitPacing, PTL DEF Spec

\* Every variable of the timeline has its type; the tracker's level and the
\* reference bucket's never become negative (network_compatibility.cpp).
THEOREM PacingTypeCorrectness == Spec => []TypeOK
BY PacingInvariance, PTL DEF PacingInv

\* The shaper keeps the tracker's level within CMAX and what lateness costs,
\* whatever the packet sizes and the pauses (traffic_shaper.cpp, schedule_ns;
\* network_compatibility.cpp, observe).
THEOREM NcmComplianceHolds == Spec => []NcmCompliance
BY PacingInvariance, PTL DEF PacingInv

\* No RTP packet of a frame precedes its report, nor the access-unit offset
\* after it, nor the frame's first RTP time (frame_transmitter.cpp, the loop).
THEOREM ReportThenMediaHolds == Spec => []ReportThenMedia
<1>1. PacingInv => ReportThenMedia
  BY DEF PacingInv, ReportInv, ReportThenMedia
<1>. QED  BY <1>1, PacingInvariance, PTL

-----------------------------------------------------------------------------
(* The bit rate.  The restart after a pause looks at the packet bucket     *)
(* alone: that it forgives no bits needs a drift that covers a full bucket *)
(* of them.                                                                *)

DriftCoversBurst == Burst(MaxSpacing) <= MaxDrift + DrainInterval

\* The time at which the reference bucket is empty, if no packet follows.
Cleared == meter.time + meter.level

BitInv ==
    /\ shaper.packetTat # 0 => shaper.packetTat >= scheduled + DrainInterval
    /\ shaper.packetTat = 0 => meter.time = 0 /\ meter.level = 0 /\ shaper.bitrateTat = 0
    /\ step # "send" => Cleared <= shaper.bitrateTat + MaxLateness
    /\ step = "send" => /\ shaper.bitrateTat >= scheduled + charge
                        /\ Cleared + charge <= shaper.bitrateTat + MaxLateness
    /\ BitrateCompliance

LEMMA ScheduledBits ==
  ASSUME DriftCoversBurst, PacingInv, BitInv, SchedulePacket
  PROVE  shaper'.bitrateTat >= shaper.bitrateTat + charge'
<1>0. /\ shaper' \in Shaper /\ charge' \in 1 .. MaxSpacing /\ scheduled' \in Nat
      /\ shaper'.bitrateTat >= scheduled' + charge'
  BY Scheduling
<1>1. CASE shaper.packetTat # 0
  BY <1>1, Scheduling DEF BitInv, DriftCoversBurst
<1>2. CASE shaper.packetTat = 0
  <2>1. shaper.bitrateTat = 0
    BY <1>2 DEF BitInv
  <2>. QED  BY <1>0, <2>1, Constants DEF Shaper
<1>. QED  BY <1>1, <1>2

LEMMA SendPacketBits ==
  ASSUME PacingInv, BitInv, SendPacket
  PROVE  BitInv'
<1>0. /\ now \in Nat \ {0} /\ scheduled \in Nat /\ now <= scheduled /\ step = "send"
      /\ shaper \in Shaper /\ meter \in Meter /\ charge \in Nat
  BY DEF SendPacket, PacingInv, TypeOK, TimelineInv
<1>1. PICK actual \in WaitUntil(scheduled) : meter' = Metered(meter, actual, charge)
  BY DEF SendPacket
<1>2. actual \in Nat /\ scheduled <= actual /\ actual <= scheduled + MaxLateness
  BY <1>0, <1>1, Constants DEF WaitUntil, Greatest
<1>3. step' # "send" /\ UNCHANGED <<scheduled, shaper>>
  BY DEF SendPacket, EndFrame
<1>4. /\ shaper.bitrateTat >= scheduled + charge
      /\ meter.time + meter.level + charge <= shaper.bitrateTat + MaxLateness
      /\ shaper.bitrateTat <= scheduled + Burst(MaxSpacing)
      /\ shaper.packetTat >= scheduled + DrainInterval
  BY <1>0 DEF BitInv, Cleared, PacingInv, BudgetInv
<1>5. /\ shaper.packetTat \in Nat /\ shaper.bitrateTat \in Nat
      /\ meter.time \in Nat /\ meter.level \in Nat /\ Burst(MaxSpacing) \in Nat
  BY <1>0, Constants, BurstIsToleranceAndOne DEF Shaper, Meter
<1>6. /\ meter'.time = actual
      /\ meter'.level = Greatest(0, meter.level - (actual - meter.time)) + charge
  BY <1>1 DEF Metered
<1>7. /\ meter'.time + meter'.level <= shaper.bitrateTat + MaxLateness
      /\ meter'.level <= Burst(MaxSpacing) + MaxLateness
  BY <1>0, <1>2, <1>4, <1>5, <1>6, Constants DEF Greatest
<1>8. shaper.packetTat # 0
  BY <1>0, <1>4, <1>5, Constants
<1>. QED  BY <1>3, <1>4, <1>7, <1>8 DEF BitInv, Cleared, BitrateCompliance, Burst

LEMMA BitStep ==
  ASSUME DriftCoversBurst, PacingInv, BitInv, [Next]_vars
  PROVE  BitInv'
<1>1. CASE TakeFrame \/ SendReport \/ InsertInCpb \/ UNCHANGED vars
  <2>1. /\ UNCHANGED <<scheduled, charge, shaper, meter>>
        /\ step' = step \/ (step # "send" /\ step' # "send")
    BY <1>1 DEF TakeFrame, SendReport, InsertInCpb, EndFrame, vars
  <2>. QED  BY <2>1 DEF BitInv, Cleared, BitrateCompliance
<1>2. CASE SchedulePacket
  <2>1. /\ step' = "send" /\ meter' = meter /\ step = "schedule"
        /\ shaper' \in Shaper /\ scheduled' \in Nat
        /\ shaper'.packetTat >= scheduled' + DrainInterval
        /\ shaper'.bitrateTat >= scheduled' + charge' /\ charge' \in Nat
    BY <1>2, Scheduling DEF SchedulePacket
  <2>2. shaper'.bitrateTat >= shaper.bitrateTat + charge'
    BY <1>2, ScheduledBits
  <2>3. Cleared + charge' <= shaper'.bitrateTat + MaxLateness
    <3>1. Cleared <= shaper.bitrateTat + MaxLateness
      BY <2>1 DEF BitInv
    <3>2. Cleared \in Nat /\ shaper.bitrateTat \in Nat /\ shaper'.bitrateTat \in Nat
      BY <2>1 DEF Cleared, PacingInv, TypeOK, Meter, Shaper
    <3>. QED  BY <2>1, <2>2, <3>1, <3>2, Constants
  <2>4. shaper'.packetTat # 0
    BY <2>1, Constants DEF Shaper
  <2>. QED  BY <2>1, <2>3, <2>4 DEF BitInv, Cleared, BitrateCompliance
<1>. QED  BY <1>1, <1>2, SendPacketBits DEF Next

LEMMA InitBits == Init => BitInv
<1>1. Burst(MaxSpacing) \in Nat
  BY Constants, BurstIsToleranceAndOne
<1>. QED  BY <1>1, Constants DEF Init, BitInv, Cleared, BitrateCompliance, IdleShaper, Burst

THEOREM BitInvariance ==
  ASSUME DriftCoversBurst
  PROVE  Spec => []BitInv
<1>1. PacingInv /\ BitInv /\ [Next]_vars => BitInv'
  BY BitStep
<1>. QED  BY <1>1, InitBits, PacingInvariance, PTL DEF Spec

\* No burst carries more bits than CMAX of the largest packets above what the
\* maximum IP bitrate drains, if the drift covers such a burst
\* (traffic_shaper.cpp, schedule_ns and its restart after a pause).
THEOREM BitrateComplianceHolds ==
  ASSUME DriftCoversBurst
  PROVE  Spec => []BitrateCompliance
BY BitInvariance, PTL DEF BitInv

\* Nothing the shaper has charged is forgiven, on the same condition
\* (traffic_shaper.cpp, schedule_ns).
THEOREM BudgetsAdvanceHolds ==
  ASSUME DriftCoversBurst
  PROVE  Spec => BudgetsAdvance
<1>1. ASSUME PacingInv, BitInv, [Next]_vars
      PROVE  /\ shaper'.packetTat >= shaper.packetTat
             /\ shaper'.bitrateTat >= shaper.bitrateTat
  <2>0. shaper \in Shaper
    BY <1>1 DEF PacingInv, TypeOK
  <2>1. CASE SchedulePacket
    <3>1. shaper' \in Shaper /\ charge' \in Nat
      BY <1>1, <2>1, Scheduling
    <3>2. shaper'.bitrateTat >= shaper.bitrateTat + charge'
      BY <1>1, <2>1, ScheduledBits
    <3>3. shaper.packetTat # 0 => shaper'.packetTat >= shaper.packetTat + DrainInterval
      BY <1>1, <2>1, Scheduling
    <3>. QED  BY <2>0, <3>1, <3>2, <3>3, Constants DEF Shaper
  <2>2. CASE shaper' = shaper
    BY <2>0, <2>2 DEF Shaper
  <2>. QED  BY <1>1, <2>1, <2>2
            DEF Next, TakeFrame, SendReport, InsertInCpb, SendPacket, vars
<1>2. PacingInv /\ BitInv /\ [Next]_vars =>
        /\ shaper'.packetTat >= shaper.packetTat
        /\ shaper'.bitrateTat >= shaper.bitrateTat
  BY <1>1
<1>. QED  BY <1>2, PacingInvariance, BitInvariance, PTL DEF Spec, BudgetsAdvance

\* A packet waits no longer than the rates require (traffic_shaper.cpp,
\* schedule_ns).
THEOREM NoOverdelayHolds == Spec => NoOverdelay
<1>1. ASSUME PacingInv, Next, step = "schedule"
      PROVE  scheduled' <= Greatest(OfferTime(now),
                                    scheduled + Greatest(DrainInterval, MaxSpacing))
  <2>1. SchedulePacket
    BY <1>1 DEF Next, TakeFrame, SendReport, InsertInCpb, SendPacket
  <2>. QED  BY <1>1, <2>1, Scheduling
<1>2. ASSUME PacingInv, UNCHANGED vars
      PROVE  scheduled' <= Greatest(OfferTime(now),
                                    scheduled + Greatest(DrainInterval, MaxSpacing))
  <2>1. scheduled' = scheduled /\ scheduled \in Nat
    BY <1>2 DEF vars, PacingInv, TypeOK
  <2>2. OfferTime(now) \in Nat
    BY <1>2, Constants DEF OfferTime, FirstRtpTime, Greatest, PacingInv, TypeOK
  <2>. QED  BY <2>1, <2>2, Constants DEF Greatest
<1>3. PacingInv /\ [Next]_vars =>
        (step = "schedule" /\ shaper.packetTat # 0 =>
           scheduled' <= Greatest(OfferTime(now),
                                  scheduled + Greatest(DrainInterval, MaxSpacing)))
  BY <1>1, <1>2
<1>. QED  BY <1>3, PacingInvariance, PTL DEF Spec, NoOverdelay
=============================================================================
