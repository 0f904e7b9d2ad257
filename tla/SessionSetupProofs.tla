------------------------- MODULE SessionSetupProofs -------------------------
(***************************************************************************)
(* Proofs about SessionSetup, for any options, any description of another  *)
(* program, any range of the clock and any number of runs.                 *)
(***************************************************************************)
EXTENDS SessionSetup, SequenceTheorems, WellFoundedInduction, TLAPS

-----------------------------------------------------------------------------
(* The numbers of a sender's settings *)

LEMMA MaxOfThree ==
  ASSUME NEW a \in Nat, NEW b \in Nat, NEW c \in Nat
  PROVE  Max({a, b, c}) \in Nat
<1>1. \E x \in {a, b, c} : \A y \in {a, b, c} : x >= y
  <2>1. CASE a >= b /\ a >= c
    BY <2>1
  <2>2. CASE b >= a /\ b >= c
    BY <2>2
  <2>3. CASE c >= a /\ c >= b
    BY <2>3
  <2>. QED  BY <2>1, <2>2, <2>3
<1>. QED  BY <1>1 DEF Max

LEMMA MinimumIpBitrateIsNumber ==
  ASSUME NEW bitrate \in Nat, NEW max_udp \in MinUdpBytes .. MaxUdpBytes
  PROVE  MinimumIpBitrate(bitrate, max_udp) \in Nat /\ MinimumIpBitrate(bitrate, max_udp) >= bitrate
<1> DEFINE room      == max_udp - 30
           fragments == (bitrate * 58 + max_udp - 31) \div room
           tenth     == (bitrate + 9) \div 10
<1>1. room \in Nat /\ room > 0 /\ bitrate * 58 + max_udp - 31 \in Nat
  BY DEF MinUdpBytes, MaxUdpBytes
<1>2. \A n, m \in Nat : m > 0 => n \div m \in Nat
  OBVIOUS
<1>3. fragments \in Nat
  <2> HIDE DEF room
  <2>. QED  BY <1>1, <1>2
<1>4. tenth \in Nat
  BY <1>2
<1> HIDE DEF room, fragments, tenth
<1>5. Max({128, tenth, fragments}) \in Nat
  BY <1>3, <1>4, MaxOfThree
<1>. QED  BY <1>5 DEF MinimumIpBitrate, fragments, tenth, room

\* What the options are checked to be before the sender goes on.
CheckedOptions(s) ==
    /\ {s.port, s.width, s.height, s.bitrate, s.ip_bitrate, s.max_udp, s.ts_refclk,
        s.access_unit_offset, s.late_packet_threshold, s.dscp} \subseteq Nat
    /\ s.rate \in [num : Nat, den : Nat]
    /\ \A delay \in {s.encoder_delay, s.sender_reports_delay} :
          delay \subseteq Nat /\ \A x, y \in delay : x = y
    /\ IsValidMediaPort(s.port) /\ s.payload = 96
    /\ s.ts_refclk # 0 /\ s.media_clock = "direct=0" /\ s.source = "interface"
    /\ s.max_udp \in MinUdpBytes .. MaxUdpBytes
    /\ s.bitrate # 0 /\ s.ip_bitrate >= MinimumIpBitrate(s.bitrate, s.max_udp)
    /\ s.late_packet_threshold # 0 /\ s.dscp <= 63

LEMMA OrIs ==
  ASSUME NEW optional, optional \subseteq Nat, \A x, y \in optional : x = y,
         NEW default \in Nat
  PROVE  /\ Or(optional, default) \in Nat
         /\ \A x \in optional : Or(optional, default) = x
BY DEF Or

LEMMA SettingsAreChecked ==
  ASSUME NEW o \in Options, AcceptedOptions(o)
  PROVE  CheckedOptions(Settings(o))
<1> DEFINE s == Settings(o)
<1>1. /\ {o.port, o.width, o.height, o.bitrate, o.ip_bitrate, o.max_udp, o.ts_refclk,
           o.late_packet_threshold, o.dscp} \subseteq Nat
      /\ o.rate \in [num : Nat, den : Nat]
      /\ \A delay \in {o.encoder_delay, o.sender_reports_delay, o.access_unit_offset} :
            delay \subseteq Nat /\ \A x, y \in delay : x = y
      /\ Second \in Nat
  BY SetupAssumption
<1>2. MinimumIpBitrate(o.bitrate, o.max_udp) \in Nat
  BY <1>1, MinimumIpBitrateIsNumber DEF AcceptedOptions
<1>3. IpBitrate(o) \in Nat /\ IpBitrate(o) >= MinimumIpBitrate(o.bitrate, o.max_udp)
  BY <1>1, <1>2 DEF IpBitrate, AcceptedOptions
<1>4. Second \div 1000 \in Nat
  BY <1>1
<1>5. Or(o.access_unit_offset, Second \div 1000) \in Nat
  <2>1. o.access_unit_offset \subseteq Nat /\ \A x, y \in o.access_unit_offset : x = y
    BY <1>1
  <2>. QED  BY <1>4, <2>1, OrIs
<1>6. LocalReference \in Nat /\ LocalReference # 0
  BY DEF LocalReference
<1>7. /\ s.port = o.port /\ s.width = o.width /\ s.height = o.height /\ s.rate = o.rate
      /\ s.bitrate = o.bitrate /\ s.ip_bitrate = IpBitrate(o) /\ s.max_udp = o.max_udp
      /\ s.ts_refclk = IF o.ts_refclk = 0 THEN LocalReference ELSE o.ts_refclk
      /\ s.media_clock = "direct=0" /\ s.source = "interface" /\ s.payload = 96
      /\ s.encoder_delay = o.encoder_delay /\ s.sender_reports_delay = o.sender_reports_delay
      /\ s.access_unit_offset = Or(o.access_unit_offset, Second \div 1000)
      /\ s.late_packet_threshold = o.late_packet_threshold /\ s.dscp = o.dscp
  BY DEF Settings
<1> HIDE DEF s
<1>8. s.ts_refclk \in Nat /\ s.ts_refclk # 0
  BY <1>1, <1>6, <1>7
<1>9. /\ IsValidMediaPort(s.port) /\ s.max_udp \in MinUdpBytes .. MaxUdpBytes
      /\ s.bitrate # 0 /\ s.late_packet_threshold # 0 /\ s.dscp <= 63
      /\ s.ip_bitrate >= MinimumIpBitrate(s.bitrate, s.max_udp) /\ s.ip_bitrate \in Nat
  BY <1>3, <1>7 DEF AcceptedOptions
<1>10. {s.port, s.width, s.height, s.bitrate, s.ip_bitrate, s.max_udp, s.ts_refclk,
        s.access_unit_offset, s.late_packet_threshold, s.dscp} \subseteq Nat
  BY <1>1, <1>5, <1>7, <1>8, <1>9
<1>11. \A delay \in {s.encoder_delay, s.sender_reports_delay} :
          delay \subseteq Nat /\ \A x, y \in delay : x = y
  BY <1>1, <1>7
<1>12. s.rate \in [num : Nat, den : Nat]
  BY <1>1, <1>7
<1>13. CheckedOptions(s)
  BY <1>7, <1>8, <1>9, <1>10, <1>11, <1>12 DEF CheckedOptions
<1>. QED  BY <1>13 DEF s

-----------------------------------------------------------------------------
(* What is checked is enough *)

LEMMA EncoderDelayIsNumber ==
  ASSUME NEW s, CheckedOptions(s), s.rate.num # 0
  PROVE  EncoderDelay(s) \in Nat
<1>1. Second \in Nat /\ s.rate.num \in Nat /\ s.rate.den \in Nat
  BY SetupAssumption DEF CheckedOptions
<1>2. \A a, b, c \in Nat : c # 0 => 3 * ((a * b + c - 1) \div c) \in Nat
  <2> SUFFICES ASSUME NEW a \in Nat, NEW b \in Nat, NEW c \in Nat, c # 0
               PROVE  3 * ((a * b + c - 1) \div c) \in Nat
    OBVIOUS
  <2> DEFINE p == a * b + c - 1
  <2>1. p \in Nat
    <3>1. a * b \in Nat
      OBVIOUS
    <3>. QED  BY <3>1
  <2> HIDE DEF p
  <2>2. p \div c \in Nat
    BY <2>1
  <2>. QED  BY <2>2 DEF p
<1>3. 3 * FramePeriod(s.rate) \in Nat
  BY <1>1, <1>2, s.rate.num # 0 DEF FramePeriod
<1>4. s.encoder_delay \subseteq Nat /\ \A x, y \in s.encoder_delay : x = y
  BY DEF CheckedOptions
<1>. QED  BY <1>3, <1>4, OrIs DEF EncoderDelay

\* A description can be made of what the options and the encoder were checked for.
LEMMA DescriptionCanBeMade ==
  ASSUME NEW s, NEW headers, CheckedOptions(s), EncoderAccepts(s, headers)
  PROVE  CanMakeSdp(s, headers, [sps_id |-> headers.id])
BY DEF CheckedOptions, EncoderAccepts, CanMakeSdp

\* The transmitter refuses its settings only for their delays.
LEMMA TransmitterRefusal ==
  ASSUME NEW s, NEW headers, CheckedOptions(s), EncoderAccepts(s, headers)
  PROVE  /\ ~CanTransmit(s) => Unchecked(s)
         /\ CanTransmit(s) => /\ \A delay \in s.sender_reports_delay : delay <= EncoderDelay(s)
                              /\ EncoderDelay(s) < MaxTime - s.access_unit_offset
<1> DEFINE delay == EncoderDelay(s)
<1>1. s.rate.num # 0 /\ s.rate.den # 0 /\ MaxTime \in Nat
  BY SetupAssumption DEF EncoderAccepts
<1>2. delay \in Nat /\ s.access_unit_offset \in Nat
  BY <1>1, EncoderDelayIsNumber DEF CheckedOptions
<1>3. /\ s.sender_reports_delay \subseteq Nat /\ \A x, y \in s.sender_reports_delay : x = y
  BY DEF CheckedOptions
<1>4. CanTransmit(s) <=> CanSchedule(s)
  BY <1>1 DEF CanTransmit, CheckedOptions
<1> DEFINE report == Or(s.sender_reports_delay, delay)
<1>5. (report <= delay) <=> (\A d \in s.sender_reports_delay : d <= delay)
  <2>1. CASE s.sender_reports_delay = {}
    BY <1>2, <2>1 DEF Or
  <2>2. CASE s.sender_reports_delay # {}
    BY <1>2, <1>3, <2>2, OrIs
  <2>. QED  BY <2>1, <2>2
<1>6. CanSchedule(s) <=> /\ report <= delay
                         /\ 1 <= MaxTime - delay
                         /\ 1 + delay <= MaxTime - s.access_unit_offset
  BY DEF CanSchedule
<1> HIDE DEF delay, report
<1>7. CanSchedule(s) <=> /\ report <= delay
                         /\ delay < MaxTime - s.access_unit_offset
  BY <1>1, <1>2, <1>6
<1>8. (\E d \in s.sender_reports_delay : d > delay) \/ delay >= MaxTime - s.access_unit_offset
         => Unchecked(s)
  BY DEF Unchecked, delay
<1>9. ~CanSchedule(s) =>
         (\E d \in s.sender_reports_delay : d > delay) \/ delay >= MaxTime - s.access_unit_offset
  BY <1>1, <1>2, <1>3, <1>5, <1>7
<1>. QED  BY <1>4, <1>5, <1>7, <1>8, <1>9 DEF delay

\* The report is refused only for what nobody looks at.
LEMMA ReportRefusal ==
  ASSUME NEW s, NEW headers, CheckedOptions(s), EncoderAccepts(s, headers),
         headers.level = "640020", headers.size = 30,
         s = settings, headers = sps
  PROVE  CanReport(Report(1, 0, 0)) <=>
            /\ s.ts_refclk <= ReferenceSize /\ s.width <= MaxSide /\ s.height <= MaxSide
            /\ s.rate.num <= MaxNumerator /\ s.rate.den <= MaxDenominator
<1> DEFINE r == Report(1, 0, 0)
<1>1. /\ r.ts_refclk = s.ts_refclk /\ r.cname = s.ts_refclk + 13 /\ r.media_clock = 8
      /\ r.width = s.width /\ r.height = s.height /\ r.rate = s.rate
      /\ r.level = "640020" /\ r.sprop = ParameterSetsSize(30, 6)
  BY DEF Report, PpsSize
<1>2. ParameterSetsSize(30, 6) = 49
  BY DEF ParameterSetsSize, Base64Size
<1>3. /\ s.ts_refclk \in Nat /\ s.width \in Nat /\ s.height \in Nat
      /\ s.rate.num \in Nat /\ s.rate.den \in Nat
      /\ s.ts_refclk # 0 /\ s.width # 0 /\ s.height # 0 /\ s.rate.num # 0 /\ s.rate.den # 0
  BY DEF CheckedOptions, EncoderAccepts, Even
<1> HIDE DEF r
<1>4. MaxSide \in Nat /\ MaxNumerator \in Nat /\ MaxDenominator \in Nat
  BY DEF MaxSide, MaxNumerator, MaxDenominator
<1>5. r.media_clock <= ClockSize /\ r.sprop <= 255 /\ r.level # "000000"
  <2>1. r.media_clock <= ClockSize
    BY <1>1 DEF ClockSize
  <2>2. r.sprop <= 255
    BY <1>1, <1>2
  <2>3. r.level # "000000"
    BY <1>1
  <2>. QED  BY <2>1, <2>2, <2>3
<1>6. /\ r.ts_refclk \in 1 .. ReferenceSize <=> s.ts_refclk <= ReferenceSize
      /\ s.ts_refclk <= ReferenceSize => r.cname \in 1 .. 255
  BY <1>1, <1>3 DEF ReferenceSize
<1>7. \A n, m \in Nat : n # 0 => (n \in 1 .. m <=> n <= m)
  OBVIOUS
<1>8. /\ r.width \in 1 .. MaxSide <=> s.width <= MaxSide
      /\ r.height \in 1 .. MaxSide <=> s.height <= MaxSide
      /\ r.rate.num \in 1 .. MaxNumerator <=> s.rate.num <= MaxNumerator
      /\ r.rate.den \in 1 .. MaxDenominator <=> s.rate.den <= MaxDenominator
  BY <1>1, <1>3, <1>4, <1>7
<1>. QED  BY <1>5, <1>6, <1>8 DEF CanReport, r

\* What is known of a sender wherever it is, and that one only fails for what
\* nobody has looked at.
SetupInv ==
    /\ spc \notin {"off", "failed"} => CheckedOptions(settings)
    /\ spc \notin {"off", "failed", "encoder"} =>
          EncoderAccepts(settings, sps) /\ sps \in Headers(settings)
    /\ spc \in {"running", "sending"} => CanTransmit(settings)
    /\ spc = "sending" => CanReport(Report(1, 0, 0))
    /\ spc # "refused"
    /\ spc = "abandoned" => Unchecked(settings)

LEMMA SetupPreserved == SetupInv /\ [Next]_vars => SetupInv'
<1> SUFFICES ASSUME SetupInv, [Next]_vars PROVE SetupInv'
  OBVIOUS
<1>1. CASE ParseOptions
  <2>1. CASE spc' = "failed"
    BY <2>1 DEF SetupInv
  <2>2. CASE spc' # "failed"
    <3>1. PICK o \in Options : AcceptedOptions(o) /\ spc' = "encoder" /\ settings' = Settings(o)
      BY <1>1, <2>2 DEF ParseOptions
    <3>2. CheckedOptions(settings')
      BY <3>1, SettingsAreChecked
    <3>. QED  BY <3>1, <3>2 DEF SetupInv
  <2>. QED  BY <2>1, <2>2
<1>2. CASE OpenEncoder
  <2>1. CASE spc' = "failed"
    BY <2>1 DEF SetupInv
  <2>2. CASE spc' # "failed"
    <3>1. /\ spc = "encoder" /\ spc' = "sdp" /\ sps' \in Headers(settings)
          /\ EncoderAccepts(settings, sps') /\ settings' = settings
      BY <1>2, <2>2 DEF OpenEncoder
    <3>. QED  BY <3>1 DEF SetupInv
  <2>. QED  BY <2>1, <2>2
<1>3. CASE OpenSdp
  BY <1>3 DEF OpenSdp, SetupInv
<1>4. CASE FormatSdp
  <2>1. CheckedOptions(settings) /\ EncoderAccepts(settings, sps)
    BY <1>4 DEF FormatSdp, SetupInv
  <2>2. CanMakeSdp(settings, sps, [sps_id |-> sps.id])
    BY <2>1, DescriptionCanBeMade
  <2>3. spc = "make" /\ spc' = "write" /\ UNCHANGED <<settings, sps>>
    BY <1>4, <2>2 DEF FormatSdp
  <2>. QED  BY <2>3 DEF SetupInv
<1>5. CASE WriteSdp
  BY <1>5 DEF WriteSdp, SetupInv
<1>6. CASE WritePart
  BY <1>6 DEF WritePart, sender, SetupInv, Report
<1>7. CASE SdpFails
  BY <1>7 DEF SdpFails, SetupInv
<1>8. CASE StartTransmitter
  <2>1. /\ spc = "described" /\ UNCHANGED <<settings, sps>>
        /\ spc' = IF CanTransmit(settings) THEN "running" ELSE "abandoned"
    BY <1>8 DEF StartTransmitter
  <2>2. CheckedOptions(settings) /\ EncoderAccepts(settings, sps) /\ sps \in Headers(settings)
    BY <2>1 DEF SetupInv
  <2>3. ~CanTransmit(settings) => Unchecked(settings)
    BY <2>2, TransmitterRefusal
  <2>. QED  BY <2>1, <2>2, <2>3 DEF SetupInv
<1>9. CASE FirstReport
  <2>1. /\ spc = "running" /\ UNCHANGED <<settings, sps>>
        /\ spc' = IF CanReport(Report(1, 0, 0)) THEN "sending" ELSE "abandoned"
    BY <1>9 DEF FirstReport
  <2>2. /\ CheckedOptions(settings) /\ EncoderAccepts(settings, sps) /\ sps \in Headers(settings)
        /\ CanTransmit(settings)
    BY <2>1 DEF SetupInv
  <2>3. sps.level = "640020" /\ sps.size = 30
    BY <2>2 DEF Headers
  <2>4. ~CanReport(Report(1, 0, 0)) => Unchecked(settings)
    <3>1. ~(/\ settings.ts_refclk <= ReferenceSize
            /\ settings.width <= MaxSide /\ settings.height <= MaxSide
            /\ settings.rate.num <= MaxNumerator /\ settings.rate.den <= MaxDenominator)
             => Unchecked(settings)
      <4>1. \A n, m \in Nat : ~(n <= m) => n > m
        OBVIOUS
      <4>2. /\ {settings.ts_refclk, settings.width, settings.height,
                 settings.rate.num, settings.rate.den} \subseteq Nat
            /\ {ReferenceSize, MaxSide, MaxNumerator, MaxDenominator} \subseteq Nat
        BY <2>2 DEF CheckedOptions, ReferenceSize, MaxSide, MaxNumerator, MaxDenominator
      <4>. QED  BY <4>1, <4>2 DEF Unchecked
    <3>. QED  BY <2>2, <2>3, <3>1, ReportRefusal
  <2>5. Report(1, 0, 0)' = Report(1, 0, 0)
    BY <2>1 DEF Report
  <2>. QED  BY <2>1, <2>2, <2>4, <2>5 DEF SetupInv
<1>10. CASE StartFails
  BY <1>10 DEF StartFails, SetupInv
<1>11. CASE SenderGone
  BY <1>11 DEF SenderGone, SetupInv
<1>12. CASE StartReceiver
  BY <1>12 DEF StartReceiver, sender, SetupInv, Report
<1>13. CASE UNCHANGED vars
  BY <1>13 DEF vars, sender, SetupInv, Report
<1>. QED
  BY <1>1, <1>2, <1>3, <1>4, <1>5, <1>6, <1>7, <1>8, <1>9, <1>10, <1>11, <1>12, <1>13 DEF Next

THEOREM SetupInvariant == Spec => []SetupInv
<1>1. Init => SetupInv
  BY DEF Init, SetupInv
<1>. QED  BY <1>1, SetupPreserved, PTL DEF Spec

\* Whatever its options, a sender never empties the description file and is then
\* refused its own description, and once it has announced its session it fails
\* for nothing that it looks at before (make_sdp, FrameTransmitter's constructor
\* and make_ipmx_rtcp_compound throw; parse_options and X264Encoder check).
THEOREM ChecksSufficeHolds == Spec => []ChecksSuffice
<1>1. SetupInv => ChecksSuffice
  <2> SUFFICES ASSUME SetupInv, spc = "sending" PROVE ~Unchecked(settings)
    BY DEF SetupInv, ChecksSuffice
  <2>1. /\ CheckedOptions(settings) /\ EncoderAccepts(settings, sps) /\ sps \in Headers(settings)
        /\ CanTransmit(settings) /\ CanReport(Report(1, 0, 0))
    BY DEF SetupInv
  <2>2. sps.level = "640020" /\ sps.size = 30
    BY <2>1 DEF Headers
  <2>3. /\ settings.ts_refclk <= ReferenceSize
        /\ settings.width <= MaxSide /\ settings.height <= MaxSide
        /\ settings.rate.num <= MaxNumerator /\ settings.rate.den <= MaxDenominator
    BY <2>1, <2>2, ReportRefusal
  <2>4. /\ \A delay \in settings.sender_reports_delay : delay <= EncoderDelay(settings)
        /\ EncoderDelay(settings) < MaxTime - settings.access_unit_offset
    BY <2>1, TransmitterRefusal
  <2>5. EncoderDelay(settings) \in Nat
    BY <2>1, EncoderDelayIsNumber DEF EncoderAccepts
  <2>6. /\ {settings.ts_refclk, settings.width, settings.height,
             settings.rate.num, settings.rate.den} \subseteq Nat
        /\ settings.access_unit_offset \in Nat /\ settings.sender_reports_delay \subseteq Nat
    BY <2>1 DEF CheckedOptions
  <2>7. {ReferenceSize, MaxSide, MaxNumerator, MaxDenominator, MaxTime} \subseteq Nat
    BY SetupAssumption DEF ReferenceSize, MaxSide, MaxNumerator, MaxDenominator
  <2>8. \A n, m \in Nat : n <= m => ~(n > m)
    OBVIOUS
  <2>. QED  BY <2>3, <2>4, <2>5, <2>6, <2>7, <2>8 DEF Unchecked
<1>. QED  BY <1>1, SetupInvariant, PTL

-----------------------------------------------------------------------------
(* Reading.  Facts about every number of lines follow from the least number *)
(* that one of them fails for.                                              *)

LEMMA LeastNumber ==
  ASSUME NEW S, S \subseteq Nat, S # {}
  PROVE  \E n \in S : \A m \in S : n <= m
<1>1. PICK n \in S : \A m \in S : ~(<<m, n>> \in OpToRel(<, Nat))
  BY NatLessThanWellFounded, WFMin, Zenon
<1>2. \A m \in S : ~(m < n)
  BY <1>1, Zenon DEF OpToRel
<1>. QED  BY <1>2

LEMMA MaxIsMember ==
  ASSUME NEW n \in Nat, NEW S, S \subseteq 1 .. n, S # {}
  PROVE  Max(S) \in S
<1> DEFINE below == {n - i : i \in S}
<1>1. below \subseteq Nat /\ below # {}
  <2>1. \A i \in S : n - i \in Nat
    OBVIOUS
  <2>. QED  BY <2>1
<1>2. PICK b \in below : \A m \in below : b <= m
  BY <1>1, LeastNumber
<1>3. PICK x \in S : b = n - x
  BY <1>2
<1>4. \A y \in S : n - x <= n - y
  BY <1>2, <1>3
<1>5. \A y \in S : x >= y
  BY <1>4
<1>. QED  BY <1>5 DEF Max

\* What a sequence of lines is read as, after n of them.
Read(lines) ==
    CHOOSE read : read = [n \in 0 .. Len(lines) |->
                            IF n = 0 THEN EmptyDescription ELSE ReadLine(read[n - 1], lines[n])]

Reads(lines, upTo, read) ==
    read = [n \in 0 .. upTo |->
              IF n = 0 THEN EmptyDescription ELSE ReadLine(read[n - 1], lines[n])]

LEMMA ReadsExists ==
  ASSUME NEW lines, NEW upTo \in Nat
  PROVE  \E read : Reads(lines, upTo, read)
<1> DEFINE bad == {n \in Nat : ~ \E read : Reads(lines, n, read)}
<1> SUFFICES ASSUME ~ \E read : Reads(lines, upTo, read) PROVE FALSE
  OBVIOUS
<1>0. bad \subseteq Nat /\ upTo \in bad
  OBVIOUS
<1>1. PICK n \in bad : \A m \in bad : n <= m
  BY <1>0, LeastNumber
<1>2. n # 0
  <2> DEFINE read == [i \in {0} |-> EmptyDescription]
  <2>1. Reads(lines, 0, read)
    BY DEF Reads
  <2>. QED  BY <1>1, <2>1
<1>3. PICK read : Reads(lines, n - 1, read)
  BY <1>1, <1>2
<1> DEFINE longer == [i \in 0 .. n |-> IF i = n THEN ReadLine(read[n - 1], lines[n]) ELSE read[i]]
<1>4. Reads(lines, n, longer)
  <2>1. \A i \in 0 .. n - 1 :
           read[i] = IF i = 0 THEN EmptyDescription ELSE ReadLine(read[i - 1], lines[i])
    BY <1>3 DEF Reads
  <2>2. \A i \in 0 .. n :
           longer[i] = IF i = 0 THEN EmptyDescription ELSE ReadLine(longer[i - 1], lines[i])
    BY <1>1, <1>2, <2>1
  <2>. QED  BY <2>2 DEF Reads
<1>. QED  BY <1>1, <1>4

LEMMA ReadSteps ==
  ASSUME NEW lines, Len(lines) \in Nat
  PROVE  /\ Read(lines)[0] = EmptyDescription
         /\ \A n \in 1 .. Len(lines) : Read(lines)[n] = ReadLine(Read(lines)[n - 1], lines[n])
         /\ ReadSdp(lines) = Read(lines)[Len(lines)]
<1>1. Reads(lines, Len(lines), Read(lines))
  BY ReadsExists DEF Reads, Read
<1>2. ReadSdp(lines) = Read(lines)[Len(lines)]
  BY DEF ReadSdp, Read
<1> DEFINE read == Read(lines)
<1> HIDE DEF read
<1>3. read = [n \in 0 .. Len(lines) |->
                IF n = 0 THEN EmptyDescription ELSE ReadLine(read[n - 1], lines[n])]
  BY <1>1 DEF Reads, read
<1>4. /\ read[0] = EmptyDescription
      /\ \A n \in 1 .. Len(lines) : read[n] = ReadLine(read[n - 1], lines[n])
  BY <1>3
<1>. QED  BY <1>2, <1>4 DEF read

-----------------------------------------------------------------------------
(* What the lines of a session say of it, however many of them there are   *)
(* and in whatever order                                                    *)

TellsParam(p, session) ==
    /\ p.name = "width" => p.value = session.width
    /\ p.name = "height" => p.value = session.height
    /\ p.name = "exactframerate" => p.value = session.rate

TellsParams(params, session) ==
    \E P : params \in Seq(P) /\ \A p \in P : TellsParam(p, session)

TellsLine(line, session) ==
    /\ line.key \in {"c", "m", "b", "rtcp", "rtpmap", "fmtp", "framesize", "framerate",
                     "ts-refclk", "mediaclk"}
    /\ line.key = "c" => line.value = session.group
    /\ line.key = "m" => line.value.port = session.port
    /\ line.key = "fmtp" => /\ "value" \in DOMAIN line /\ "params" \in DOMAIN line.value
                            /\ TellsParams(line.value.params, session)

\* The group comes before the port.
Describes(lines, session) ==
    /\ \E S : lines \in Seq(S) /\ \A line \in S : TellsLine(line, session)
    /\ \A i \in 1 .. Len(lines) :
          lines[i].key = "m" => \E j \in 1 .. i - 1 : lines[j].key = "c"

LEMMA FindTells ==
  ASSUME NEW params, NEW session, TellsParams(params, session)
  PROVE  /\ Find(params, "width") \in {{}, {session.width}}
         /\ Find(params, "height") \in {{}, {session.height}}
         /\ Find(params, "exactframerate") \in {{}, {session.rate}}
<1>1. PICK P : params \in Seq(P) /\ \A p \in P : TellsParam(p, session)
  BY DEF TellsParams
<1>2. Len(params) \in Nat /\ DOMAIN params = 1 .. Len(params)
      /\ \A i \in 1 .. Len(params) : params[i] \in P
  BY <1>1
<1>3. ASSUME NEW name
      PROVE  Find(params, name) = {} \/
             \E i \in DOMAIN params : params[i].name = name /\ Find(params, name) = {params[i].value}
  <2> DEFINE at == {i \in DOMAIN params : params[i].name = name}
  <2>1. at # {} => Max(at) \in at
    BY <1>2, MaxIsMember
  <2>. QED  BY <2>1 DEF Find
<1>. QED  BY <1>1, <1>2, <1>3 DEF TellsParam

Fields == DOMAIN EmptyDescription

\* What has been read so far agrees with the session; c: the group has been read.
Agreed(d, session, c) ==
    /\ DOMAIN d = Fields
    /\ c => d.group = session.group
    /\ d.media_seen => d.group = session.group /\ d.port = session.port
    /\ d.fmtp_width \in {{}, {session.width}} /\ d.fmtp_height \in {{}, {session.height}}
    /\ d.fmtp_width = {session.width} /\ session.width # 0 => d.width = session.width
    /\ d.fmtp_height = {session.height} /\ session.height # 0 => d.height = session.height
    /\ d.exact_frame_rate_seen => d.rate = session.rate

LEMMA LineAgrees ==
  ASSUME NEW d, NEW line, NEW session, NEW c \in BOOLEAN, Agreed(d, session, c),
         TellsLine(line, session), line.key = "m" => c
  PROVE  Agreed(ReadLine(d, line), session, c \/ line.key = "c")
<1> DEFINE e == ReadLine(d, line)
<1>0. {"group", "port", "payload", "width", "height", "rate", "media_seen", "exact_frame_rate_seen",
       "fmtp_width", "fmtp_height", "throws"} \subseteq Fields
  BY DEF Fields, EmptyDescription
<1>1. CASE line.key = "c"
  <2>1. e = [d EXCEPT !.group = line.value]
    BY <1>1 DEF ReadLine
  <2>. QED  BY <1>0, <1>1, <2>1 DEF Agreed, TellsLine
<1>2. CASE line.key = "m"
  <2>1. e = ReadMedia(d, line.value)
    BY <1>2 DEF ReadLine
  <2>. QED  BY <1>0, <1>2, <2>1 DEF Agreed, TellsLine, ReadMedia
<1>3. CASE line.key = "fmtp"
  <2>1. e = ReadFmtp(d, line.value)
    BY <1>3 DEF ReadLine
  <2>2. /\ Find(line.value.params, "width") \in {{}, {session.width}}
        /\ Find(line.value.params, "height") \in {{}, {session.height}}
        /\ Find(line.value.params, "exactframerate") \in {{}, {session.rate}}
    BY <1>3, FindTells DEF TellsLine
  <2> DEFINE width  == Find(line.value.params, "width")
             height == Find(line.value.params, "height")
             rate   == Find(line.value.params, "exactframerate")
             throws == rate # {} /\ (Or(rate, 0).num = 0 \/ Or(rate, 0).den = 0)
  <2>3. \A v : Or({v}, d.width) = v /\ Or({v}, d.height) = v /\ Or({v}, d.rate) = v
    BY DEF Or
  <2>4. \A v : Or({}, v) = v
    BY DEF Or
  <2>5. CASE throws
    <3>1. e = [d EXCEPT !.throws = TRUE]
      BY <2>1, <2>5 DEF ReadFmtp
    <3>. QED  BY <1>0, <1>3, <3>1 DEF Agreed
  <2>6. CASE ~throws
    <3> DEFINE sets == Find(line.value.params, "sprop-parameter-sets")
    <3> HIDE DEF width, height, rate, throws
    <3>0. e = [d EXCEPT !.fmtp_payload = {line.value.payload},
                        !.fmtp_width   = IF width = {} THEN @ ELSE width,
                        !.width        = Or(width, @),
                        !.fmtp_height  = IF height = {} THEN @ ELSE height,
                        !.height       = Or(height, @),
                        !.rate         = Or(rate, @),
                        !.exact_frame_rate_seen = (@ \/ rate # {}),
                        !.max_udp      = Or(Find(line.value.params, "maxudp"), @),
                        !.constants    = Or(Find(line.value.params, "constants"), @),
                        !.level        = Or(Find(line.value.params, "profile-level-id"), @),
                        !.sps          = IF sets = {} THEN @ ELSE {Or(sets, 0).sps},
                        !.pps          = IF sets = {} THEN @ ELSE {Or(sets, 0).pps}]
      BY <2>1, <2>6 DEF ReadFmtp, width, height, rate, throws
    <3>1. /\ DOMAIN e = DOMAIN d /\ e.group = d.group /\ e.port = d.port
          /\ e.media_seen = d.media_seen
          /\ e.fmtp_width = IF width = {} THEN d.fmtp_width ELSE width
          /\ e.width = Or(width, d.width)
          /\ e.fmtp_height = IF height = {} THEN d.fmtp_height ELSE height
          /\ e.height = Or(height, d.height)
          /\ e.rate = Or(rate, d.rate)
          /\ e.exact_frame_rate_seen = (d.exact_frame_rate_seen \/ rate # {})
      BY <1>0, <3>0, ZenonT(60) DEF Agreed
    <3> HIDE DEF e
    <3>2. /\ DOMAIN e = Fields /\ (c => e.group = session.group)
          /\ (e.media_seen => e.group = session.group /\ e.port = session.port)
      BY <3>1 DEF Agreed
    <3>3. /\ e.fmtp_width \in {{}, {session.width}}
          /\ e.fmtp_width = {session.width} /\ session.width # 0 => e.width = session.width
      <4>1. CASE width = {}
        BY <2>4, <3>1, <4>1 DEF Agreed
      <4>2. CASE width = {session.width}
        BY <2>3, <3>1, <4>2
      <4>. QED  BY <2>2, <4>1, <4>2 DEF width
    <3>4. /\ e.fmtp_height \in {{}, {session.height}}
          /\ e.fmtp_height = {session.height} /\ session.height # 0 => e.height = session.height
      <4>1. CASE height = {}
        BY <2>4, <3>1, <4>1 DEF Agreed
      <4>2. CASE height = {session.height}
        BY <2>3, <3>1, <4>2
      <4>. QED  BY <2>2, <4>1, <4>2 DEF height
    <3>5. e.exact_frame_rate_seen => e.rate = session.rate
      BY <2>2, <2>3, <2>4, <3>1 DEF Agreed, rate
    <3>. QED  BY <1>3, <3>2, <3>3, <3>4, <3>5 DEF Agreed, e
  <2>. QED  BY <2>5, <2>6
<1>4. CASE line.key = "framesize"
  <2>1. e = ReadFramesize(d, line.value)
    BY <1>4 DEF ReadLine
  <2>. QED  BY <1>0, <1>4, <2>1 DEF Agreed, ReadFramesize
<1>5. CASE line.key = "framerate"
  <2>1. e = ReadFramerate(d, line.value)
    BY <1>5 DEF ReadLine
  <2>. QED  BY <1>0, <1>5, <2>1 DEF Agreed, ReadFramerate
<1>6. CASE line.key \in {"b", "rtcp", "rtpmap", "ts-refclk", "mediaclk"}
  BY <1>0, <1>6, ZenonT(60) DEF Agreed, ReadLine
<1>. QED  BY <1>1, <1>2, <1>3, <1>4, <1>5, <1>6 DEF TellsLine

GroupIn(lines, n) == \E j \in 1 .. n : lines[j].key = "c"

LEMMA AllAgree ==
  ASSUME NEW lines, NEW session, Describes(lines, session)
  PROVE  \A n \in 0 .. Len(lines) : Agreed(Read(lines)[n], session, GroupIn(lines, n))
<1> DEFINE bad == {n \in 0 .. Len(lines) : ~Agreed(Read(lines)[n], session, GroupIn(lines, n))}
<1> SUFFICES ASSUME bad # {} PROVE FALSE
  OBVIOUS
<1>1. PICK S : lines \in Seq(S) /\ \A line \in S : TellsLine(line, session)
  BY DEF Describes
<1>2. Len(lines) \in Nat /\ \A i \in 1 .. Len(lines) : TellsLine(lines[i], session)
  BY <1>1
<1>3. bad \subseteq Nat
  BY <1>2
<1>4. PICK n \in bad : \A m \in bad : n <= m
  BY <1>3, LeastNumber
<1>5. /\ Read(lines)[0] = EmptyDescription
      /\ \A i \in 1 .. Len(lines) : Read(lines)[i] = ReadLine(Read(lines)[i - 1], lines[i])
  BY <1>2, ReadSteps
<1>6. n # 0
  <2>1. /\ ~EmptyDescription.media_seen /\ ~EmptyDescription.exact_frame_rate_seen
        /\ EmptyDescription.fmtp_width = {} /\ EmptyDescription.fmtp_height = {}
    BY DEF EmptyDescription
  <2>2. ~GroupIn(lines, 0)
    BY DEF GroupIn
  <2>3. Agreed(EmptyDescription, session, GroupIn(lines, 0))
    BY <2>1, <2>2 DEF Agreed, Fields
  <2>. QED  BY <1>4, <1>5, <2>3
<1>7. n \in 1 .. Len(lines) /\ n - 1 \in 0 .. Len(lines) /\ n - 1 \notin bad
  BY <1>2, <1>3, <1>4, <1>6
<1>8. Agreed(Read(lines)[n - 1], session, GroupIn(lines, n - 1))
  BY <1>7
<1>9. lines[n].key = "m" => GroupIn(lines, n - 1)
  BY <1>7 DEF Describes, GroupIn
<1>10. Agreed(Read(lines)[n], session, GroupIn(lines, n - 1) \/ lines[n].key = "c")
  <2>1. GroupIn(lines, n - 1) \in BOOLEAN
    BY DEF GroupIn
  <2>. QED  BY <1>2, <1>5, <1>7, <1>8, <1>9, <2>1, LineAgrees
<1>11. GroupIn(lines, n) <=> (GroupIn(lines, n - 1) \/ lines[n].key = "c")
  <2>1. 1 .. n = (1 .. n - 1) \cup {n}
    BY <1>7
  <2>. QED  BY <2>1 DEF GroupIn
<1>12. Agreed(Read(lines)[n], session, GroupIn(lines, n))
  <2>1. CASE GroupIn(lines, n)
    BY <1>10, <1>11, <2>1 DEF Agreed
  <2>2. CASE ~GroupIn(lines, n)
    BY <1>10, <2>2 DEF Agreed
  <2>. QED  BY <2>1, <2>2
<1>. QED  BY <1>4, <1>12

\* What is accepted, of lines that describe a session, is that session.
LEMMA AcceptedIsTheSession ==
  ASSUME NEW lines, NEW session, Describes(lines, session), Accepted(ReadSdp(lines)),
         session = [group |-> session.group, port |-> session.port, width |-> session.width,
                    height |-> session.height, rate |-> session.rate]
  PROVE  Session(ReadSdp(lines)) = session
<1> DEFINE d == ReadSdp(lines)
<1>1. Len(lines) \in Nat
  BY DEF Describes
<1>2. d = Read(lines)[Len(lines)]
  BY <1>1, ReadSteps
<1>3. Agreed(d, session, GroupIn(lines, Len(lines)))
  BY <1>1, <1>2, AllAgree
<1> HIDE DEF d
<1>4. /\ d.media_seen /\ d.exact_frame_rate_seen
      /\ d.fmtp_width \notin {{}, {0}} /\ d.fmtp_height \notin {{}, {0}}
  BY DEF Accepted, d
<1>5. /\ d.group = session.group /\ d.port = session.port /\ d.rate = session.rate
  BY <1>3, <1>4 DEF Agreed
<1>6. d.width = session.width /\ d.height = session.height
  BY <1>3, <1>4 DEF Agreed
<1>. QED  BY <1>5, <1>6 DEF Session, d

\* A beginning of such lines describes the same session, and so do those that
\* the sender writes.
LEMMA BeginningDescribes ==
  ASSUME NEW lines, NEW session, Describes(lines, session), NEW part \in Beginnings(lines)
  PROVE  Describes(part, session)
<1>1. PICK S : lines \in Seq(S) /\ \A line \in S : TellsLine(line, session)
  BY DEF Describes
<1>2. Len(lines) \in Nat /\ DOMAIN lines = 1 .. Len(lines)
      /\ \A i \in 1 .. Len(lines) : lines[i] \in S /\ TellsLine(lines[i], session)
  BY <1>1
<1>3. ASSUME NEW k \in 0 .. Len(lines)
      PROVE  /\ SubSeq(lines, 1, k) \in Seq(S) /\ Len(SubSeq(lines, 1, k)) = k
             /\ \A i \in 1 .. k : SubSeq(lines, 1, k)[i] = lines[i]
  BY <1>1, <1>2
<1>4. ASSUME NEW k \in 0 .. Len(lines)
      PROVE  Describes(SubSeq(lines, 1, k), session)
  <2> DEFINE cut == SubSeq(lines, 1, k)
  <2>1. cut \in Seq(S) /\ Len(cut) = k /\ \A i \in 1 .. k : cut[i] = lines[i]
    BY <1>3
  <2> HIDE DEF cut
  <2>2. ASSUME NEW i \in 1 .. Len(cut), cut[i].key = "m"
        PROVE  \E j \in 1 .. i - 1 : cut[j].key = "c"
    <3>1. i \in 1 .. Len(lines) /\ lines[i].key = "m"
      BY <1>2, <2>1, <2>2
    <3>2. PICK j \in 1 .. i - 1 : lines[j].key = "c"
      BY <3>1 DEF Describes
    <3>3. j \in 1 .. k
      BY <1>2, <2>1
    <3>. QED  BY <2>1, <3>2, <3>3
  <2>3. Describes(cut, session)
    BY <1>1, <2>1, <2>2 DEF Describes
  <2>. QED  BY <2>3 DEF cut
<1>5. ASSUME NEW f \in DOMAIN lines, lines[f].key = "fmtp",
             NEW k \in 0 .. Len(lines[f].value.params),
             part = [SubSeq(lines, 1, f) EXCEPT ![f].value.params = SubSeq(@, 1, k)]
      PROVE  Describes(part, session)
  <2> DEFINE cut  == SubSeq(lines, 1, f)
             line == [lines[f] EXCEPT !.value.params = SubSeq(@, 1, k)]
  <2>1. f \in 0 .. Len(lines) /\ f \in 1 .. Len(lines)
    BY <1>2
  <2>2. cut \in Seq(S) /\ Len(cut) = f /\ \A i \in 1 .. f : cut[i] = lines[i]
    BY <1>3, <2>1
  <2>3. Describes(cut, session)
    BY <1>4, <2>1
  <2>4. part = [cut EXCEPT ![f] = line]
    <3>1. part = [cut EXCEPT ![f] = [cut[f] EXCEPT !.value.params = SubSeq(@, 1, k)]]
      BY <1>5
    <3>2. cut[f] = lines[f]
      BY <2>1, <2>2
    <3>. QED  BY <3>1, <3>2
  <2>5. TellsLine(line, session)
    <3>1. TellsLine(lines[f], session)
      BY <1>2, <2>1
    <3>2. PICK P : lines[f].value.params \in Seq(P) /\ \A p \in P : TellsParam(p, session)
      BY <1>5, <3>1 DEF TellsLine, TellsParams
    <3>3. SubSeq(lines[f].value.params, 1, k) \in Seq(P)
      BY <3>2
    <3>4. line.key = "fmtp"
      BY <1>5
    <3>5. "value" \in DOMAIN lines[f] /\ "params" \in DOMAIN lines[f].value
      BY <1>5, <3>1 DEF TellsLine
    <3>6. /\ "value" \in DOMAIN line /\ "params" \in DOMAIN line.value
          /\ line.value.params = SubSeq(lines[f].value.params, 1, k)
      BY <3>5
    <3>7. TellsParams(line.value.params, session)
      BY <3>2, <3>3, <3>6 DEF TellsParams
    <3>. QED  BY <3>4, <3>6, <3>7 DEF TellsLine
  <2>6. line.key = "fmtp"
    BY <1>5
  <2> HIDE DEF cut, line
  <2>7. part \in Seq(S \cup {line}) /\ Len(part) = f
        /\ \A i \in 1 .. f : part[i] = IF i = f THEN line ELSE cut[i]
    BY <2>1, <2>2, <2>4
  <2>8. \A l \in S \cup {line} : TellsLine(l, session)
    BY <1>1, <2>5
  <2>9. ASSUME NEW i \in 1 .. Len(part), part[i].key = "m"
        PROVE  \E j \in 1 .. i - 1 : part[j].key = "c"
    <3>1. i # f /\ i \in 1 .. Len(cut) /\ cut[i].key = "m"
      BY <2>2, <2>6, <2>7, <2>9
    <3>2. PICK j \in 1 .. i - 1 : cut[j].key = "c"
      BY <2>3, <3>1 DEF Describes
    <3>3. j \in 1 .. f /\ j # f
      BY <2>1, <2>2, <3>1
    <3>. QED  BY <2>7, <3>2, <3>3
  <2>. QED  BY <2>7, <2>8, <2>9 DEF Describes
<1>. QED  BY <1>4, <1>5 DEF Beginnings

LEMMA MadeDescribes ==
  ASSUME NEW s, NEW sets, NEW pps
  PROVE  Describes(MakeSdp(s, sets, pps), Session(s))
<1> DEFINE session == Session(s)
           lines   == MakeSdp(s, sets, pps)
<1>1. /\ session.group = s.group /\ session.port = s.port /\ session.width = s.width
      /\ session.height = s.height /\ session.rate = s.rate
  BY DEF Session
<1> HIDE DEF session
<1>2. TellsLine(FmtpLine(s, sets, pps), session)
  <2> DEFINE fmtp == FmtpLine(s, sets, pps)
             params == << Param("width", s.width), Param("height", s.height),
                          Param("exactframerate", s.rate),
                          Param("maxudp", s.max_udp),
                          Param("constants", "expected"),
                          Param("profile-level-id", sets.level),
                          Param("sprop-parameter-sets", [sps |-> sets, pps |-> pps]) >>
             P == {params[i] : i \in 1 .. 7}
  <2>1. fmtp.key = "fmtp" /\ fmtp.value.params = params
        /\ "value" \in DOMAIN fmtp /\ "params" \in DOMAIN fmtp.value
    BY DEF FmtpLine, Line
  <2>2. \A i \in 1 .. 7 : TellsParam(params[i], session)
    BY <1>1 DEF TellsParam, Param
  <2>3. params \in Seq(P)
    OBVIOUS
  <2> HIDE DEF params
  <2>4. TellsParams(params, session)
    BY <2>2, <2>3 DEF TellsParams
  <2>. QED  BY <2>1, <2>4 DEF TellsLine
<1>3. /\ lines[1] = Line("c", s.group)
      /\ lines[2] = Line("m", [port |-> s.port, payload |-> s.payload, transport |-> "RTP/AVP"])
      /\ lines[3].key = "b" /\ lines[4].key = "rtcp" /\ lines[5].key = "ts-refclk"
      /\ lines[6].key = "mediaclk" /\ lines[7].key = "rtpmap"
      /\ lines[8] = FmtpLine(s, sets, pps)
      /\ lines[9].key = "framerate" /\ lines[10].key = "framesize"
  BY DEF MakeSdp, Line
<1>4. Len(lines) = 10 /\ lines \in Seq({lines[i] : i \in 1 .. 10})
  BY DEF MakeSdp
<1> HIDE DEF lines
<1>5. TellsLine(lines[1], session) /\ TellsLine(lines[2], session) /\ TellsLine(lines[8], session)
  BY <1>1, <1>2, <1>3 DEF TellsLine, Line
<1>6. /\ TellsLine(lines[3], session) /\ TellsLine(lines[4], session) /\ TellsLine(lines[5], session)
      /\ TellsLine(lines[6], session) /\ TellsLine(lines[7], session)
      /\ TellsLine(lines[9], session) /\ TellsLine(lines[10], session)
  BY <1>3 DEF TellsLine
<1>7. \A i \in 1 .. 10 : i = 1 \/ i = 2 \/ i = 3 \/ i = 4 \/ i = 5 \/ i = 6 \/ i = 7 \/ i = 8
                         \/ i = 9 \/ i = 10
  OBVIOUS
<1>8. \A i \in 1 .. 10 : TellsLine(lines[i], session)
  BY <1>5, <1>6, <1>7
<1>9. \A i \in 1 .. 10 : lines[i].key = "m" => i = 2
  <2>1. lines[1].key # "m" /\ lines[8].key # "m"
    BY <1>3 DEF FmtpLine, Line
  <2>. QED  BY <1>3, <1>7, <2>1
<1>10. 1 \in 1 .. 2 - 1 /\ lines[1].key = "c"
  BY <1>3 DEF Line
<1>. QED  BY <1>4, <1>8, <1>9, <1>10 DEF Describes, session, lines

LEMMA DocumentDescribes ==
  ASSUME NEW d \in Documents
  PROVE  Describes(Lines(d), Declared(d))
<1> DEFINE session == Declared(d)
           Size(height) == Line("framesize", [payload |-> 96, width |-> 16, height |-> height])
           fmtp  == <<FmtpOf(d)>>
           rate  == IfAny(d.framerate, LAMBDA x : Line("framerate", x))
           size  == IfAny(d.framesize, Size)
           parts == <<fmtp, rate, size>>
           rest  == << Line("c", "C"), Line("m", [port |-> 5006, payload |-> 96, transport |-> "RTP/AVP"]),
                       Line("rtcp", 5007), Line("rtpmap", [payload |-> 96, encoding |-> "H264/90000"]),
                       Line("b", 4400), Line("ts-refclk", 26), Line("mediaclk", "direct=0") >>
           head  == parts[d.order[1]] \o parts[d.order[2]] \o parts[d.order[3]]
           Tells(S) == \A line \in S : TellsLine(line, session) /\ line.key # "m"
<1>1. Lines(d) = head \o rest
  BY DEF Lines
<1>2. /\ session.group = "C" /\ session.port = 5006
      /\ d.width # {} => session.width = Or(d.width, 0)
      /\ d.height # {} => session.height = Or(d.height, 0)
      /\ d.rate # {} => session.rate = Or(d.rate, 0)
  BY DEF Declared, Or
<1>3. d.order \in [1 .. 3 -> 1 .. 3]
  BY SetupAssumption
<1> HIDE DEF session
<1>4. TellsLine(FmtpOf(d), session) /\ FmtpOf(d).key # "m"
  <2> DEFINE width  == IfAny(d.width, LAMBDA x : Param("width", x))
             height == IfAny(d.height, LAMBDA x : Param("height", x))
             exact  == IfAny(d.rate, LAMBDA x : Param("exactframerate", x))
             others == << Param("maxudp", 1200), Param("constants", "expected"),
                          Param("profile-level-id", d.sps.level),
                          Param("sprop-parameter-sets", [sps |-> d.sps, pps |-> [sps_id |-> d.sps.id]]) >>
             params == width \o height \o exact \o others
             P == {Param("width", Or(d.width, 0)) : x \in d.width}
                  \cup {Param("height", Or(d.height, 0)) : x \in d.height}
                  \cup {Param("exactframerate", Or(d.rate, 0)) : x \in d.rate}
                  \cup {others[i] : i \in 1 .. 4}
  <2>1. /\ FmtpOf(d).key = "fmtp" /\ FmtpOf(d).value.params = params
        /\ "value" \in DOMAIN FmtpOf(d) /\ "params" \in DOMAIN FmtpOf(d).value
    BY ZenonT(60) DEF FmtpOf, Line
  <2>2. width \in Seq(P)
    <3>1. width = IF d.width = {} THEN <<>> ELSE <<Param("width", Or(d.width, 0))>>
      BY DEF IfAny
    <3>2. d.width # {} => Param("width", Or(d.width, 0)) \in P
      OBVIOUS
    <3> HIDE DEF P, width
    <3>. QED  BY <3>1, <3>2
  <2>3. height \in Seq(P)
    <3>1. height = IF d.height = {} THEN <<>> ELSE <<Param("height", Or(d.height, 0))>>
      BY DEF IfAny
    <3>2. d.height # {} => Param("height", Or(d.height, 0)) \in P
      OBVIOUS
    <3> HIDE DEF P, height
    <3>. QED  BY <3>1, <3>2
  <2>4. exact \in Seq(P)
    <3>1. exact = IF d.rate = {} THEN <<>> ELSE <<Param("exactframerate", Or(d.rate, 0))>>
      BY DEF IfAny
    <3>2. d.rate # {} => Param("exactframerate", Or(d.rate, 0)) \in P
      OBVIOUS
    <3> HIDE DEF P, exact
    <3>. QED  BY <3>1, <3>2
  <2>5. others \in Seq(P)
    OBVIOUS
  <2>6. \A p \in P : TellsParam(p, session)
    BY <1>2 DEF TellsParam, Param
  <2> HIDE DEF width, height, exact, others, P
  <2>7. params \in Seq(P)
    BY <2>2, <2>3, <2>4, <2>5
  <2>8. TellsParams(params, session)
    BY <2>6, <2>7 DEF TellsParams
  <2>. QED  BY <2>1, <2>8 DEF TellsLine
<1> DEFINE S == {FmtpOf(d)} \cup {Line("framerate", Or(d.framerate, 0)), Size(Or(d.framesize, 0))}
<1>5. Tells(S)
  <2>1. \A v : TellsLine(Line("framerate", v), session) /\ TellsLine(Line("framesize", v), session)
    BY DEF TellsLine, Line
  <2>2. \A v : Line("framerate", v).key # "m" /\ Line("framesize", v).key # "m"
    BY DEF Line
  <2>3. Size(Or(d.framesize, 0)) =
           Line("framesize", [payload |-> 96, width |-> 16, height |-> Or(d.framesize, 0)])
    OBVIOUS
  <2> HIDE DEF Size
  <2>. QED  BY <1>4, <2>1, <2>2, <2>3
<1>6. fmtp \in Seq(S) /\ rate \in Seq(S) /\ size \in Seq(S)
  <2>1. /\ rate = IF d.framerate = {} THEN <<>> ELSE <<Line("framerate", Or(d.framerate, 0))>>
        /\ size = IF d.framesize = {} THEN <<>> ELSE <<Size(Or(d.framesize, 0))>>
    BY DEF IfAny
  <2>2. {FmtpOf(d), Line("framerate", Or(d.framerate, 0)), Size(Or(d.framesize, 0))} \subseteq S
    OBVIOUS
  <2> HIDE DEF S, rate, size, Size
  <2>. QED  BY <2>1, <2>2
<1>7. \A i \in 1 .. 3 : parts[i] \in Seq(S)
  <2>1. parts[1] = fmtp /\ parts[2] = rate /\ parts[3] = size
    OBVIOUS
  <2> HIDE DEF S, parts, fmtp, rate, size
  <2>2. \A i \in 1 .. 3 : i = 1 \/ i = 2 \/ i = 3
    OBVIOUS
  <2>. QED  BY <1>6, <2>1, <2>2
<1> HIDE DEF S, parts
<1>8. head \in Seq(S)
  BY <1>3, <1>7
<1> DEFINE R == {rest[i] : i \in 1 .. 7}
<1>9. rest \in Seq(R) /\ Len(rest) = 7
  OBVIOUS
<1>10. \A line \in R : TellsLine(line, session)
  BY <1>2 DEF TellsLine, Line
<1>11. rest[1].key = "c" /\ \A i \in 1 .. 7 : rest[i].key = "m" => i = 2
  BY DEF Line
<1> HIDE DEF head, rest, R
<1> DEFINE lines == head \o rest
           n == Len(head)
<1>12. /\ n \in Nat /\ lines \in Seq(S \cup R) /\ Len(lines) = n + 7
       /\ \A i \in 1 .. n : lines[i] \in S
       /\ \A j \in 1 .. 7 : lines[n + j] = rest[j]
  <2>1. head \in Seq(S \cup R) /\ rest \in Seq(S \cup R) /\ n \in Nat
    BY <1>8, <1>9
  <2>2. lines \in Seq(S \cup R) /\ Len(lines) = Len(head) + Len(rest)
        /\ \A i \in 1 .. Len(head) + Len(rest) :
              lines[i] = IF i <= Len(head) THEN head[i] ELSE rest[i - Len(head)]
    BY <2>1, ConcatProperties
  <2>3. /\ Len(lines) = n + 7
        /\ \A i \in 1 .. n : i \in 1 .. n + 7 /\ i <= n
        /\ \A j \in 1 .. 7 : n + j \in 1 .. n + 7 /\ ~(n + j <= n) /\ (n + j) - n = j
        /\ \A i \in 1 .. n + 7 : lines[i] = IF i <= n THEN head[i] ELSE rest[i - n]
    BY <1>9, <2>1, <2>2
  <2>4. \A i \in 1 .. n : head[i] \in S
    BY <1>8
  <2>. QED  BY <2>1, <2>2, <2>3, <2>4
<1> HIDE DEF lines, n
<1>13. ASSUME NEW i \in 1 .. Len(lines), lines[i].key = "m"
       PROVE  \E j \in 1 .. i - 1 : lines[j].key = "c"
  <2>1. ~(i \in 1 .. n)
    BY <1>5, <1>12, <1>13
  <2>2. PICK j \in 1 .. 7 : i = n + j
    <3>1. n \in Nat /\ i \in 1 .. n + 7
      BY <1>12
    <3>2. i - n \in 1 .. 7 /\ i = n + (i - n)
      BY <2>1, <3>1
    <3>. QED  BY <3>2
  <2>3. \A k \in 1 .. 7 : lines[n + k] = rest[k]
    BY <1>12
  <2>4. j = 2
    <3>1. lines[n + j] = rest[j]
      BY <2>3
    <3>. QED  BY <1>11, <1>13, <2>2, <3>1
  <2>5. n + 1 \in 1 .. i - 1
    BY <1>12, <2>2, <2>4
  <2>6. 1 \in 1 .. 7
    OBVIOUS
  <2>7. lines[n + 1].key = "c"
    BY <1>11, <2>3, <2>6, Zenon
  <2>. QED  BY <2>5, <2>7
<1>14. Describes(lines, session)
  BY <1>5, <1>10, <1>12, <1>13 DEF Describes
<1>. QED  BY <1>1, <1>14 DEF lines, session

-----------------------------------------------------------------------------
(* A receiver joins a session that has been described, or none             *)

\* What is in the file describes a session that has been announced, and so does
\* what is still to be written.
FileInv ==
    /\ file = <<>> \/ \E session \in announced : Describes(file, session)
    /\ spc = "write" => text = MakeSdp(settings, sps, [sps_id |-> sps.id])
                        /\ DescribedSession \in announced
    /\ \A s \in announced : s = [group |-> s.group, port |-> s.port, width |-> s.width,
                                 height |-> s.height, rate |-> s.rate]
    /\ JoinsADescribedSession

LEMMA SessionIs ==
  ASSUME NEW d
  PROVE  Session(d) = [group |-> Session(d).group, port |-> Session(d).port,
                       width |-> Session(d).width, height |-> Session(d).height,
                       rate |-> Session(d).rate]
BY DEF Session

\* Writing, all or a part, leaves what describes the session in the file.
LEMMA WrittenDescribes ==
  ASSUME FileInv, spc = "write", file' \in Beginnings(text)
  PROVE  Describes(file', DescribedSession) /\ DescribedSession \in announced
<1>1. Describes(text, DescribedSession)
  BY MadeDescribes DEF FileInv, DescribedSession
<1>. QED  BY <1>1, BeginningDescribes DEF FileInv

\* A step of the sender that leaves the file, and what has been announced, alone.
LEMMA FileQuiet ==
  ASSUME FileInv, UNCHANGED <<file, announced, receiver>>, spc' # "write"
  PROVE  FileInv'
<1>1. UNCHANGED <<file, announced, rpc, description>>
  BY DEF receiver
<1>. QED  BY <1>1 DEF FileInv, JoinsADescribedSession

LEMMA FilePreserved == FileInv /\ [Next]_vars => FileInv'
<1> SUFFICES ASSUME FileInv, [Next]_vars PROVE FileInv'
  OBVIOUS
<1>1. CASE ParseOptions
  BY <1>1, FileQuiet DEF ParseOptions
<1>2. CASE OpenEncoder
  BY <1>2, FileQuiet DEF OpenEncoder
<1>3. CASE OpenSdp
  BY <1>3 DEF OpenSdp, receiver, FileInv, JoinsADescribedSession
<1>4. CASE FormatSdp
  <2>1. CASE spc' = "refused"
    BY <1>4, <2>1, FileQuiet DEF FormatSdp
  <2>2. CASE spc' # "refused"
    <3>1. /\ text' = MakeSdp(settings, sps, [sps_id |-> sps.id])
          /\ announced' = announced \cup {DescribedSession}
          /\ UNCHANGED <<settings, sps, file, rpc, description>>
      BY <1>4, <2>2 DEF FormatSdp, receiver
    <3>2. DescribedSession' = DescribedSession
      BY <3>1 DEF DescribedSession
    <3>3. file' = <<>> \/ \E session \in announced' : Describes(file', session)
      BY <3>1 DEF FileInv
    <3>4. \A s \in announced' : s = [group |-> s.group, port |-> s.port, width |-> s.width,
                                     height |-> s.height, rate |-> s.rate]
      BY <3>1, SessionIs DEF FileInv, DescribedSession
    <3>5. JoinsADescribedSession'
      BY <3>1 DEF FileInv, JoinsADescribedSession
    <3>6. text' = MakeSdp(settings', sps', [sps_id |-> sps'.id]) /\ DescribedSession' \in announced'
      BY <3>1, <3>2
    <3>. QED  BY <3>3, <3>4, <3>5, <3>6 DEF FileInv
  <2>. QED  BY <2>1, <2>2
<1>5. CASE WriteSdp
  <2>1. /\ spc = "write" /\ file' \in Beginnings(text) /\ spc' = "described"
        /\ UNCHANGED <<rpc, description, announced>>
    BY <1>5 DEF WriteSdp, receiver
  <2>2. Describes(file', DescribedSession) /\ DescribedSession \in announced
    BY <2>1, WrittenDescribes
  <2>. QED  BY <2>1, <2>2 DEF FileInv, JoinsADescribedSession
<1>6. CASE WritePart
  <2>1. /\ spc = "write" /\ file' \in Beginnings(text)
        /\ UNCHANGED <<spc, settings, sps, text, rpc, description, announced>>
    BY <1>6 DEF WritePart, sender, receiver
  <2>2. Describes(file', DescribedSession) /\ DescribedSession \in announced
    BY <2>1, WrittenDescribes
  <2>3. DescribedSession' = DescribedSession
    BY <2>1 DEF DescribedSession
  <2>. QED  BY <2>1, <2>2, <2>3 DEF FileInv, JoinsADescribedSession
<1>7. CASE SdpFails
  BY <1>7, FileQuiet DEF SdpFails
<1>8. CASE StartTransmitter
  BY <1>8, FileQuiet DEF StartTransmitter
<1>9. CASE FirstReport
  BY <1>9, FileQuiet DEF FirstReport
<1>10. CASE StartFails
  BY <1>10, FileQuiet DEF StartFails
<1>11. CASE SenderGone
  BY <1>11, FileQuiet DEF SenderGone
<1>12. CASE StartReceiver
  <2>1. UNCHANGED <<spc, settings, sps, text, file, announced>>
    BY <1>12 DEF StartReceiver, sender
  <2>2. JoinsADescribedSession'
    <3>1. CASE rpc' = "failed"
      BY <3>1 DEF JoinsADescribedSession
    <3>2. CASE rpc' # "failed"
      <4>1. Accepted(ReadSdp(file)) /\ description' = ReadSdp(file)
        BY <1>12, <3>2 DEF StartReceiver
      <4>2. file # <<>>
        <5>1. ASSUME file = <<>> PROVE FALSE
          <6>1. ReadSdp(file) = EmptyDescription
            BY <5>1, ReadSteps
          <6>2. ~EmptyDescription.media_seen
            BY DEF EmptyDescription
          <6>. QED  BY <4>1, <6>1, <6>2 DEF Accepted
        <5>. QED  BY <5>1
      <4>3. PICK session \in announced : Describes(file, session)
        BY <4>2 DEF FileInv
      <4>4. Session(ReadSdp(file)) = session
        BY <4>1, <4>3, AcceptedIsTheSession DEF FileInv
      <4>. QED  BY <2>1, <4>1, <4>3, <4>4 DEF JoinsADescribedSession
    <3>. QED  BY <3>1, <3>2
  <2>3. DescribedSession' = DescribedSession
    BY <2>1 DEF DescribedSession
  <2>. QED  BY <2>1, <2>2, <2>3 DEF FileInv
<1>13. CASE UNCHANGED vars
  BY <1>13 DEF vars, sender, receiver, FileInv, JoinsADescribedSession, DescribedSession
<1>. QED
  BY <1>1, <1>2, <1>3, <1>4, <1>5, <1>6, <1>7, <1>8, <1>9, <1>10, <1>11, <1>12, <1>13 DEF Next

\* In every state the file describes an announced session, or is empty, and what
\* is still to be written was made of the settings (main of the sender).
THEOREM FileInvariant == Spec => []FileInv
<1>1. Init => FileInv
  <2> SUFFICES ASSUME Init PROVE FileInv
    OBVIOUS
  <2>1. spc = "off" /\ rpc = "off"
    BY DEF Init
  <2>2. CASE file = <<>> /\ announced = {}
    BY <2>1, <2>2 DEF FileInv, JoinsADescribedSession
  <2>3. CASE \E d \in Documents : file = Lines(d) /\ announced = {Declared(d)}
    <3>1. PICK d \in Documents : file = Lines(d) /\ announced = {Declared(d)}
      BY <2>3
    <3>2. Describes(file, Declared(d))
      BY <3>1, DocumentDescribes
    <3>3. \A s \in announced : s = [group |-> s.group, port |-> s.port, width |-> s.width,
                                    height |-> s.height, rate |-> s.rate]
      BY <3>1 DEF Declared
    <3>. QED  BY <2>1, <3>1, <3>2, <3>3 DEF FileInv, JoinsADescribedSession
  <2>. QED  BY <2>2, <2>3 DEF Init
<1>. QED  BY <1>1, FilePreserved, PTL DEF Spec

\* Whenever a receiver reads the file, while a description is written, after a
\* crash, or while it is the one of another program, the session it joins is
\* one that has been described, as a whole (write_sdp writes in place,
\* read_sdp_description and validate_ipmx_sdp read).
THEOREM JoinsADescribedSessionHolds == Spec => []JoinsADescribedSession
<1>1. FileInv => JoinsADescribedSession
  BY DEF FileInv
<1>. QED  BY <1>1, FileInvariant, PTL

-----------------------------------------------------------------------------
(* A complete description is accepted *)

LEMMA FindTheOne ==
  ASSUME NEW params, NEW name, NEW k \in DOMAIN params, k \in Int, params[k].name = name,
         \A i \in DOMAIN params : i # k => params[i].name # name
  PROVE  Find(params, name) = {params[k].value}
<1> DEFINE at == {i \in DOMAIN params : params[i].name = name}
<1>1. at = {k}
  OBVIOUS
<1>2. Max({k}) = k
  BY DEF Max
<1>. QED  BY <1>1, <1>2 DEF Find

\* All fields but the named ones stay.
Keeps(e, d, changed) == DOMAIN e = Fields /\ \A f \in Fields \ changed : e[f] = d[f]

FmtpFields == {"fmtp_payload", "fmtp_width", "width", "fmtp_height", "height", "rate",
               "exact_frame_rate_seen", "max_udp", "constants", "level", "sps", "pps"}

FmtpSays(d, s, sets, pps) ==
    /\ d.fmtp_payload = {s.payload}
    /\ d.fmtp_width = {s.width} /\ d.width = s.width
    /\ d.fmtp_height = {s.height} /\ d.height = s.height
    /\ d.exact_frame_rate_seen /\ d.rate = s.rate
    /\ d.max_udp = s.max_udp /\ d.constants = "expected" /\ d.level = sets.level
    /\ d.sps = {sets} /\ d.pps = {pps}

\* What the parameters of a sender are read as.
LEMMA FmtpIsRead ==
  ASSUME NEW d, DOMAIN d = Fields, NEW s, NEW sets, NEW pps, s.rate.num # 0, s.rate.den # 0
  PROVE  /\ Keeps(ReadFmtp(d, FmtpLine(s, sets, pps).value), d, FmtpFields)
         /\ FmtpSays(ReadFmtp(d, FmtpLine(s, sets, pps).value), s, sets, pps)
<1> DEFINE params == << Param("width", s.width), Param("height", s.height),
                        Param("exactframerate", s.rate),
                        Param("maxudp", s.max_udp),
                        Param("constants", "expected"),
                        Param("profile-level-id", sets.level),
                        Param("sprop-parameter-sets", [sps |-> sets, pps |-> pps]) >>
           fmtp == FmtpLine(s, sets, pps).value
<1>1. fmtp.params = params /\ fmtp.payload = s.payload
  BY DEF FmtpLine, Line
<1>2. DOMAIN params = 1 .. 7
  OBVIOUS
<1>3. /\ params[1].name = "width" /\ params[2].name = "height" /\ params[3].name = "exactframerate"
      /\ params[4].name = "maxudp" /\ params[5].name = "constants"
      /\ params[6].name = "profile-level-id" /\ params[7].name = "sprop-parameter-sets"
  BY DEF Param
<1>4. /\ params[1].value = s.width /\ params[2].value = s.height /\ params[3].value = s.rate
      /\ params[4].value = s.max_udp /\ params[5].value = "expected"
      /\ params[6].value = sets.level /\ params[7].value = [sps |-> sets, pps |-> pps]
  BY DEF Param
<1> HIDE DEF params, fmtp
<1>5. \A i \in 1 .. 7 : i = 1 \/ i = 2 \/ i = 3 \/ i = 4 \/ i = 5 \/ i = 6 \/ i = 7
  OBVIOUS
<1>6. \A k \in 1 .. 7 : k \in Int /\ \A i \in 1 .. 7 : i # k => params[i].name # params[k].name
  BY <1>3, <1>5
<1>7. \A k \in 1 .. 7 : Find(params, params[k].name) = {params[k].value}
  BY <1>2, <1>6, FindTheOne
<1>8. /\ Find(params, "width") = {s.width} /\ Find(params, "height") = {s.height}
      /\ Find(params, "exactframerate") = {s.rate} /\ Find(params, "maxudp") = {s.max_udp}
      /\ Find(params, "constants") = {"expected"} /\ Find(params, "profile-level-id") = {sets.level}
      /\ Find(params, "sprop-parameter-sets") = {[sps |-> sets, pps |-> pps]}
  BY <1>3, <1>4, <1>7
<1>9. \A v, w : Or({v}, w) = v
  BY DEF Or
<1> DEFINE width  == Find(params, "width")
           height == Find(params, "height")
           rate   == Find(params, "exactframerate")
           parameter_sets == Find(params, "sprop-parameter-sets")
<1>10. ~(rate # {} /\ (Or(rate, 0).num = 0 \/ Or(rate, 0).den = 0))
  BY <1>8, <1>9, ZenonT(60)
<1>11. /\ \A v : (IF width = {} THEN v ELSE width) = {s.width} /\ Or(width, v) = s.width
       /\ \A v : (IF height = {} THEN v ELSE height) = {s.height} /\ Or(height, v) = s.height
       /\ \A v : Or(rate, v) = s.rate
       /\ rate # {}
       /\ \A v : Or(Find(params, "maxudp"), v) = s.max_udp
       /\ \A v : Or(Find(params, "constants"), v) = "expected"
       /\ \A v : Or(Find(params, "profile-level-id"), v) = sets.level
       /\ \A v : (IF parameter_sets = {} THEN v ELSE {Or(parameter_sets, 0).sps}) = {sets}
       /\ \A v : (IF parameter_sets = {} THEN v ELSE {Or(parameter_sets, 0).pps}) = {pps}
  <2>2. parameter_sets # {} /\ Or(parameter_sets, 0) = [sps |-> sets, pps |-> pps]
    BY <1>8, <1>9
  <2>3. /\ width # {} /\ height # {} /\ rate # {}
        /\ width = {s.width} /\ height = {s.height} /\ rate = {s.rate}
    BY <1>8
  <2> HIDE DEF width, height, rate, parameter_sets
  <2>4. \A v : (IF width = {} THEN v ELSE width) = {s.width} /\ Or(width, v) = s.width
    BY <1>9, <2>3
  <2>5. \A v : (IF height = {} THEN v ELSE height) = {s.height} /\ Or(height, v) = s.height
    BY <1>9, <2>3
  <2>6. \A v : Or(rate, v) = s.rate
    BY <1>9, <2>3
  <2>7. /\ \A v : Or(Find(params, "maxudp"), v) = s.max_udp
        /\ \A v : Or(Find(params, "constants"), v) = "expected"
        /\ \A v : Or(Find(params, "profile-level-id"), v) = sets.level
    BY <1>8, <1>9
  <2>8. Or(parameter_sets, 0).sps = sets /\ Or(parameter_sets, 0).pps = pps
    BY <2>2
  <2>9. /\ \A v : (IF parameter_sets = {} THEN v ELSE {Or(parameter_sets, 0).sps}) = {sets}
        /\ \A v : (IF parameter_sets = {} THEN v ELSE {Or(parameter_sets, 0).pps}) = {pps}
    BY <2>2, <2>8
  <2>. QED  BY <2>3, <2>4, <2>5, <2>6, <2>7, <2>9
<1>12. ReadFmtp(d, fmtp) =
          [d EXCEPT !.fmtp_payload = {s.payload},
                    !.fmtp_width   = IF width = {} THEN @ ELSE width,
                    !.width        = Or(width, @),
                    !.fmtp_height  = IF height = {} THEN @ ELSE height,
                    !.height       = Or(height, @),
                    !.rate         = Or(rate, @),
                    !.exact_frame_rate_seen = (@ \/ rate # {}),
                    !.max_udp      = Or(Find(params, "maxudp"), @),
                    !.constants    = Or(Find(params, "constants"), @),
                    !.level        = Or(Find(params, "profile-level-id"), @),
                    !.sps = IF parameter_sets = {} THEN @ ELSE {Or(parameter_sets, 0).sps},
                    !.pps = IF parameter_sets = {} THEN @ ELSE {Or(parameter_sets, 0).pps}]
  BY <1>1, <1>10 DEF ReadFmtp
<1> HIDE DEF width, height, rate, parameter_sets
<1> DEFINE e == ReadFmtp(d, fmtp)
<1>13. e = [d EXCEPT !.fmtp_payload = {s.payload},
                     !.fmtp_width = {s.width}, !.width = s.width,
                     !.fmtp_height = {s.height}, !.height = s.height,
                     !.rate = s.rate, !.exact_frame_rate_seen = TRUE,
                     !.max_udp = s.max_udp, !.constants = "expected",
                     !.level = sets.level, !.sps = {sets}, !.pps = {pps}]
  BY <1>11, <1>12, ZenonT(60)
<1> HIDE DEF e
<1>14. DOMAIN e = Fields
  BY <1>13
<1>15. FmtpFields \subseteq Fields
  BY DEF FmtpFields, Fields, EmptyDescription
<1>16. /\ e.fmtp_payload = {s.payload}
       /\ e.fmtp_width = {s.width} /\ e.width = s.width
       /\ e.fmtp_height = {s.height} /\ e.height = s.height
       /\ e.exact_frame_rate_seen /\ e.rate = s.rate
       /\ e.max_udp = s.max_udp /\ e.constants = "expected" /\ e.level = sets.level
       /\ e.sps = {sets} /\ e.pps = {pps}
  BY <1>13, <1>15 DEF FmtpFields
<1>17. \A f \in Fields \ FmtpFields : e[f] = d[f]
  BY <1>13 DEF FmtpFields
<1>. QED  BY <1>14, <1>16, <1>17 DEF Keeps, FmtpSays, e, fmtp

\* What the other lines change, and to what.
LEMMA LineIsRead ==
  ASSUME NEW d, DOMAIN d = Fields, NEW line
  PROVE  /\ line.key = "c" => /\ Keeps(ReadLine(d, line), d, {"group"})
                              /\ ReadLine(d, line).group = line.value
         /\ line.key = "b" /\ line.value # 0 =>
               /\ Keeps(ReadLine(d, line), d, {"ip_bitrate"})
               /\ ReadLine(d, line).ip_bitrate = line.value
         /\ line.key = "rtcp" => /\ Keeps(ReadLine(d, line), d, {"rtcp_port"})
                                 /\ ReadLine(d, line).rtcp_port = {line.value}
         /\ line.key = "rtpmap" => /\ Keeps(ReadLine(d, line), d, {"rtpmap"})
                                   /\ ReadLine(d, line).rtpmap = {line.value}
         /\ line.key = "ts-refclk" => /\ Keeps(ReadLine(d, line), d, {"ts_refclk"})
                                      /\ ReadLine(d, line).ts_refclk = line.value
         /\ line.key = "mediaclk" => /\ Keeps(ReadLine(d, line), d, {"media_clock"})
                                     /\ ReadLine(d, line).media_clock = line.value
<1> DEFINE e == ReadLine(d, line)
<1>0. {"group", "ip_bitrate", "rtcp_port", "rtpmap", "ts_refclk", "media_clock"} \subseteq Fields
  BY DEF Fields, EmptyDescription
<1>1. \A f \in Fields : \A v : /\ Keeps([d EXCEPT ![f] = v], d, {f})
                               /\ [d EXCEPT ![f] = v][f] = v
  BY DEF Keeps
<1>2. ASSUME line.key = "c" PROVE Keeps(e, d, {"group"}) /\ e.group = line.value
  <2>1. e = [d EXCEPT !["group"] = line.value]
    BY <1>2 DEF ReadLine
  <2>. HIDE DEF e
  <2>. QED  BY <1>0, <1>1, <2>1
<1>3. ASSUME line.key = "b", line.value # 0
      PROVE  Keeps(e, d, {"ip_bitrate"}) /\ e.ip_bitrate = line.value
  <2>1. e = [d EXCEPT !["ip_bitrate"] = line.value]
    BY <1>3 DEF ReadLine
  <2>. HIDE DEF e
  <2>. QED  BY <1>0, <1>1, <2>1
<1>4. ASSUME line.key = "rtcp" PROVE Keeps(e, d, {"rtcp_port"}) /\ e.rtcp_port = {line.value}
  <2>1. e = [d EXCEPT !["rtcp_port"] = {line.value}]
    BY <1>4 DEF ReadLine
  <2>. HIDE DEF e
  <2>. QED  BY <1>0, <1>1, <2>1
<1>5. ASSUME line.key = "rtpmap" PROVE Keeps(e, d, {"rtpmap"}) /\ e.rtpmap = {line.value}
  <2>1. e = [d EXCEPT !["rtpmap"] = {line.value}]
    BY <1>5 DEF ReadLine
  <2>. HIDE DEF e
  <2>. QED  BY <1>0, <1>1, <2>1
<1>6. ASSUME line.key = "ts-refclk" PROVE Keeps(e, d, {"ts_refclk"}) /\ e.ts_refclk = line.value
  <2>1. e = [d EXCEPT !["ts_refclk"] = line.value]
    BY <1>6 DEF ReadLine
  <2>. HIDE DEF e
  <2>. QED  BY <1>0, <1>1, <2>1
<1>7. ASSUME line.key = "mediaclk" PROVE Keeps(e, d, {"media_clock"}) /\ e.media_clock = line.value
  <2>1. e = [d EXCEPT !["media_clock"] = line.value]
    BY <1>7 DEF ReadLine
  <2>. HIDE DEF e
  <2>. QED  BY <1>0, <1>1, <2>1
<1> HIDE DEF e
<1>. QED  BY <1>2, <1>3, <1>4, <1>5, <1>6, <1>7 DEF e

WithMedia(d, port, payload) ==
    [d EXCEPT !.port = port, !.payload = payload, !.media_seen = TRUE]

LEMMA MediaFields ==
  ASSUME NEW d, DOMAIN d = Fields, NEW port, NEW payload
  PROVE  /\ Keeps(WithMedia(d, port, payload), d, {"port", "payload", "media_seen"})
         /\ WithMedia(d, port, payload).port = port
         /\ WithMedia(d, port, payload).payload = payload
         /\ WithMedia(d, port, payload).media_seen
<1> DEFINE all == WithMedia(d, port, payload)
<1>1. {"port", "payload", "media_seen"} \subseteq Fields
  BY DEF Fields, EmptyDescription
<1>2. DOMAIN all = Fields
  BY DEF WithMedia
<1>3. all.port = port /\ all.payload = payload /\ all.media_seen
  BY <1>1 DEF WithMedia
<1>4. \A f \in Fields \ {"port", "payload", "media_seen"} : all[f] = d[f]
  BY DEF WithMedia
<1>. QED  BY <1>2, <1>3, <1>4 DEF Keeps

LEMMA MediaIsRead ==
  ASSUME NEW d, DOMAIN d = Fields, NEW line, line.key = "m", line.value.transport = "RTP/AVP",
         ~(line.value.port > 65535), ~(line.value.payload > 127)
  PROVE  /\ Keeps(ReadLine(d, line), d, {"port", "payload", "media_seen"})
         /\ ReadLine(d, line).port = line.value.port
         /\ ReadLine(d, line).payload = line.value.payload
         /\ ReadLine(d, line).media_seen
<1> DEFINE e == ReadLine(d, line)
<1>0. {"port", "payload", "media_seen"} \subseteq Fields
  BY DEF Fields, EmptyDescription
<1>1. e = ReadMedia(d, line.value)
  BY DEF ReadLine
<1> DEFINE seen   == line.value.transport = "RTP/AVP"
           throws == line.value.port > 65535 \/ line.value.payload > 127
           no     == [d EXCEPT !.throws = TRUE]
           yes    == [d EXCEPT !.port = line.value.port, !.payload = line.value.payload,
                               !.media_seen = seen]
           all    == WithMedia(d, line.value.port, line.value.payload)
<1>2. ~throws
  OBVIOUS
<1>3. seen = TRUE
  OBVIOUS
<1>4. e = IF throws THEN no ELSE yes
  BY <1>1 DEF ReadMedia
<1> HIDE DEF seen
<1>5. yes = all
  BY <1>3 DEF WithMedia
<1> HIDE DEF e, throws, no, yes, all
<1>6. e = all
  BY <1>2, <1>4, <1>5
<1>. QED  BY <1>6, MediaFields DEF e, all

LEMMA FramesizeIsRead ==
  ASSUME NEW d, DOMAIN d = Fields, NEW line, line.key = "framesize", d.width # 0, d.height # 0
  PROVE  /\ Keeps(ReadLine(d, line), d, {"framesize"})
         /\ ReadLine(d, line).framesize = {line.value}
<1> DEFINE e == ReadLine(d, line)
<1>0. {"framesize", "width", "height"} \subseteq Fields
  BY DEF Fields, EmptyDescription
<1>1. e = ReadFramesize(d, line.value)
  BY DEF ReadLine
<1>2. e = [d EXCEPT !.framesize = {line.value},
                    !.width  = IF @ = 0 THEN line.value.width ELSE @,
                    !.height = IF @ = 0 THEN line.value.height ELSE @]
  BY <1>1 DEF ReadFramesize
<1> HIDE DEF e
<1>3. DOMAIN e = Fields /\ e.framesize = {line.value}
  BY <1>0, <1>2
<1>4. e.width = d.width /\ e.height = d.height
  BY <1>0, <1>2
<1>5. \A f \in Fields \ {"framesize", "width", "height"} : e[f] = d[f]
  BY <1>2
<1>6. \A f \in Fields \ {"framesize"} : e[f] = d[f]
  BY <1>4, <1>5
<1>. QED  BY <1>3, <1>6 DEF Keeps, e

LEMMA LineReaders ==
  ASSUME NEW d, NEW line
  PROVE  /\ line.key = "fmtp" => ReadLine(d, line) = ReadFmtp(d, line.value)
         /\ line.key = "framerate" => ReadLine(d, line) = ReadFramerate(d, line.value)
         /\ line.key = "framesize" => ReadLine(d, line) = ReadFramesize(d, line.value)
<1>1. ASSUME line.key = "fmtp" PROVE ReadLine(d, line) = ReadFmtp(d, line.value)
  BY <1>1 DEF ReadLine
<1>2. ASSUME line.key = "framerate" PROVE ReadLine(d, line) = ReadFramerate(d, line.value)
  BY <1>2 DEF ReadLine
<1>3. ASSUME line.key = "framesize" PROVE ReadLine(d, line) = ReadFramesize(d, line.value)
  BY <1>3 DEF ReadLine
<1>. QED  BY <1>1, <1>2, <1>3

\* The lines of a description, read one after the other.
LEMMA CompleteIsRead ==
  ASSUME NEW s, NEW sets, NEW pps, s.rate.num # 0, s.rate.den # 0, s.ip_bitrate # 0,
         s.width # 0, s.height # 0, ~(s.port > 65535), ~(s.payload > 127)
  PROVE  /\ FmtpSays(ReadSdp(MakeSdp(s, sets, pps)), s, sets, pps)
         /\ ~ReadSdp(MakeSdp(s, sets, pps)).throws
         /\ ReadSdp(MakeSdp(s, sets, pps)).group = s.group
         /\ ReadSdp(MakeSdp(s, sets, pps)).media_seen
         /\ ReadSdp(MakeSdp(s, sets, pps)).port = s.port
         /\ ReadSdp(MakeSdp(s, sets, pps)).payload = s.payload
         /\ ReadSdp(MakeSdp(s, sets, pps)).ip_bitrate = s.ip_bitrate
         /\ ReadSdp(MakeSdp(s, sets, pps)).rtcp_port = {s.port + 1}
         /\ ReadSdp(MakeSdp(s, sets, pps)).ts_refclk = s.ts_refclk
         /\ ReadSdp(MakeSdp(s, sets, pps)).media_clock = s.media_clock
         /\ ReadSdp(MakeSdp(s, sets, pps)).rtpmap =
               {[payload |-> s.payload, encoding |-> "H264/90000"]}
         /\ ReadSdp(MakeSdp(s, sets, pps)).framesize =
               {[payload |-> s.payload, width |-> s.width, height |-> s.height]}
<1> DEFINE lines  == MakeSdp(s, sets, pps)
           read   == Read(lines)
           media  == [port |-> s.port, payload |-> s.payload, transport |-> "RTP/AVP"]
           rtpmap == [payload |-> s.payload, encoding |-> "H264/90000"]
           fmtp   == FmtpLine(s, sets, pps).value
           size   == [payload |-> s.payload, width |-> s.width, height |-> s.height]
<1>1. /\ Len(lines) = 10
      /\ lines[1] = Line("c", s.group)
      /\ lines[2] = Line("m", media)
      /\ lines[3] = Line("b", s.ip_bitrate) /\ lines[4] = Line("rtcp", s.port + 1)
      /\ lines[5] = Line("ts-refclk", s.ts_refclk) /\ lines[6] = Line("mediaclk", s.media_clock)
      /\ lines[7] = Line("rtpmap", rtpmap)
      /\ lines[8] = FmtpLine(s, sets, pps)
      /\ lines[9] = Line("framerate", Thousandths(s.rate))
      /\ lines[10] = Line("framesize", size)
  BY DEF MakeSdp
<1>2. \A k, v : Line(k, v).key = k /\ Line(k, v).value = v
  BY DEF Line
<1>3. FmtpLine(s, sets, pps).key = "fmtp"
  BY DEF FmtpLine, Line
<1>4. media.port = s.port /\ media.payload = s.payload /\ media.transport = "RTP/AVP"
  OBVIOUS
<1> HIDE DEF lines, media, rtpmap, fmtp, size
<1>5. /\ lines[1].key = "c" /\ lines[1].value = s.group
      /\ lines[2].key = "m" /\ lines[2].value = media
      /\ lines[3].key = "b" /\ lines[3].value = s.ip_bitrate
      /\ lines[4].key = "rtcp" /\ lines[4].value = s.port + 1
      /\ lines[5].key = "ts-refclk" /\ lines[5].value = s.ts_refclk
      /\ lines[6].key = "mediaclk" /\ lines[6].value = s.media_clock
      /\ lines[7].key = "rtpmap" /\ lines[7].value = rtpmap
      /\ lines[8].key = "fmtp" /\ lines[8].value = fmtp
      /\ lines[9].key = "framerate"
      /\ lines[10].key = "framesize" /\ lines[10].value = size
  BY <1>1, <1>2, <1>3 DEF fmtp
<1>6. /\ read[0] = EmptyDescription /\ ReadSdp(lines) = read[10]
      /\ \A n \in 1 .. 10 : read[n] = ReadLine(read[n - 1], lines[n])
  <2>1. Len(lines) \in Nat
    BY <1>1
  <2>2. /\ Read(lines)[0] = EmptyDescription
        /\ \A n \in 1 .. Len(lines) : Read(lines)[n] = ReadLine(Read(lines)[n - 1], lines[n])
        /\ ReadSdp(lines) = Read(lines)[Len(lines)]
    BY <2>1, ReadSteps
  <2>. QED  BY <1>1, <2>2
<1> HIDE DEF read
<1>7. /\ read[1] = ReadLine(read[0], lines[1]) /\ read[2] = ReadLine(read[1], lines[2])
      /\ read[3] = ReadLine(read[2], lines[3]) /\ read[4] = ReadLine(read[3], lines[4])
      /\ read[5] = ReadLine(read[4], lines[5]) /\ read[6] = ReadLine(read[5], lines[6])
      /\ read[7] = ReadLine(read[6], lines[7]) /\ read[8] = ReadLine(read[7], lines[8])
      /\ read[9] = ReadLine(read[8], lines[9]) /\ read[10] = ReadLine(read[9], lines[10])
  <2>1. \A n \in 1 .. 10 : read[n] = ReadLine(read[n - 1], lines[n])
    BY <1>6
  <2>. QED  BY <2>1
<1>8. DOMAIN read[0] = Fields /\ ~read[0].throws
  <2>1. DOMAIN EmptyDescription = Fields
    BY DEF Fields
  <2>2. ~EmptyDescription.throws
    BY DEF EmptyDescription
  <2>. QED  BY <1>6, <2>1, <2>2
<1>9. {"group", "port", "payload", "ip_bitrate", "ts_refclk", "media_clock", "media_seen",
       "rtcp_port", "rtpmap", "framesize", "throws"} \cup FmtpFields \subseteq Fields
  BY DEF Fields, EmptyDescription, FmtpFields
<1>10. Keeps(read[1], read[0], {"group"}) /\ read[1].group = s.group
  BY <1>5, <1>7, <1>8, LineIsRead
<1>11. /\ Keeps(read[2], read[1], {"port", "payload", "media_seen"})
       /\ read[2].port = s.port /\ read[2].payload = s.payload /\ read[2].media_seen
  <2>1. DOMAIN read[1] = Fields
    BY <1>10 DEF Keeps
  <2>. QED  BY <1>4, <1>5, <1>7, <2>1, MediaIsRead
<1>12. Keeps(read[3], read[2], {"ip_bitrate"}) /\ read[3].ip_bitrate = s.ip_bitrate
  <2>1. DOMAIN read[2] = Fields
    BY <1>11 DEF Keeps
  <2>. QED  BY <1>5, <1>7, <2>1, LineIsRead
<1>13. Keeps(read[4], read[3], {"rtcp_port"}) /\ read[4].rtcp_port = {s.port + 1}
  <2>1. DOMAIN read[3] = Fields
    BY <1>12 DEF Keeps
  <2>. QED  BY <1>5, <1>7, <2>1, LineIsRead
<1>14. Keeps(read[5], read[4], {"ts_refclk"}) /\ read[5].ts_refclk = s.ts_refclk
  <2>1. DOMAIN read[4] = Fields
    BY <1>13 DEF Keeps
  <2>. QED  BY <1>5, <1>7, <2>1, LineIsRead
<1>15. Keeps(read[6], read[5], {"media_clock"}) /\ read[6].media_clock = s.media_clock
  <2>1. DOMAIN read[5] = Fields
    BY <1>14 DEF Keeps
  <2>. QED  BY <1>5, <1>7, <2>1, LineIsRead
<1>16. Keeps(read[7], read[6], {"rtpmap"}) /\ read[7].rtpmap = {rtpmap}
  <2>1. DOMAIN read[6] = Fields
    BY <1>15 DEF Keeps
  <2>. QED  BY <1>5, <1>7, <2>1, LineIsRead
<1>17. Keeps(read[8], read[7], FmtpFields) /\ FmtpSays(read[8], s, sets, pps)
  <2>1. DOMAIN read[7] = Fields
    BY <1>16 DEF Keeps
  <2>2. read[8] = ReadFmtp(read[7], FmtpLine(s, sets, pps).value)
    BY <1>5, <1>7, LineReaders DEF fmtp
  <2>. QED  BY <2>1, <2>2, FmtpIsRead
<1>18. read[9] = read[8]
  <2>1. read[9] = ReadFramerate(read[8], lines[9].value)
    BY <1>5, <1>7, LineReaders
  <2>2. read[8].exact_frame_rate_seen
    BY <1>17 DEF FmtpSays
  <2>. QED  BY <2>1, <2>2 DEF ReadFramerate
<1>19. Keeps(read[10], read[8], {"framesize"}) /\ read[10].framesize = {size}
  <2>1. DOMAIN read[9] = Fields
    BY <1>17, <1>18 DEF Keeps
  <2>2. read[9].width # 0 /\ read[9].height # 0
    BY <1>17, <1>18 DEF FmtpSays
  <2>3. Keeps(read[10], read[9], {"framesize"}) /\ read[10].framesize = {size}
    BY <1>5, <1>7, <2>1, <2>2, FramesizeIsRead
  <2>. QED  BY <1>18, <2>3
<1>20. FmtpSays(read[10], s, sets, pps)
  <2>1. \A f \in FmtpFields : read[10][f] = read[8][f]
    BY <1>9, <1>19 DEF Keeps, FmtpFields
  <2>. QED  BY <1>17, <2>1 DEF FmtpSays, FmtpFields
<1>21. \A f \in {"group", "port", "payload", "ip_bitrate", "ts_refclk", "media_clock", "media_seen",
                 "rtcp_port", "rtpmap", "throws"} : read[10][f] = read[7][f]
  BY <1>9, <1>17, <1>19 DEF Keeps, FmtpFields
<1>22. \A f \in {"group", "port", "payload", "ip_bitrate", "media_seen", "rtcp_port", "throws"} :
          read[7][f] = read[4][f]
  BY <1>9, <1>14, <1>15, <1>16 DEF Keeps
<1>23. read[7].ts_refclk = s.ts_refclk /\ read[7].media_clock = s.media_clock
  BY <1>9, <1>14, <1>15, <1>16 DEF Keeps
<1>24. \A f \in {"group", "port", "payload", "media_seen", "throws"} : read[4][f] = read[2][f]
  BY <1>9, <1>12, <1>13 DEF Keeps
<1>25. read[4].ip_bitrate = s.ip_bitrate
  BY <1>9, <1>12, <1>13 DEF Keeps
<1>26. read[2].group = s.group /\ read[2].throws = read[0].throws
  BY <1>9, <1>10, <1>11 DEF Keeps
<1>27. /\ ~read[10].throws /\ read[10].group = s.group
       /\ read[10].media_seen /\ read[10].port = s.port /\ read[10].payload = s.payload
  BY <1>8, <1>11, <1>21, <1>22, <1>24, <1>26
<1>28. /\ read[10].ip_bitrate = s.ip_bitrate /\ read[10].rtcp_port = {s.port + 1}
       /\ read[10].ts_refclk = s.ts_refclk /\ read[10].media_clock = s.media_clock
       /\ read[10].rtpmap = {rtpmap}
  BY <1>13, <1>16, <1>21, <1>22, <1>23, <1>25
<1>. QED  BY <1>6, <1>19, <1>20, <1>27, <1>28 DEF lines, rtpmap, size

LEMMA PortFits ==
  ASSUME NEW port, IsValidMediaPort(port), port \in Nat
  PROVE  ~(port > 65535)
BY DEF IsValidMediaPort

\* What the checks let through is accepted by every receiver.
LEMMA MadeIsAccepted ==
  ASSUME NEW s, NEW sets, CheckedOptions(s), EncoderAccepts(s, sets)
  PROVE  /\ Accepted(ReadSdp(MakeSdp(s, sets, [sps_id |-> sets.id])))
         /\ Session(ReadSdp(MakeSdp(s, sets, [sps_id |-> sets.id]))) = Session(s)
<1> DEFINE pps == [sps_id |-> sets.id]
           d   == ReadSdp(MakeSdp(s, sets, pps))
<1>1. /\ s.rate.num # 0 /\ s.rate.den # 0 /\ s.width # 0 /\ s.height # 0
      /\ ConformingSps(sets, s.width, s.height, s.rate)
  BY DEF EncoderAccepts, Even
<1>2. /\ s.port \in Nat /\ IsValidMediaPort(s.port) /\ s.payload = 96
      /\ s.ts_refclk # 0 /\ s.media_clock = "direct=0"
      /\ s.max_udp \in MinUdpBytes .. MaxUdpBytes
      /\ s.bitrate \in Nat /\ s.ip_bitrate \in Nat /\ s.bitrate # 0
      /\ s.ip_bitrate >= MinimumIpBitrate(s.bitrate, s.max_udp)
  BY DEF CheckedOptions
<1>3. s.ip_bitrate # 0
  <2>1. /\ MinimumIpBitrate(s.bitrate, s.max_udp) \in Nat
        /\ MinimumIpBitrate(s.bitrate, s.max_udp) >= s.bitrate
    BY <1>2, MinimumIpBitrateIsNumber
  <2>. QED  BY <1>2, <2>1
<1>4. ~(s.port > 65535) /\ ~(s.payload > 127)
  BY <1>2, PortFits
<1>5. /\ FmtpSays(d, s, sets, pps)
      /\ ~d.throws /\ d.group = s.group /\ d.media_seen /\ d.port = s.port /\ d.payload = s.payload
      /\ d.ip_bitrate = s.ip_bitrate /\ d.rtcp_port = {s.port + 1}
      /\ d.ts_refclk = s.ts_refclk /\ d.media_clock = s.media_clock
      /\ d.rtpmap = {[payload |-> s.payload, encoding |-> "H264/90000"]}
      /\ d.framesize = {[payload |-> s.payload, width |-> s.width, height |-> s.height]}
  BY <1>1, <1>3, <1>4, CompleteIsRead
<1> HIDE DEF d, pps
<1>6. /\ d.fmtp_payload = {d.payload}
      /\ d.fmtp_width = {d.width} /\ d.width = s.width
      /\ d.fmtp_height = {d.height} /\ d.height = s.height
      /\ d.exact_frame_rate_seen /\ d.rate = s.rate
      /\ d.max_udp = s.max_udp /\ d.constants = "expected" /\ d.level = sets.level
      /\ d.sps = {sets} /\ d.pps = {pps}
  BY <1>5 DEF FmtpSays
<1>7. \A framesize \in d.framesize : Agrees(framesize, d)
  BY <1>5, <1>6 DEF Agrees
<1>8. /\ d.fmtp_width \notin {{}, {0}} /\ d.fmtp_height \notin {{}, {0}}
  BY <1>1, <1>6
<1>9. \A sps1 \in d.sps : d.level = sps1.level /\ ConformingSps(sps1, d.width, d.height, d.rate)
  BY <1>1, <1>6
<1>10. Accepted(d)
  <2>1. ~d.throws /\ d.media_seen /\ d.ip_bitrate # 0 /\ IsValidMediaPort(d.port)
    BY <1>2, <1>3, <1>5
  <2>2. /\ d.rtcp_port = {d.port + 1}
        /\ d.rtpmap = {[payload |-> d.payload, encoding |-> "H264/90000"]}
        /\ d.fmtp_payload = {d.payload}
    BY <1>5, <1>6
  <2>3. /\ d.max_udp \in MinUdpBytes .. MaxUdpBytes
        /\ d.ts_refclk # 0 /\ d.media_clock \in {"direct=0", "sender/direct=0"}
    BY <1>2, <1>5, <1>6
  <2>4. d.sps # {} /\ d.pps # {}
    BY <1>6
  <2>. QED  BY <1>6, <1>7, <1>8, <1>9, <2>1, <2>2, <2>3, <2>4, Zenon DEF Accepted
<1>11. Session(d) = Session(s)
  BY <1>5, <1>6 DEF Session
<1>. QED  BY <1>10, <1>11 DEF d, pps

\* A description that is written as a whole is accepted by every receiver, and what
\* a receiver takes from it is the session that the sender made it for
\* (make_sdp, and read_sdp_description with validate_ipmx_sdp).
THEOREM CompleteIsAcceptedHolds == Spec => []CompleteIsAccepted
<1>1. SetupInv /\ FileInv => CompleteIsAccepted
  <2> SUFFICES ASSUME SetupInv, FileInv, spc = "write"
               PROVE  Accepted(ReadSdp(text)) /\ Session(ReadSdp(text)) = DescribedSession
    BY DEF CompleteIsAccepted
  <2>1. CheckedOptions(settings) /\ EncoderAccepts(settings, sps)
    BY DEF SetupInv
  <2>2. text = MakeSdp(settings, sps, [sps_id |-> sps.id])
    BY DEF FileInv
  <2>. QED  BY <2>1, <2>2, MadeIsAccepted DEF DescribedSession
<1>. QED  BY <1>1, SetupInvariant, FileInvariant, PTL

-----------------------------------------------------------------------------
(* The order of the lines of another program's description does not matter *)

\* The numbers of a description: 0, which the reader takes for a missing one, is none.
DocumentsAreNumbered ==
    \A d \in Documents :
       /\ \A optional \in {d.width, d.height, d.rate, d.framerate, d.framesize} :
             \A x, y \in optional : x = y
       /\ 0 \notin d.width /\ 0 \notin d.height
       /\ \A r \in d.rate : r.num # 0 /\ r.den # 0
       /\ \A x \in d.framerate : ~(x = 0 \/ x > 1000000)

\* The lines of document d.
ExactLine(line, d) ==
    /\ line.key \in {"c", "m", "b", "rtcp", "rtpmap", "fmtp", "framesize", "framerate",
                     "ts-refclk", "mediaclk"}
    /\ line.key = "c" => line.value = "C"
    /\ line.key = "m" => /\ line.value.port = 5006 /\ line.value.transport = "RTP/AVP"
                         /\ ~(line.value.port > 65535) /\ ~(line.value.payload > 127)
    /\ line.key = "b" => line.value # 0
    /\ line.key = "fmtp" => /\ Find(line.value.params, "width") = d.width
                            /\ Find(line.value.params, "height") = d.height
                            /\ Find(line.value.params, "exactframerate") = d.rate
    /\ line.key = "framesize" => line.value.width = 16 /\ line.value.height = Or(d.framesize, 0)
    /\ line.key = "framerate" => /\ line.value = Or(d.framerate, 0)
                                 /\ ~(line.value = 0 \/ line.value > 1000000)

\* What is known of the picture once the fmtp line, framesize and framerate have been
\* read, or not.
PictureKnown(e, d, fmtp, size, rate) ==
    /\ e.width = IF fmtp /\ d.width # {} THEN Or(d.width, 0) ELSE IF size THEN 16 ELSE 0
    /\ e.height = IF fmtp /\ d.height # {} THEN Or(d.height, 0)
                  ELSE IF size THEN Or(d.framesize, 0) ELSE 0
    /\ e.rate = IF fmtp /\ d.rate # {} THEN Or(d.rate, 0)
                ELSE IF rate THEN [num |-> Or(d.framerate, 0), den |-> 1000]
                             ELSE EmptyDescription.rate
    /\ e.exact_frame_rate_seen <=> fmtp /\ d.rate # {}

SessionKnown(e, c, m) == (c => e.group = "C") /\ (m => e.port = 5006)

OneRate(d) ==
    /\ \A optional \in {d.width, d.height, d.rate} : \A x, y \in optional : x = y
    /\ 0 \notin d.width /\ 0 \notin d.height
    /\ \A r \in d.rate : r.num # 0 /\ r.den # 0

LEMMA FmtpKnown ==
  ASSUME NEW e, NEW d, NEW line, NEW fmtp \in BOOLEAN, NEW size \in BOOLEAN, NEW rate \in BOOLEAN,
         DOMAIN e = Fields, PictureKnown(e, d, fmtp, size, rate), OneRate(d),
         line.key = "fmtp", ExactLine(line, d)
  PROVE  /\ Keeps(ReadLine(e, line), e, FmtpFields)
         /\ PictureKnown(ReadLine(e, line), d, TRUE, size, rate)
<1> DEFINE r == ReadLine(e, line)
           w == Find(line.value.params, "width")
           h == Find(line.value.params, "height")
           x == Find(line.value.params, "exactframerate")
           p == Find(line.value.params, "sprop-parameter-sets")
           throws == x # {} /\ (Or(x, 0).num = 0 \/ Or(x, 0).den = 0)
           no  == [e EXCEPT !.throws = TRUE]
           yes == [e EXCEPT !.fmtp_payload = {line.value.payload},
                            !.fmtp_width   = IF w = {} THEN @ ELSE w,
                            !.width        = Or(w, @),
                            !.fmtp_height  = IF h = {} THEN @ ELSE h,
                            !.height       = Or(h, @),
                            !.rate         = Or(x, @),
                            !.exact_frame_rate_seen = (@ \/ x # {}),
                            !.max_udp      = Or(Find(line.value.params, "maxudp"), @),
                            !.constants    = Or(Find(line.value.params, "constants"), @),
                            !.level        = Or(Find(line.value.params, "profile-level-id"), @),
                            !.sps          = IF p = {} THEN @ ELSE {Or(p, 0).sps},
                            !.pps          = IF p = {} THEN @ ELSE {Or(p, 0).pps}]
<1>1. w = d.width /\ h = d.height /\ x = d.rate
  BY DEF ExactLine
<1>2. \A S : /\ \A v : S = {} => Or(S, v) = v
             /\ \A v : S # {} => Or(S, v) \in S /\ Or(S, v) = Or(S, 0)
  BY DEF Or
<1>3. ~throws
  <2> HIDE DEF x
  <2>. QED  BY <1>1, <1>2 DEF OneRate
<1>4. r = ReadFmtp(e, line.value)
  BY LineReaders
<1>5. r = IF throws THEN no ELSE yes
  BY <1>4 DEF ReadFmtp
<1> HIDE DEF throws, no
<1>6. r = yes
  <2> HIDE DEF yes, r
  <2>. QED  BY <1>3, <1>5
<1> HIDE DEF r, w, h, x, p
<1>7. FmtpFields \subseteq Fields
  BY DEF FmtpFields, Fields, EmptyDescription
<1>8. DOMAIN r = Fields
  BY <1>6
<1>9. /\ r.width = Or(w, e.width) /\ r.height = Or(h, e.height) /\ r.rate = Or(x, e.rate)
      /\ r.exact_frame_rate_seen = (e.exact_frame_rate_seen \/ x # {})
  BY <1>6, <1>7 DEF FmtpFields
<1>10. \A f \in Fields \ FmtpFields : r[f] = e[f]
  BY <1>6 DEF FmtpFields
<1>11. r.width = IF d.width # {} THEN Or(d.width, 0) ELSE IF size THEN 16 ELSE 0
  BY <1>1, <1>2, <1>9 DEF PictureKnown
<1>12. r.height = IF d.height # {} THEN Or(d.height, 0) ELSE IF size THEN Or(d.framesize, 0) ELSE 0
  <2> DEFINE other == IF size THEN Or(d.framesize, 0) ELSE 0
  <2>1. e.height = IF fmtp /\ d.height # {} THEN Or(d.height, 0) ELSE other
    BY DEF PictureKnown
  <2> HIDE DEF other
  <2>2. r.height = IF d.height # {} THEN Or(d.height, 0) ELSE other
    BY <1>1, <1>2, <1>9, <2>1
  <2>. QED  BY <2>2 DEF other
<1>13. r.rate = IF d.rate # {} THEN Or(d.rate, 0)
                ELSE IF rate THEN [num |-> Or(d.framerate, 0), den |-> 1000]
                             ELSE EmptyDescription.rate
  <2> DEFINE other == IF rate THEN [num |-> Or(d.framerate, 0), den |-> 1000]
                              ELSE EmptyDescription.rate
  <2>1. e.rate = IF fmtp /\ d.rate # {} THEN Or(d.rate, 0) ELSE other
    BY DEF PictureKnown
  <2> HIDE DEF other
  <2>2. r.rate = IF d.rate # {} THEN Or(d.rate, 0) ELSE other
    BY <1>1, <1>2, <1>9, <2>1
  <2>. QED  BY <2>2 DEF other
<1>14. r.exact_frame_rate_seen <=> d.rate # {}
  <2>1. r.exact_frame_rate_seen <=> (e.exact_frame_rate_seen \/ d.rate # {})
    BY <1>1, <1>9
  <2>2. e.exact_frame_rate_seen => d.rate # {}
    BY DEF PictureKnown
  <2>. QED  BY <2>1, <2>2
<1>15. PictureKnown(r, d, TRUE, size, rate)
  BY <1>11, <1>12, <1>13, <1>14 DEF PictureKnown
<1>. QED  BY <1>8, <1>10, <1>15 DEF Keeps, r

LEMMA PictureKept ==
  ASSUME NEW e, NEW r, NEW d, NEW fmtp, NEW size, NEW rate, NEW changed,
         PictureKnown(e, d, fmtp, size, rate), Keeps(r, e, changed),
         changed \cap {"width", "height", "rate", "exact_frame_rate_seen"} = {}
  PROVE  PictureKnown(r, d, fmtp, size, rate)
<1>1. {"width", "height", "rate", "exact_frame_rate_seen"} \subseteq Fields
  BY DEF Fields, EmptyDescription
<1>2. /\ r.width = e.width /\ r.height = e.height /\ r.rate = e.rate
      /\ r.exact_frame_rate_seen = e.exact_frame_rate_seen
  BY <1>1 DEF Keeps
<1>. QED  BY <1>2 DEF PictureKnown

LEMMA SizeKnown ==
  ASSUME NEW e, NEW d, NEW line, NEW fmtp \in BOOLEAN, NEW size \in BOOLEAN, NEW rate \in BOOLEAN,
         DOMAIN e = Fields, PictureKnown(e, d, fmtp, size, rate), OneRate(d),
         line.key = "framesize", ExactLine(line, d)
  PROVE  /\ Keeps(ReadLine(e, line), e, {"framesize", "width", "height"})
         /\ PictureKnown(ReadLine(e, line), d, fmtp, TRUE, rate)
<1> DEFINE r == ReadLine(e, line)
           h == Or(d.framesize, 0)
<1>1. r = [e EXCEPT !.framesize = {line.value},
                    !.width  = IF @ = 0 THEN line.value.width ELSE @,
                    !.height = IF @ = 0 THEN line.value.height ELSE @]
  BY LineReaders DEF ReadFramesize
<1> HIDE DEF r
<1>2. {"framesize", "width", "height", "rate", "exact_frame_rate_seen"} \subseteq Fields
  BY DEF Fields, EmptyDescription
<1>3. DOMAIN r = Fields
  BY <1>1
<1>4. /\ r.width = IF e.width = 0 THEN line.value.width ELSE e.width
      /\ r.height = IF e.height = 0 THEN line.value.height ELSE e.height
      /\ r.rate = e.rate /\ r.exact_frame_rate_seen = e.exact_frame_rate_seen
  BY <1>1, <1>2
<1>5. \A f \in Fields \ {"framesize", "width", "height"} : r[f] = e[f]
  BY <1>1
<1>6. line.value.width = 16 /\ line.value.height = h
  BY DEF ExactLine
<1>7. \A S : S # {} => Or(S, 0) \in S
  BY DEF Or
<1>8. /\ d.width # {} => Or(d.width, 0) # 0
      /\ d.height # {} => Or(d.height, 0) # 0
  BY <1>7 DEF OneRate
<1> HIDE DEF h
<1>9. r.width = IF fmtp /\ d.width # {} THEN Or(d.width, 0) ELSE 16
  <2>1. e.width = IF fmtp /\ d.width # {} THEN Or(d.width, 0) ELSE IF size THEN 16 ELSE 0
    BY DEF PictureKnown
  <2>. QED  BY <1>4, <1>6, <1>8, <2>1
<1>10. r.height = IF fmtp /\ d.height # {} THEN Or(d.height, 0) ELSE h
  <2>1. e.height = IF fmtp /\ d.height # {} THEN Or(d.height, 0) ELSE IF size THEN h ELSE 0
    BY DEF PictureKnown, h
  <2>. QED  BY <1>4, <1>6, <1>8, <2>1
<1>11. PictureKnown(r, d, fmtp, TRUE, rate)
  BY <1>4, <1>9, <1>10 DEF PictureKnown, h
<1>. QED  BY <1>3, <1>5, <1>11 DEF Keeps, r

LEMMA RateKnown ==
  ASSUME NEW e, NEW d, NEW line, NEW fmtp \in BOOLEAN, NEW size \in BOOLEAN, NEW rate \in BOOLEAN,
         DOMAIN e = Fields, PictureKnown(e, d, fmtp, size, rate),
         line.key = "framerate", ExactLine(line, d)
  PROVE  /\ Keeps(ReadLine(e, line), e, {"rate"})
         /\ PictureKnown(ReadLine(e, line), d, fmtp, size, TRUE)
<1> DEFINE r == ReadLine(e, line)
           known  == e.exact_frame_rate_seen
           throws == line.value = 0 \/ line.value > 1000000
           no     == [e EXCEPT !.throws = TRUE]
           yes    == [e EXCEPT !.rate = [num |-> line.value, den |-> 1000]]
           given  == [num |-> Or(d.framerate, 0), den |-> 1000]
<1>1. r = IF known THEN e ELSE IF throws THEN no ELSE yes
  BY LineReaders DEF ReadFramerate
<1>2. ~throws
  BY DEF ExactLine
<1>3. line.value = Or(d.framerate, 0)
  BY DEF ExactLine
<1> HIDE DEF r, throws, no, known
<1>4. r = IF known THEN e ELSE yes
  BY <1>1, <1>2
<1>5. {"width", "height", "rate", "exact_frame_rate_seen"} \subseteq Fields
  BY DEF Fields, EmptyDescription
<1>6. DOMAIN r = Fields /\ \A f \in Fields \ {"rate"} : r[f] = e[f]
  BY <1>4
<1>7. r.rate = IF known THEN e.rate ELSE given
  BY <1>3, <1>4, <1>5
<1>8. /\ r.width = e.width /\ r.height = e.height
      /\ r.exact_frame_rate_seen = e.exact_frame_rate_seen
  BY <1>5, <1>6
<1>9. known <=> fmtp /\ d.rate # {}
  BY DEF PictureKnown, known
<1>10. r.rate = IF fmtp /\ d.rate # {} THEN Or(d.rate, 0) ELSE given
  <2> HIDE DEF given
  <2>1. fmtp /\ d.rate # {} => e.rate = Or(d.rate, 0)
    BY DEF PictureKnown
  <2>. QED  BY <1>7, <1>9, <2>1
<1>11. PictureKnown(r, d, fmtp, size, TRUE)
  BY <1>8, <1>10 DEF PictureKnown
<1>. QED  BY <1>6, <1>11 DEF Keeps, r

\* A line of the document adds to what is known, whatever was read before it.
LEMMA LineKnown ==
  ASSUME NEW e, NEW d, NEW line, NEW fmtp \in BOOLEAN, NEW size \in BOOLEAN, NEW rate \in BOOLEAN,
         NEW c \in BOOLEAN, NEW m \in BOOLEAN, DOMAIN e = Fields, OneRate(d),
         PictureKnown(e, d, fmtp, size, rate), SessionKnown(e, c, m), ExactLine(line, d)
  PROVE  /\ DOMAIN ReadLine(e, line) = Fields
         /\ PictureKnown(ReadLine(e, line), d, fmtp \/ line.key = "fmtp",
                         size \/ line.key = "framesize", rate \/ line.key = "framerate")
         /\ SessionKnown(ReadLine(e, line), c \/ line.key = "c", m \/ line.key = "m")
<1> DEFINE r == ReadLine(e, line)
<1>0. {"group", "port"} \subseteq Fields
  BY DEF Fields, EmptyDescription
<1>1. ASSUME NEW changed, Keeps(r, e, changed), changed \cap {"group", "port"} = {},
             line.key # "c", line.key # "m"
      PROVE  SessionKnown(r, c \/ line.key = "c", m \/ line.key = "m")
  <2>1. r.group = e.group /\ r.port = e.port
    BY <1>0, <1>1 DEF Keeps
  <2>. QED  BY <1>1, <2>1 DEF SessionKnown
<1>2. ASSUME NEW changed, Keeps(r, e, changed), line.key \notin {"fmtp", "framesize", "framerate"},
             changed \cap {"width", "height", "rate", "exact_frame_rate_seen"} = {}
      PROVE  /\ DOMAIN r = Fields
             /\ PictureKnown(r, d, fmtp \/ line.key = "fmtp",
                             size \/ line.key = "framesize", rate \/ line.key = "framerate")
  <2>1. PictureKnown(r, d, fmtp, size, rate)
    BY <1>2, PictureKept
  <2>. QED  BY <1>2, <2>1 DEF Keeps
<1>3. CASE line.key = "c"
  <2>1. Keeps(r, e, {"group"}) /\ r.group = "C"
    BY <1>3, LineIsRead DEF ExactLine
  <2>2. r.port = e.port
    BY <1>0, <2>1 DEF Keeps
  <2>3. SessionKnown(r, c \/ line.key = "c", m \/ line.key = "m")
    BY <1>3, <2>1, <2>2 DEF SessionKnown
  <2> HIDE DEF r
  <2>. QED  BY <1>2, <1>3, <2>1, <2>3 DEF r
<1>4. CASE line.key = "m"
  <2>1. Keeps(r, e, {"port", "payload", "media_seen"}) /\ r.port = line.value.port
    BY <1>4, MediaIsRead DEF ExactLine
  <2>2. r.port = 5006
    BY <1>4, <2>1 DEF ExactLine
  <2>3. r.group = e.group
    BY <1>0, <2>1 DEF Keeps
  <2>4. SessionKnown(r, c \/ line.key = "c", m \/ line.key = "m")
    BY <1>4, <2>2, <2>3 DEF SessionKnown
  <2> HIDE DEF r
  <2>. QED  BY <1>2, <1>4, <2>1, <2>4 DEF r
<1>5. CASE line.key = "fmtp"
  <2>1. Keeps(r, e, FmtpFields) /\ PictureKnown(r, d, TRUE, size, rate)
    BY <1>5, FmtpKnown
  <2>2. SessionKnown(r, c \/ line.key = "c", m \/ line.key = "m")
    BY <1>1, <1>5, <2>1 DEF FmtpFields
  <2> HIDE DEF r
  <2>. QED  BY <1>5, <2>1, <2>2 DEF r, Keeps
<1>6. CASE line.key = "framesize"
  <2>1. Keeps(r, e, {"framesize", "width", "height"}) /\ PictureKnown(r, d, fmtp, TRUE, rate)
    BY <1>6, SizeKnown
  <2>2. SessionKnown(r, c \/ line.key = "c", m \/ line.key = "m")
    BY <1>1, <1>6, <2>1
  <2> HIDE DEF r
  <2>. QED  BY <1>6, <2>1, <2>2 DEF r, Keeps
<1>7. CASE line.key = "framerate"
  <2>1. Keeps(r, e, {"rate"}) /\ PictureKnown(r, d, fmtp, size, TRUE)
    BY <1>7, RateKnown
  <2>2. SessionKnown(r, c \/ line.key = "c", m \/ line.key = "m")
    BY <1>1, <1>7, <2>1
  <2> HIDE DEF r
  <2>. QED  BY <1>7, <2>1, <2>2 DEF r, Keeps
<1>8. CASE line.key \in {"b", "rtcp", "rtpmap", "ts-refclk", "mediaclk"}
  <2>1. PICK changed \in {{"ip_bitrate"}, {"rtcp_port"}, {"rtpmap"}, {"ts_refclk"}, {"media_clock"}} :
           Keeps(r, e, changed)
    <3>1. CASE line.key = "b"
      BY <3>1, LineIsRead DEF ExactLine
    <3>2. CASE line.key = "rtcp"
      BY <3>2, LineIsRead
    <3>3. CASE line.key = "rtpmap"
      BY <3>3, LineIsRead
    <3>4. CASE line.key = "ts-refclk"
      BY <3>4, LineIsRead
    <3>5. CASE line.key = "mediaclk"
      BY <3>5, LineIsRead
    <3>. QED  BY <1>8, <3>1, <3>2, <3>3, <3>4, <3>5
  <2> HIDE DEF r
  <2>2. /\ line.key # "c" /\ line.key # "m" /\ line.key \notin {"fmtp", "framesize", "framerate"}
        /\ changed \cap {"group", "port"} = {}
        /\ changed \cap {"width", "height", "rate", "exact_frame_rate_seen"} = {}
    BY <1>8
  <2>. QED  BY <1>1, <1>2, <2>1, <2>2 DEF r
<1>. QED  BY <1>3, <1>4, <1>5, <1>6, <1>7, <1>8 DEF ExactLine

\* A line of this kind is among the first n.
Seen(lines, n, key) == \E j \in 1 .. n : lines[j].key = key

LEMMA AllKnown ==
  ASSUME NEW lines, NEW d, Len(lines) \in Nat, \A i \in 1 .. Len(lines) : ExactLine(lines[i], d),
         OneRate(d)
  PROVE  \A n \in 0 .. Len(lines) :
            /\ DOMAIN Read(lines)[n] = Fields
            /\ PictureKnown(Read(lines)[n], d, Seen(lines, n, "fmtp"), Seen(lines, n, "framesize"),
                            Seen(lines, n, "framerate"))
            /\ SessionKnown(Read(lines)[n], Seen(lines, n, "c"), Seen(lines, n, "m"))
<1> DEFINE Known(n) ==
             /\ DOMAIN Read(lines)[n] = Fields
             /\ PictureKnown(Read(lines)[n], d, Seen(lines, n, "fmtp"), Seen(lines, n, "framesize"),
                             Seen(lines, n, "framerate"))
             /\ SessionKnown(Read(lines)[n], Seen(lines, n, "c"), Seen(lines, n, "m"))
           bad == {n \in 0 .. Len(lines) : ~Known(n)}
<1> SUFFICES ASSUME bad # {} PROVE FALSE
  OBVIOUS
<1>1. bad \subseteq Nat
  OBVIOUS
<1>2. PICK n \in bad : \A m \in bad : n <= m
  BY <1>1, LeastNumber
<1>3. /\ Read(lines)[0] = EmptyDescription
      /\ \A i \in 1 .. Len(lines) : Read(lines)[i] = ReadLine(Read(lines)[i - 1], lines[i])
  BY ReadSteps
<1>4. \A key : ~Seen(lines, 0, key)
  BY DEF Seen
<1>5. Known(0)
  <2>1. /\ EmptyDescription.width = 0 /\ EmptyDescription.height = 0
        /\ ~EmptyDescription.exact_frame_rate_seen
    BY DEF EmptyDescription
  <2>. QED  BY <1>3, <1>4, <2>1 DEF Fields, PictureKnown, SessionKnown
<1> HIDE DEF Known
<1>6. n \in 1 .. Len(lines) /\ n - 1 \in 0 .. Len(lines) /\ n - 1 \notin bad /\ ~Known(n)
  <2>1. n # 0
    BY <1>2, <1>5
  <2>. QED  BY <1>1, <1>2, <2>1
<1>7. Known(n - 1)
  BY <1>6
<1>8. \A key : Seen(lines, n, key) <=> Seen(lines, n - 1, key) \/ lines[n].key = key
  <2>1. 1 .. n = (1 .. n - 1) \cup {n}
    BY <1>6
  <2>. QED  BY <2>1 DEF Seen
<1>9. \A key : Seen(lines, n, key) = (Seen(lines, n - 1, key) \/ lines[n].key = key)
  <2>1. \A key : Seen(lines, n, key) \in BOOLEAN
    BY DEF Seen
  <2>. QED  BY <1>8, <2>1
<1>10. \A key : Seen(lines, n - 1, key) \in BOOLEAN
  BY DEF Seen
<1> DEFINE e == Read(lines)[n - 1]
           line == lines[n]
           fmtp == Seen(lines, n - 1, "fmtp")
           size == Seen(lines, n - 1, "framesize")
           rate == Seen(lines, n - 1, "framerate")
           c    == Seen(lines, n - 1, "c")
           m    == Seen(lines, n - 1, "m")
<1>11. DOMAIN e = Fields /\ PictureKnown(e, d, fmtp, size, rate) /\ SessionKnown(e, c, m)
  BY <1>7 DEF Known
<1>12. ExactLine(line, d) /\ Read(lines)[n] = ReadLine(e, line)
  BY <1>3, <1>6
<1>13. /\ fmtp \in BOOLEAN /\ size \in BOOLEAN /\ rate \in BOOLEAN /\ c \in BOOLEAN /\ m \in BOOLEAN
  BY <1>10
<1> HIDE DEF e, line, fmtp, size, rate, c, m
<1>14. /\ DOMAIN ReadLine(e, line) = Fields
       /\ PictureKnown(ReadLine(e, line), d, fmtp \/ line.key = "fmtp",
                       size \/ line.key = "framesize", rate \/ line.key = "framerate")
       /\ SessionKnown(ReadLine(e, line), c \/ line.key = "c", m \/ line.key = "m")
  BY <1>11, <1>12, <1>13, LineKnown
<1>15. /\ Seen(lines, n, "fmtp") = (fmtp \/ line.key = "fmtp")
       /\ Seen(lines, n, "framesize") = (size \/ line.key = "framesize")
       /\ Seen(lines, n, "framerate") = (rate \/ line.key = "framerate")
       /\ Seen(lines, n, "c") = (c \/ line.key = "c")
       /\ Seen(lines, n, "m") = (m \/ line.key = "m")
  BY <1>9 DEF fmtp, size, rate, c, m, line
<1>16. Known(n)
  BY <1>12, <1>14, <1>15, Zenon DEF Known
<1>. QED  BY <1>6, <1>16

LEMMA FindOf ==
  ASSUME NEW P, NEW params, params \in Seq(P), NEW name, NEW optional,
         \A x, y \in optional : x = y,
         \A p \in Range(params) : p.name = name => p.value \in optional,
         optional # {} => \E p \in Range(params) : p.name = name
  PROVE  Find(params, name) = optional
<1> DEFINE at == {i \in DOMAIN params : params[i].name = name}
<1>1. DOMAIN params = 1 .. Len(params) /\ Len(params) \in Nat
  OBVIOUS
<1>2. Range(params) = {params[i] : i \in DOMAIN params}
  BY DEF Range
<1>3. at = {} <=> optional = {}
  BY <1>2
<1>4. at # {} => Max(at) \in at
  BY <1>1, MaxIsMember, ZenonT(60)
<1>5. at # {} => params[Max(at)].value \in optional
  BY <1>2, <1>4
<1> HIDE DEF at
<1>6. Find(params, name) = IF at = {} THEN {} ELSE {params[Max(at)].value}
  BY DEF Find, at
<1>. QED  BY <1>3, <1>5, <1>6

LEMMA OneOrNone ==
  ASSUME NEW optional, NEW v, NEW s, s = IF optional = {} THEN <<>> ELSE <<v>>
  PROVE  /\ Range(s) = IF optional = {} THEN {} ELSE {v}
         /\ \A P : v \in P => s \in Seq(P)
<1>1. CASE optional = {}
  BY <1>1 DEF Range
<1>2. CASE optional # {}
  <2>1. s = <<v>>
    BY <1>2
  <2>2. DOMAIN s = {1} /\ s[1] = v
    BY <2>1
  <2>. QED  BY <1>2, <2>1, <2>2 DEF Range
<1>. QED  BY <1>1, <1>2

LEMMA FmtpOfSays ==
  ASSUME NEW d, OneRate(d)
  PROVE  /\ FmtpOf(d).key = "fmtp"
         /\ Find(FmtpOf(d).value.params, "width") = d.width
         /\ Find(FmtpOf(d).value.params, "height") = d.height
         /\ Find(FmtpOf(d).value.params, "exactframerate") = d.rate
<1> DEFINE width  == IfAny(d.width, LAMBDA x : Param("width", x))
           height == IfAny(d.height, LAMBDA x : Param("height", x))
           exact  == IfAny(d.rate, LAMBDA x : Param("exactframerate", x))
           others == << Param("maxudp", 1200), Param("constants", "expected"),
                        Param("profile-level-id", d.sps.level),
                        Param("sprop-parameter-sets", [sps |-> d.sps, pps |-> [sps_id |-> d.sps.id]]) >>
           params == width \o height \o exact \o others
           w == Param("width", Or(d.width, 0))
           h == Param("height", Or(d.height, 0))
           r == Param("exactframerate", Or(d.rate, 0))
           O == {others[i] : i \in 1 .. 4}
           P == {w, h, r} \cup O
<1>1. FmtpOf(d).key = "fmtp" /\ FmtpOf(d).value.params = params
  BY ZenonT(60) DEF FmtpOf, Line
<1>2. /\ width = IF d.width = {} THEN <<>> ELSE <<w>>
      /\ height = IF d.height = {} THEN <<>> ELSE <<h>>
      /\ exact = IF d.rate = {} THEN <<>> ELSE <<r>>
  BY DEF IfAny
<1>3. /\ w.name = "width" /\ w.value = Or(d.width, 0)
      /\ h.name = "height" /\ h.value = Or(d.height, 0)
      /\ r.name = "exactframerate" /\ r.value = Or(d.rate, 0)
  BY DEF Param
<1>4. others \in Seq(O) /\ Range(others) = O
  <2>1. DOMAIN others = 1 .. 4
    OBVIOUS
  <2>. QED  BY <2>1 DEF Range
<1>5. \A p \in O : p.name \notin {"width", "height", "exactframerate"}
  BY DEF Param
<1> HIDE DEF width, height, exact, others, w, h, r, O
<1>6. /\ width \in Seq(P) /\ Range(width) = IF d.width = {} THEN {} ELSE {w}
      /\ height \in Seq(P) /\ Range(height) = IF d.height = {} THEN {} ELSE {h}
      /\ exact \in Seq(P) /\ Range(exact) = IF d.rate = {} THEN {} ELSE {r}
  <2>1. w \in P /\ h \in P /\ r \in P
    OBVIOUS
  <2> HIDE DEF P
  <2>. QED  BY <1>2, <2>1, OneOrNone
<1>7. others \in Seq(P)
  BY <1>4
<1> HIDE DEF P
<1>8. /\ width \o height \in Seq(P) /\ width \o height \o exact \in Seq(P) /\ params \in Seq(P)
  BY <1>6, <1>7
<1>9. Range(params) = Range(width) \cup Range(height) \cup Range(exact) \cup O
  <2>1. Range(width \o height) = Range(width) \cup Range(height)
    BY <1>6, RangeConcatenation
  <2>2. Range(width \o height \o exact) = Range(width \o height) \cup Range(exact)
    <3> DEFINE start == width \o height
    <3>1. start \in Seq(P)
      BY <1>8
    <3> HIDE DEF start
    <3>2. Range(start \o exact) = Range(start) \cup Range(exact)
      BY <1>6, <3>1, RangeConcatenation
    <3>. QED  BY <3>2 DEF start
  <2>3. Range(params) = Range(width \o height \o exact) \cup Range(others)
    BY <1>7, <1>8, RangeConcatenation, ZenonT(60)
  <2>. QED  BY <1>4, <2>1, <2>2, <2>3
<1> HIDE DEF params
<1>10. \A S : S # {} => Or(S, 0) \in S
  BY DEF Or
<1>11. Find(params, "width") = d.width
  <2>1. \A p \in Range(params) : p.name = "width" => d.width # {} /\ p = w
    BY <1>3, <1>5, <1>6, <1>9
  <2>2. d.width # {} => w \in Range(params)
    BY <1>6, <1>9
  <2>3. \A p \in Range(params) : p.name = "width" => p.value \in d.width
    BY <1>3, <1>10, <2>1
  <2>4. d.width # {} => \E p \in Range(params) : p.name = "width"
    BY <1>3, <2>2
  <2>5. \A i, j \in d.width : i = j
    BY DEF OneRate
  <2>6. params \in Seq(P)
    BY <1>8
  <2>. QED  BY <2>3, <2>4, <2>5, <2>6, FindOf
<1>12. Find(params, "height") = d.height
  <2>1. \A p \in Range(params) : p.name = "height" => d.height # {} /\ p = h
    BY <1>3, <1>5, <1>6, <1>9
  <2>2. d.height # {} => h \in Range(params)
    BY <1>6, <1>9
  <2>3. \A p \in Range(params) : p.name = "height" => p.value \in d.height
    BY <1>3, <1>10, <2>1
  <2>4. d.height # {} => \E p \in Range(params) : p.name = "height"
    BY <1>3, <2>2
  <2>5. \A i, j \in d.height : i = j
    BY DEF OneRate
  <2>6. params \in Seq(P)
    BY <1>8
  <2>. QED  BY <2>3, <2>4, <2>5, <2>6, FindOf
<1>13. Find(params, "exactframerate") = d.rate
  <2>1. \A p \in Range(params) : p.name = "exactframerate" => d.rate # {} /\ p = r
    BY <1>3, <1>5, <1>6, <1>9
  <2>2. d.rate # {} => r \in Range(params)
    BY <1>6, <1>9
  <2>3. \A p \in Range(params) : p.name = "exactframerate" => p.value \in d.rate
    BY <1>3, <1>10, <2>1
  <2>4. d.rate # {} => \E p \in Range(params) : p.name = "exactframerate"
    BY <1>3, <2>2
  <2>5. \A i, j \in d.rate : i = j
    BY DEF OneRate
  <2>6. params \in Seq(P)
    BY <1>8
  <2>. QED  BY <2>3, <2>4, <2>5, <2>6, FindOf, ZenonT(60)
<1>. QED  BY <1>1, <1>11, <1>12, <1>13 DEF params

\* The lines of a document are those that it has, whatever their order.
LEMMA LinesOf ==
  ASSUME NEW d \in Documents, DocumentsAreNumbered
  PROVE  /\ Len(Lines(d)) \in Nat
         /\ \A i \in 1 .. Len(Lines(d)) : ExactLine(Lines(d)[i], d)
         /\ Seen(Lines(d), Len(Lines(d)), "fmtp")
         /\ Seen(Lines(d), Len(Lines(d)), "c") /\ Seen(Lines(d), Len(Lines(d)), "m")
         /\ Seen(Lines(d), Len(Lines(d)), "framesize") <=> d.framesize # {}
         /\ Seen(Lines(d), Len(Lines(d)), "framerate") <=> d.framerate # {}
<1> DEFINE Size(height) == Line("framesize", [payload |-> 96, width |-> 16, height |-> height])
           z == Size(Or(d.framesize, 0))
           f == Line("framerate", Or(d.framerate, 0))
           fmtp  == <<FmtpOf(d)>>
           rate  == IfAny(d.framerate, LAMBDA x : Line("framerate", x))
           size  == IfAny(d.framesize, Size)
           parts == <<fmtp, rate, size>>
           rest  == << Line("c", "C"), Line("m", [port |-> 5006, payload |-> 96, transport |-> "RTP/AVP"]),
                       Line("rtcp", 5007), Line("rtpmap", [payload |-> 96, encoding |-> "H264/90000"]),
                       Line("b", 4400), Line("ts-refclk", 26), Line("mediaclk", "direct=0") >>
           R == {rest[i] : i \in 1 .. 7}
           S == {FmtpOf(d), f, z} \cup R
           a == parts[d.order[1]]
           b == parts[d.order[2]]
           c == parts[d.order[3]]
           lines == a \o b \o c \o rest
<1>1. Lines(d) = lines
  BY DEF Lines
<1>2. /\ rate = IF d.framerate = {} THEN <<>> ELSE <<f>>
      /\ size = IF d.framesize = {} THEN <<>> ELSE <<z>>
  BY DEF IfAny
<1>3. /\ f.key = "framerate" /\ f.value = Or(d.framerate, 0)
      /\ z.key = "framesize" /\ z.value.width = 16 /\ z.value.height = Or(d.framesize, 0)
  BY DEF Line
<1>4. rest \in Seq(R) /\ Range(rest) = R
  <2>1. DOMAIN rest = 1 .. 7
    OBVIOUS
  <2>. QED  BY <2>1 DEF Range
<1>5. \A line \in R : /\ ExactLine(line, d)
                      /\ line.key \notin {"fmtp", "framesize", "framerate"}
  BY DEF ExactLine, Line
<1>6. (\E line \in R : line.key = "c") /\ (\E line \in R : line.key = "m")
  <2>1. rest[1].key = "c" /\ rest[2].key = "m" /\ rest[1] \in R /\ rest[2] \in R
    BY DEF Line
  <2>. QED  BY <2>1
<1>7. d.order \in [1 .. 3 -> 1 .. 3] /\ {d.order[1], d.order[2], d.order[3]} = 1 .. 3
  BY SetupAssumption
<1>8. OneRate(d)
  BY DEF DocumentsAreNumbered, OneRate
<1>9. ExactLine(FmtpOf(d), d) /\ FmtpOf(d).key = "fmtp"
  BY <1>8, FmtpOfSays DEF ExactLine
<1>10. d.framerate # {} => ExactLine(f, d)
  <2>1. d.framerate # {} => Or(d.framerate, 0) \in d.framerate
    BY DEF Or
  <2>2. d.framerate # {} => ~(f.value = 0 \/ f.value > 1000000)
    BY <1>3, <2>1 DEF DocumentsAreNumbered
  <2> HIDE DEF f
  <2>. QED  BY <1>3, <2>2 DEF ExactLine
<1>11. ExactLine(z, d)
  <2> HIDE DEF z
  <2>. QED  BY <1>3 DEF ExactLine
<1>12. parts[1] = fmtp /\ parts[2] = rate /\ parts[3] = size
  OBVIOUS
<1> HIDE DEF f, z, rate, size, rest, parts, R, Size
<1>13. /\ fmtp \in Seq(S) /\ Range(fmtp) = {FmtpOf(d)}
       /\ rate \in Seq(S) /\ Range(rate) = IF d.framerate = {} THEN {} ELSE {f}
       /\ size \in Seq(S) /\ Range(size) = IF d.framesize = {} THEN {} ELSE {z}
       /\ rest \in Seq(S)
  <2>1. f \in S /\ z \in S /\ FmtpOf(d) \in S
    OBVIOUS
  <2>2. DOMAIN fmtp = {1} /\ fmtp[1] = FmtpOf(d)
    OBVIOUS
  <2>3. fmtp \in Seq(S)
    BY <2>1
  <2>4. rest \in Seq(S)
    BY <1>4
  <2> HIDE DEF S, fmtp
  <2>. QED  BY <1>2, <2>1, <2>2, <2>3, <2>4, OneOrNone DEF Range
<1> HIDE DEF S, fmtp
<1>14. \A i \in 1 .. 3 : i = 1 \/ i = 2 \/ i = 3
  OBVIOUS
<1>15. \A i \in 1 .. 3 : parts[i] \in Seq(S)
  BY <1>12, <1>13, <1>14
<1>16. a \in Seq(S) /\ b \in Seq(S) /\ c \in Seq(S)
  BY <1>7, <1>15
<1>17. Range(a) \cup Range(b) \cup Range(c) = Range(fmtp) \cup Range(rate) \cup Range(size)
  <2>1. d.order[1] \in 1 .. 3 /\ d.order[2] \in 1 .. 3 /\ d.order[3] \in 1 .. 3
    BY <1>7
  <2>2. 1 \in {d.order[1], d.order[2], d.order[3]} /\ 2 \in {d.order[1], d.order[2], d.order[3]}
        /\ 3 \in {d.order[1], d.order[2], d.order[3]}
    BY <1>7
  <2>3. Range(a) \cup Range(b) \cup Range(c) = UNION {Range(parts[i]) : i \in {d.order[1], d.order[2], d.order[3]}}
    OBVIOUS
  <2>4. UNION {Range(parts[i]) : i \in 1 .. 3} = Range(fmtp) \cup Range(rate) \cup Range(size)
    <3> HIDE DEF parts
    <3>1. 1 .. 3 = {1, 2, 3}
      OBVIOUS
    <3>. QED  BY <1>12, <3>1
  <2>. QED  BY <1>7, <2>3, <2>4
<1> HIDE DEF a, b, c
<1>18. lines \in Seq(S) /\ Range(lines) = Range(fmtp) \cup Range(rate) \cup Range(size) \cup R
  <2>1. a \o b \in Seq(S) /\ a \o b \o c \in Seq(S) /\ lines \in Seq(S)
    BY <1>13, <1>16
  <2>2. Range(a \o b) = Range(a) \cup Range(b)
    BY <1>16, RangeConcatenation
  <2>3. Range(a \o b \o c) = Range(a \o b) \cup Range(c)
    <3> DEFINE start == a \o b
    <3>1. start \in Seq(S)
      BY <2>1
    <3> HIDE DEF start
    <3>2. Range(start \o c) = Range(start) \cup Range(c)
      BY <1>16, <3>1, RangeConcatenation
    <3>. QED  BY <3>2 DEF start
  <2>4. Range(lines) = Range(a \o b \o c) \cup Range(rest)
    <3> DEFINE start == a \o b \o c
    <3>1. start \in Seq(S)
      BY <2>1
    <3> HIDE DEF start
    <3>2. Range(start \o rest) = Range(start) \cup Range(rest)
      BY <1>13, <3>1, RangeConcatenation
    <3>. QED  BY <3>2 DEF start
  <2>. QED  BY <1>4, <1>17, <2>1, <2>2, <2>3, <2>4
<1> HIDE DEF lines
<1>19. /\ Len(lines) \in Nat /\ Range(lines) = {lines[i] : i \in 1 .. Len(lines)}
  BY <1>18, RangeEquality
<1>20. \A line \in Range(lines) : ExactLine(line, d)
  BY <1>5, <1>9, <1>10, <1>11, <1>13, <1>18
<1>21. \A key : Seen(lines, Len(lines), key) <=> \E line \in Range(lines) : line.key = key
  BY <1>19 DEF Seen
<1>22. /\ \E line \in Range(lines) : line.key = "fmtp"
       /\ \E line \in Range(lines) : line.key = "c"
       /\ \E line \in Range(lines) : line.key = "m"
  BY <1>6, <1>9, <1>13, <1>18
<1>23. (\E line \in Range(lines) : line.key = "framesize") <=> d.framesize # {}
  BY <1>3, <1>5, <1>9, <1>13, <1>18
<1>24. (\E line \in Range(lines) : line.key = "framerate") <=> d.framerate # {}
  BY <1>3, <1>5, <1>9, <1>13, <1>18
<1>. QED  BY <1>1, <1>19, <1>20, <1>21, <1>22, <1>23, <1>24, SMTT(60)

LEMMA DocumentIsRead ==
  ASSUME NEW d \in Documents, DocumentsAreNumbered
  PROVE  Session(ReadSdp(Lines(d))) = Declared(d)
<1> DEFINE lines == Lines(d)
           e     == ReadSdp(lines)
<1>1. /\ Len(lines) \in Nat /\ \A i \in 1 .. Len(lines) : ExactLine(lines[i], d)
      /\ Seen(lines, Len(lines), "fmtp")
      /\ Seen(lines, Len(lines), "c") /\ Seen(lines, Len(lines), "m")
      /\ Seen(lines, Len(lines), "framesize") <=> d.framesize # {}
      /\ Seen(lines, Len(lines), "framerate") <=> d.framerate # {}
  BY LinesOf
<1>2. OneRate(d)
  BY DEF DocumentsAreNumbered, OneRate
<1> HIDE DEF lines
<1>3. e = Read(lines)[Len(lines)]
  BY <1>1, ReadSteps
<1>4. Len(lines) \in 0 .. Len(lines)
  BY <1>1
<1>5. /\ PictureKnown(e, d, Seen(lines, Len(lines), "fmtp"), Seen(lines, Len(lines), "framesize"),
                      Seen(lines, Len(lines), "framerate"))
      /\ SessionKnown(e, Seen(lines, Len(lines), "c"), Seen(lines, Len(lines), "m"))
  BY <1>1, <1>2, <1>3, <1>4, AllKnown
<1> HIDE DEF e
<1>6. e.group = "C" /\ e.port = 5006
  BY <1>1, <1>5 DEF SessionKnown
<1>7. /\ e.width = IF d.width # {} THEN Or(d.width, 0) ELSE IF d.framesize # {} THEN 16 ELSE 0
      /\ e.height = IF d.height # {} THEN Or(d.height, 0)
                    ELSE IF d.framesize # {} THEN Or(d.framesize, 0) ELSE 0
      /\ e.rate = IF d.rate # {} THEN Or(d.rate, 0)
                  ELSE IF d.framerate # {} THEN [num |-> Or(d.framerate, 0), den |-> 1000]
                                           ELSE EmptyDescription.rate
  BY <1>1, <1>5 DEF PictureKnown
<1>8. \A S, v : Or(S, v) = IF S # {} THEN Or(S, 0) ELSE v
  BY DEF Or
<1> DEFINE width  == IF d.framesize = {} THEN 0 ELSE 16
           height == Or(d.framesize, 0)
           rate   == IF d.framerate = {} THEN EmptyDescription.rate
                     ELSE [num |-> Or(d.framerate, 0), den |-> 1000]
<1>9. e.width = Or(d.width, width)
  <2>1. e.width = IF d.width # {} THEN Or(d.width, 0) ELSE width
    BY <1>7
  <2> HIDE DEF width
  <2>. QED  BY <1>8, <2>1
<1>10. e.height = Or(d.height, height)
  <2>1. height = IF d.framesize # {} THEN Or(d.framesize, 0) ELSE 0
    BY <1>8
  <2>2. e.height = IF d.height # {} THEN Or(d.height, 0) ELSE height
    BY <1>7, <2>1
  <2> HIDE DEF height
  <2>. QED  BY <1>8, <2>2
<1>11. e.rate = Or(d.rate, rate)
  <2>1. e.rate = IF d.rate # {} THEN Or(d.rate, 0) ELSE rate
    BY <1>7
  <2> HIDE DEF rate
  <2>. QED  BY <1>8, <2>1
<1>12. Declared(d) = [group |-> "C", port |-> 5006, width |-> Or(d.width, width),
                      height |-> Or(d.height, height), rate |-> Or(d.rate, rate)]
  BY DEF Declared
<1> HIDE DEF width, height, rate
<1>. QED  BY <1>6, <1>9, <1>10, <1>11, <1>12 DEF Session, e, lines

\* The other program's description is in the file until a sender opens it.
FoundInv ==
    /\ found # NoDocument => found \in Documents /\ file = Lines(found)
    /\ spc \in {"make", "write", "refused"} => found = NoDocument

LEMMA FoundPreserved == FoundInv /\ [Next]_vars => FoundInv'
<1> SUFFICES ASSUME FoundInv, [Next]_vars PROVE FoundInv'
  OBVIOUS
<1>1. CASE ParseOptions
  BY <1>1 DEF ParseOptions, FoundInv
<1>2. CASE OpenEncoder
  BY <1>2 DEF OpenEncoder, FoundInv
<1>3. CASE OpenSdp
  BY <1>3 DEF OpenSdp, FoundInv
<1>4. CASE FormatSdp
  BY <1>4 DEF FormatSdp, FoundInv
<1>5. CASE WriteSdp
  BY <1>5 DEF WriteSdp, FoundInv
<1>6. CASE WritePart
  BY <1>6 DEF WritePart, sender, FoundInv
<1>7. CASE SdpFails
  BY <1>7 DEF SdpFails, FoundInv
<1>8. CASE StartTransmitter
  BY <1>8 DEF StartTransmitter, FoundInv
<1>9. CASE FirstReport
  BY <1>9 DEF FirstReport, FoundInv
<1>10. CASE StartFails
  BY <1>10 DEF StartFails, FoundInv
<1>11. CASE SenderGone
  BY <1>11 DEF SenderGone, FoundInv
<1>12. CASE StartReceiver
  BY <1>12 DEF StartReceiver, sender, FoundInv
<1>13. CASE UNCHANGED vars
  BY <1>13 DEF vars, sender, FoundInv
<1>. QED
  BY <1>1, <1>2, <1>3, <1>4, <1>5, <1>6, <1>7, <1>8, <1>9, <1>10, <1>11, <1>12, <1>13 DEF Next

\* A description of another program says the same to the receiver whatever the order
\* of its lines, if its numbers are not zero: what framesize and framerate say never
\* takes the place of what the fmtp line says, be it before or after
\* (read_sdp_description).
THEOREM OrderDoesNotMatterHolds ==
  ASSUME DocumentsAreNumbered
  PROVE  Spec => []OrderDoesNotMatter
<1>1. Init => FoundInv
  BY DEF Init, FoundInv
<1>2. FoundInv => OrderDoesNotMatter
  BY DocumentIsRead DEF FoundInv, OrderDoesNotMatter
<1>. QED  BY <1>1, <1>2, FoundPreserved, PTL DEF Spec

=============================================================================
