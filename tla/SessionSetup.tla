---------------------------- MODULE SessionSetup ----------------------------
(***************************************************************************)
(* From the options of the sender to a receiver that has joined: the       *)
(* sender checks its options, opens the encoder, replaces the file with    *)
(* the description, starts its transmitter and makes its first report; a   *)
(* receiver may read the file at any time.  A sender may crash at any      *)
(* step, and the next one may have other options; it finds the file as it  *)
(* was left.  At first the file may hold the description of another        *)
(* program, with lines missing and in an order of its own.                 *)
(*                                                                         *)
(* The file is smaller than the buffers of both streams, so that it is     *)
(* read at once; what is read of a file that is being written is some      *)
(* beginning of it.                                                        *)
(***************************************************************************)
EXTENDS Sdp, RtcpReport

CONSTANTS
    Options,     \* the options a sender may be given
    Documents,   \* descriptions of other programs: the values of those lines and
                 \* parameters that can stand in for another, each of which may be
                 \* missing, and the order of the lines
    Second,      \* a second in the unit of the delays (10^9 in the code)
    MaxTime,     \* the largest time (2^64 - 1 in the code)
    MaxRuns      \* bound: runs of the sender

ASSUME SetupAssumption ==
    /\ \A o \in Options :
          /\ {o.port, o.width, o.height, o.bitrate, o.ip_bitrate, o.max_udp, o.ts_refclk,
              o.late_packet_threshold, o.dscp} \subseteq Nat
          /\ o.rate \in [num : Nat, den : Nat]
          /\ \A delay \in {o.encoder_delay, o.sender_reports_delay, o.access_unit_offset} :
                delay \subseteq Nat /\ \A x, y \in delay : x = y
          /\ "group" \in DOMAIN o
    /\ \A d \in Documents :
          d.order \in [1 .. 3 -> 1 .. 3] /\ {d.order[1], d.order[2], d.order[3]} = 1 .. 3
    /\ Second \in Nat \ {0} /\ MaxTime \in Nat
    /\ MaxRuns \in Nat \ {0}

VARIABLES
    \* the sender
    spc, settings, sps, runs,
    \* what the stream has to write, what the file has, and the other program's
    \* document while that is what it has
    text, file, found,
    \* the receiver
    rpc, description,
    \* history: the sessions that have been described
    announced

sender   == <<spc, settings, sps, runs>>
receiver == <<rpc, description>>
vars     == <<sender, text, file, found, receiver, announced>>

Unset == [group |-> ""]

NoDocument == [order |-> <<>>]

-----------------------------------------------------------------------------
(* The descriptions of other programs *)

\* As many elements as the set has, one or none.
IfAny(optional, Element(_)) == IF optional = {} THEN <<>> ELSE <<Element(Or(optional, 0))>>

FmtpOf(d) ==
    Line("fmtp",
         [payload |-> 96,
          params  |-> IfAny(d.width, LAMBDA x : Param("width", x))
                      \o IfAny(d.height, LAMBDA x : Param("height", x))
                      \o IfAny(d.rate, LAMBDA x : Param("exactframerate", x))
                      \o << Param("maxudp", 1200), Param("constants", "expected"),
                            Param("profile-level-id", d.sps.level),
                            Param("sprop-parameter-sets", [sps |-> d.sps, pps |-> [sps_id |-> d.sps.id]]) >>])

\* The lines that can stand in for each other, in some order, then the others.
Lines(d) ==
    LET Size(height) == Line("framesize", [payload |-> 96, width |-> 16, height |-> height])
        parts == << <<FmtpOf(d)>>, IfAny(d.framerate, LAMBDA x : Line("framerate", x)),
                    IfAny(d.framesize, Size) >>
    IN parts[d.order[1]] \o parts[d.order[2]] \o parts[d.order[3]]
       \o << Line("c", "C"), Line("m", [port |-> 5006, payload |-> 96, transport |-> "RTP/AVP"]),
             Line("rtcp", 5007), Line("rtpmap", [payload |-> 96, encoding |-> "H264/90000"]),
             Line("b", 4400), Line("ts-refclk", 26), Line("mediaclk", "direct=0") >>

\* What such a document says, whatever the order of its lines: the fmtp line
\* decides, framesize and framerate stand in where it is silent.
Declared(d) ==
    [group  |-> "C", port |-> 5006,
     width  |-> Or(d.width, IF d.framesize = {} THEN 0 ELSE 16),
     height |-> Or(d.height, Or(d.framesize, 0)),
     rate   |-> Or(d.rate, IF d.framerate = {} THEN EmptyDescription.rate
                           ELSE [num |-> Or(d.framerate, 0), den |-> 1000])]

Init ==
    /\ spc = "off" /\ settings = Unset /\ sps = Unset /\ runs = 0
    /\ text = <<>>
    /\ \/ file = <<>> /\ found = NoDocument /\ announced = {}
       \/ \E d \in Documents : file = Lines(d) /\ found = d /\ announced = {Declared(d)}
    /\ rpc = "off" /\ description = EmptyDescription

-----------------------------------------------------------------------------
(* The sender *)

\* Faulty: the bitrate is not checked against the overhead.
AcceptedOptions_AnyBitrate(o) ==
    /\ IsValidMediaPort(o.port)
    /\ o.max_udp \in MinUdpBytes .. MaxUdpBytes
    /\ o.bitrate # 0
    /\ o.late_packet_threshold # 0 /\ o.dscp <= 63

AcceptedOptions(o) ==
    /\ IsValidMediaPort(o.port)
    /\ o.max_udp \in MinUdpBytes .. MaxUdpBytes
    /\ o.bitrate # 0
    /\ o.late_packet_threshold # 0 /\ o.dscp <= 63
    /\ o.ip_bitrate # 0 => o.ip_bitrate >= MinimumIpBitrate(o.bitrate, o.max_udp)

IpBitrate(o) ==
    IF o.ip_bitrate = 0 THEN MinimumIpBitrate(o.bitrate, o.max_udp) ELSE o.ip_bitrate

\* "localmac=" and the address of the interface.
LocalReference == 26

\* The payload type and the media clock are constants, the reference clock is the
\* sender's own unless another one is named, the source address is the interface's.
\* The last ones are what the transmitter gets of the options.
Settings(o) ==
    [group |-> o.group, port |-> o.port, payload |-> 96, width |-> o.width, height |-> o.height,
     rate |-> o.rate, bitrate |-> o.bitrate, ip_bitrate |-> IpBitrate(o), max_udp |-> o.max_udp,
     ts_refclk |-> IF o.ts_refclk = 0 THEN LocalReference ELSE o.ts_refclk,
     media_clock |-> "direct=0", source |-> "interface",
     encoder_delay |-> o.encoder_delay, sender_reports_delay |-> o.sender_reports_delay,
     access_unit_offset |-> Or(o.access_unit_offset, Second \div 1000),
     late_packet_threshold |-> o.late_packet_threshold, dscp |-> o.dscp]

ParseOptions ==
    /\ spc = "off" /\ runs < MaxRuns
    /\ runs' = runs + 1
    /\ \E o \in Options :
          IF AcceptedOptions(o)
          THEN spc' = "encoder" /\ settings' = Settings(o)
          ELSE spc' = "failed" /\ UNCHANGED settings
    /\ UNCHANGED <<sps, text, file, found, receiver, announced>>

Even(n) == n # 0 /\ n % 2 = 0

\* The headers x264 makes: as asked, or not, for instance with a reduced rate.
Headers(s) ==
    {[id |-> 0, level |-> "640020", conforming |-> c, cbr |-> b, width |-> s.width,
      height |-> s.height, num_units_in_tick |-> d, time_scale |-> 2 * s.rate.num, size |-> 30] :
         c \in BOOLEAN, b \in BOOLEAN, d \in {1, s.rate.den}}

\* The constructors of the source and of the encoder.
EncoderAccepts(s, headers) ==
    /\ Even(s.width) /\ Even(s.height) /\ s.rate.num # 0 /\ s.rate.den # 0
    /\ ConformingSps(headers, s.width, s.height, s.rate) /\ ~headers.cbr

OpenEncoder ==
    /\ spc = "encoder"
    /\ \E headers \in Headers(settings) :
          IF EncoderAccepts(settings, headers)
          THEN spc' = "sdp" /\ sps' = headers
          ELSE spc' = "failed" /\ UNCHANGED sps
    /\ UNCHANGED <<settings, runs, text, file, found, receiver, announced>>

\* The file is emptied before the description is made.
OpenSdp ==
    /\ spc = "sdp"
    /\ file' = <<>> /\ found' = NoDocument
    /\ spc' = "make"
    /\ UNCHANGED <<settings, sps, runs, text, receiver, announced>>

DescribedSession == Session(settings)

FormatSdp ==
    /\ spc = "make"
    /\ IF CanMakeSdp(settings, sps, [sps_id |-> sps.id])
       THEN /\ spc' = "write"
            /\ text' = MakeSdp(settings, sps, [sps_id |-> sps.id])
            /\ announced' = announced \cup {DescribedSession}
       ELSE /\ spc' = "refused"
            /\ UNCHANGED <<text, announced>>
    /\ UNCHANGED <<settings, sps, runs, file, found, receiver>>

\* A cut fmtp line has some of its parameters; any other cut line is not there:
\* what is accepted does not end in one, except in the two that are ignored
\* or compared.
Beginnings(lines) ==
    {SubSeq(lines, 1, k) : k \in 0 .. Len(lines)}
    \cup UNION {{[SubSeq(lines, 1, f) EXCEPT ![f].value.params = SubSeq(@, 1, k)] :
                    k \in 0 .. Len(lines[f].value.params)} :
                f \in {i \in DOMAIN lines : lines[i].key = "fmtp"}}

\* The stream writes what it holds, all of it at the latest when it is closed;
\* an error while it is closed is not noticed.
WriteSdp ==
    /\ spc = "write"
    /\ file' \in Beginnings(text) /\ Len(file') >= Len(file)
    /\ spc' = "described"
    /\ text' = <<>>
    /\ UNCHANGED <<settings, sps, runs, found, receiver, announced>>

\* A reader, or a crash, may come before everything is written.
WritePart ==
    /\ spc = "write"
    /\ file' \in Beginnings(text) /\ Len(file') >= Len(file)
    /\ UNCHANGED <<sender, text, found, receiver, announced>>

\* Opening or writing the file fails, and the sender with it.
SdpFails ==
    /\ spc \in {"sdp", "write"}
    /\ spc' = "failed"
    /\ UNCHANGED <<settings, sps, runs, text, file, found, receiver, announced>>

\* resolve_ipmx_session_timing and make_ipmx_frame_schedule, at time 1.
FramePeriod(rate) == (Second * rate.den + rate.num - 1) \div rate.num

EncoderDelay(s) == Or(s.encoder_delay, 3 * FramePeriod(s.rate))

CanSchedule(s) ==
    /\ Or(s.sender_reports_delay, EncoderDelay(s)) <= EncoderDelay(s)
    /\ 1 <= MaxTime - EncoderDelay(s)
    /\ 1 + EncoderDelay(s) <= MaxTime - s.access_unit_offset

\* The constructor of the transmitter.
CanTransmit(s) ==
    /\ s.late_packet_threshold # 0 /\ s.dscp <= 63
    /\ IsValidMediaPort(s.port)
    /\ s.rate.num # 0 /\ s.rate.den # 0
    /\ CanSchedule(s)

\* The description is out when the transmitter is made.
StartTransmitter ==
    /\ spc = "described"
    /\ spc' = IF CanTransmit(settings) THEN "running" ELSE "abandoned"
    /\ UNCHANGED <<settings, sps, runs, text, file, found, receiver, announced>>

PpsSize == 6

\* The name of the source is the reference clock "@ipmx-windows".
Report(timestamp, packets, octets) ==
    [ssrc |-> 1, rtp_timestamp |-> timestamp, packet_count |-> packets, octet_count |-> octets,
     block_version |-> 1, ts_refclk |-> settings.ts_refclk, media_clock |-> 8,
     cname |-> settings.ts_refclk + 13,
     width |-> settings.width, height |-> settings.height, rate |-> settings.rate,
     level |-> sps.level, sprop |-> ParameterSetsSize(sps.size, PpsSize)]

\* The transmitter's thread opens its sockets and takes the first frame.
FirstReport ==
    /\ spc = "running"
    /\ spc' = IF CanReport(Report(1, 0, 0)) THEN "sending" ELSE "abandoned"
    /\ UNCHANGED <<settings, sps, runs, text, file, found, receiver, announced>>

\* A dump file or a socket cannot be opened.
StartFails ==
    /\ spc \in {"described", "running"}
    /\ spc' = "failed"
    /\ UNCHANGED <<settings, sps, runs, text, file, found, receiver, announced>>

\* The process ends, by itself or not.
SenderGone ==
    /\ spc # "off"
    /\ spc' = "off" /\ settings' = Unset /\ sps' = Unset /\ text' = <<>>
    /\ UNCHANGED <<runs, file, found, receiver, announced>>

-----------------------------------------------------------------------------
(* The receiver *)

\* The description after each number of lines, and after all of them.
ReadSdp(lines) ==
    LET read[n \in 0 .. Len(lines)] ==
            IF n = 0 THEN EmptyDescription ELSE ReadLine(read[n - 1], lines[n])
    IN  read[Len(lines)]

\* A receiver that does not accept what it reads ends.
StartReceiver ==
    /\ rpc # "joined"
    /\ LET read == ReadSdp(file)
       IN IF Accepted(read)
          THEN rpc' = "joined" /\ description' = read
          ELSE rpc' = "failed" /\ UNCHANGED description
    /\ UNCHANGED <<sender, text, file, found, announced>>

Next ==
    \/ ParseOptions \/ OpenEncoder \/ OpenSdp \/ FormatSdp \/ WriteSdp \/ WritePart \/ SdpFails
    \/ StartTransmitter \/ FirstReport \/ StartFails \/ SenderGone
    \/ StartReceiver

Spec == Init /\ [][Next]_vars

-----------------------------------------------------------------------------

\* Whenever a receiver reads, while a description is written, after a crash or
\* while the file is an older one, it joins a session that has been
\* described, as a whole, or none at all.
JoinsADescribedSession == rpc = "joined" => Session(description) \in announced

\* The lines are read as they come, but their order does not matter: framesize
\* and framerate never override the fmtp line, before it or after it.
OrderDoesNotMatter == found # NoDocument => Session(ReadSdp(file)) = Declared(found)

\* A complete description is accepted by every receiver and means the session
\* it was made for.
CompleteIsAccepted ==
    spc = "write" => LET d == ReadSdp(text) IN Accepted(d) /\ Session(d) = DescribedSession

\* What nobody looks at before the description is written, if the encoder does not:
\* whether the clock's reference, the frame rate and the size of the picture fit
\* the report, and whether the delays make sense.
Unchecked(s) ==
    \/ s.ts_refclk > ReferenceSize \/ s.width > MaxSide \/ s.height > MaxSide
    \/ s.rate.num > MaxNumerator \/ s.rate.den > MaxDenominator
    \/ \E delay \in s.sender_reports_delay : delay > EncoderDelay(s)
    \/ EncoderDelay(s) >= MaxTime - s.access_unit_offset

\* A sender empties the file, which may hold the description of another one,
\* only if it can put its own there; and having announced its session it
\* fails to send, but for the system, for none of the reasons that it could have
\* seen before, except for those that nobody looks at.
ChecksSuffice ==
    /\ spc # "refused"
    /\ spc = "abandoned" => Unchecked(settings)
    /\ spc = "sending" => ~Unchecked(settings)

\* Every report of a sender is found by the inspection to be one, with all its
\* parts and the numbers that were put in; its lengths are whole words.
ReportIsReadable ==
    spc = "sending" =>
       LET compound == MakeCompound(Report(12345, 7, 9000))
       IN /\ SizeOf(compound) % 4 = 0
          /\ Inspect(Layout(compound)) =
                [sender_report |-> TRUE, ipmx_info_block |-> TRUE, compressed_video_info |-> TRUE,
                 h264_info |-> TRUE, sdes_cname |-> TRUE, block_version |-> 1,
                 rtp_timestamp |-> 12345, packet_count |-> 7, octet_count |-> 9000]
=============================================================================
