-------------------------------- MODULE Sdp --------------------------------
(***************************************************************************)
(* The session description: when the sender can make one, which lines it   *)
(* has, how a line is read, and when what was read is accepted.            *)
(*                                                                         *)
(* A description is a sequence of lines, a line a key with its value.  The *)
(* parameters of the fmtp line whose values the code fixes (sampling,      *)
(* depth, colorimetry, TCS, RANGE, TP, packetization-mode, IPMX) are one   *)
(* parameter, "constants".  What the sequence parameter set says of        *)
(* profile, chroma, depth, VUI, colour, HRD and reordering is one flag,    *)
(* "conforming", or its opposite (SpsSyntax has the details).  A clock     *)
(* reference is known by the length of its text.  An optional value is a   *)
(* set of at most one element.                                             *)
(***************************************************************************)
EXTENDS Naturals, FiniteSetsExt, SequencesExt

MinUdpBytes == 64
MaxUdpBytes == 1460

IsValidMediaPort(port) == port >= 1026 /\ port <= 65534 /\ port % 2 = 0

\* minimum_ip_bitrate_kbps, where it does not throw; bitrates are far below 2^32.
MinimumIpBitrate(bitrate, max_udp) ==
    LET fragments == (bitrate * 58 + max_udp - 31) \div (max_udp - 30)
    IN bitrate + Max({128, (bitrate + 9) \div 10, fragments})

ConformingSps(sps, width, height, rate) ==
    /\ sps.conforming
    /\ sps.width = width /\ sps.height = height
    /\ sps.num_units_in_tick = rate.den /\ sps.time_scale = 2 * rate.num

CanMakeSdp(s, sps, pps) ==
    /\ s.rate.num # 0 /\ s.rate.den # 0
    /\ s.ts_refclk # 0 /\ s.media_clock # "" /\ s.source # ""
    /\ IsValidMediaPort(s.port)
    /\ s.max_udp \in MinUdpBytes .. MaxUdpBytes
    /\ s.bitrate # 0 /\ s.ip_bitrate >= MinimumIpBitrate(s.bitrate, s.max_udp)
    /\ pps.sps_id = sps.id
    /\ ConformingSps(sps, s.width, s.height, s.rate)

-----------------------------------------------------------------------------
(* The lines *)

Line(key, value) == [key |-> key, value |-> value]

Param(name, value) == [name |-> name, value |-> value]

\* As it is written: three decimals.
Thousandths(rate) ==
    (rate.num \div rate.den) * 1000 + ((rate.num % rate.den) * 1000 + rate.den \div 2) \div rate.den

FmtpLine(s, sps, pps) ==
    Line("fmtp", [payload |-> s.payload,
                  params  |-> << Param("width", s.width), Param("height", s.height),
                                 Param("exactframerate", s.rate),
                                 Param("maxudp", s.max_udp),
                                 Param("constants", "expected"),
                                 Param("profile-level-id", sps.level),
                                 Param("sprop-parameter-sets", [sps |-> sps, pps |-> pps]) >>])

\* Faulty: the group is given with the media, after the format.
MakeSdp_GroupLast(s, sps, pps) ==
    << Line("m", [port |-> s.port, payload |-> s.payload, transport |-> "RTP/AVP"]),
       Line("b", s.ip_bitrate), Line("rtcp", s.port + 1),
       Line("ts-refclk", s.ts_refclk), Line("mediaclk", s.media_clock),
       Line("rtpmap", [payload |-> s.payload, encoding |-> "H264/90000"]),
       FmtpLine(s, sps, pps),
       Line("c", s.group) >>

MakeSdp(s, sps, pps) ==
    << Line("c", s.group),
       Line("m", [port |-> s.port, payload |-> s.payload, transport |-> "RTP/AVP"]),
       Line("b", s.ip_bitrate), Line("rtcp", s.port + 1),
       Line("ts-refclk", s.ts_refclk), Line("mediaclk", s.media_clock),
       Line("rtpmap", [payload |-> s.payload, encoding |-> "H264/90000"]),
       FmtpLine(s, sps, pps),
       Line("framerate", Thousandths(s.rate)),
       Line("framesize", [payload |-> s.payload, width |-> s.width, height |-> s.height]) >>

-----------------------------------------------------------------------------
(* Reading *)

EmptyDescription ==
    [group |-> "default", port |-> 5004, payload |-> 96, width |-> 0, height |-> 0,
     rate |-> [num |-> 0, den |-> 0], ip_bitrate |-> 0, max_udp |-> 0,
     ts_refclk |-> 0, media_clock |-> "",
     media_seen |-> FALSE, exact_frame_rate_seen |-> FALSE, rtcp_port |-> {}, rtpmap |-> {},
     fmtp_payload |-> {}, fmtp_width |-> {}, fmtp_height |-> {}, framesize |-> {},
     constants |-> "", level |-> "", sps |-> {}, pps |-> {},
     throws |-> FALSE]

\* The value of a parameter, the last one if it is repeated.
Find(params, name) ==
    LET at == {i \in DOMAIN params : params[i].name = name}
    IN IF at = {} THEN {} ELSE {params[Max(at)].value}

Or(optional, default) == IF optional = {} THEN default ELSE CHOOSE v \in optional : TRUE

ReadMedia(d, media) ==
    IF media.port > 65535 \/ media.payload > 127
    THEN [d EXCEPT !.throws = TRUE]
    ELSE [d EXCEPT !.port = media.port, !.payload = media.payload,
                   !.media_seen = (media.transport = "RTP/AVP")]

ReadFmtp(d, fmtp) ==
    LET width  == Find(fmtp.params, "width")
        height == Find(fmtp.params, "height")
        rate   == Find(fmtp.params, "exactframerate")
        sets   == Find(fmtp.params, "sprop-parameter-sets")
    IN IF rate # {} /\ (Or(rate, 0).num = 0 \/ Or(rate, 0).den = 0)
       THEN [d EXCEPT !.throws = TRUE]
       ELSE [d EXCEPT !.fmtp_payload = {fmtp.payload},
                      !.fmtp_width   = IF width = {} THEN @ ELSE width,
                      !.width        = Or(width, @),
                      !.fmtp_height  = IF height = {} THEN @ ELSE height,
                      !.height       = Or(height, @),
                      !.rate         = Or(rate, @),
                      !.exact_frame_rate_seen = (@ \/ rate # {}),
                      !.max_udp      = Or(Find(fmtp.params, "maxudp"), @),
                      !.constants    = Or(Find(fmtp.params, "constants"), @),
                      !.level        = Or(Find(fmtp.params, "profile-level-id"), @),
                      !.sps          = IF sets = {} THEN @ ELSE {Or(sets, 0).sps},
                      !.pps          = IF sets = {} THEN @ ELSE {Or(sets, 0).pps}]

\* Faulty: the size of the picture is taken over.
ReadFramesize_Overwrites(d, framesize) ==
    [d EXCEPT !.framesize = {framesize}, !.width = framesize.width, !.height = framesize.height]

ReadFramesize(d, framesize) ==
    [d EXCEPT !.framesize = {framesize},
              !.width     = IF @ = 0 THEN framesize.width ELSE @,
              !.height    = IF @ = 0 THEN framesize.height ELSE @]

\* Faulty: it is read although the exact rate is known.
ReadFramerate_Always(d, thousandths) ==
    IF thousandths = 0 \/ thousandths > 1000000
    THEN [d EXCEPT !.throws = TRUE]
    ELSE [d EXCEPT !.rate = [num |-> thousandths, den |-> 1000]]

ReadFramerate(d, thousandths) ==
    IF d.exact_frame_rate_seen
    THEN d
    ELSE IF thousandths = 0 \/ thousandths > 1000000
         THEN [d EXCEPT !.throws = TRUE]
         ELSE [d EXCEPT !.rate = [num |-> thousandths, den |-> 1000]]

ReadLine(d, line) ==
    CASE line.key = "c"         -> [d EXCEPT !.group = line.value]
      [] line.key = "m"         -> ReadMedia(d, line.value)
      [] line.key = "b"         -> IF line.value = 0 THEN [d EXCEPT !.throws = TRUE]
                                                     ELSE [d EXCEPT !.ip_bitrate = line.value]
      [] line.key = "rtcp"      -> [d EXCEPT !.rtcp_port = {line.value}]
      [] line.key = "rtpmap"    -> [d EXCEPT !.rtpmap = {line.value}]
      [] line.key = "fmtp"      -> ReadFmtp(d, line.value)
      [] line.key = "framesize" -> ReadFramesize(d, line.value)
      [] line.key = "framerate" -> ReadFramerate(d, line.value)
      [] line.key = "ts-refclk" -> [d EXCEPT !.ts_refclk = line.value]
      [] line.key = "mediaclk"  -> [d EXCEPT !.media_clock = line.value]

-----------------------------------------------------------------------------
(* Accepting *)

Agrees(framesize, d) ==
    /\ framesize.payload = d.payload
    /\ {framesize.width} = d.fmtp_width /\ {framesize.height} = d.fmtp_height

\* validate_ipmx_sdp has nothing to report.
Accepted(d) ==
    /\ ~d.throws
    /\ d.media_seen
    /\ d.ip_bitrate # 0
    /\ IsValidMediaPort(d.port)
    /\ d.rtcp_port = {d.port + 1}
    /\ d.rtpmap = {[payload |-> d.payload, encoding |-> "H264/90000"]}
    /\ d.fmtp_payload = {d.payload}
    /\ d.fmtp_width \notin {{}, {0}} /\ d.fmtp_height \notin {{}, {0}}
    /\ d.exact_frame_rate_seen
    /\ d.constants = "expected"
    /\ d.max_udp \in MinUdpBytes .. MaxUdpBytes
    /\ d.ts_refclk # 0 /\ d.media_clock \in {"direct=0", "sender/direct=0"}
    /\ \A framesize \in d.framesize : Agrees(framesize, d)
    /\ d.sps # {} /\ d.pps # {}
    /\ \A sps \in d.sps : d.level = sps.level /\ ConformingSps(sps, d.width, d.height, d.rate)

\* What a receiver uses of it.
Session(d) ==
    [group |-> d.group, port |-> d.port, width |-> d.width, height |-> d.height, rate |-> d.rate]
=============================================================================
