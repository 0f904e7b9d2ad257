----------------------------- MODULE RtcpReport -----------------------------
(***************************************************************************)
(* The RTCP packet that goes before each frame: what it is made of, when   *)
(* it can be made, and how it is inspected.                                *)
(*                                                                         *)
(* The packet is a sequence of fields with their sizes in bytes.  Reading  *)
(* goes by offsets: a number is understood only where a field of that size *)
(* begins.  Texts are known by their lengths; what they and the constant   *)
(* fields hold does not matter and is 0.                                   *)
(***************************************************************************)
EXTENDS Integers, SequencesExt

Field(size, value) == [size |-> size, value |-> value]

Constant(size) == Field(size, 0)

SizeOf(fields) == FoldLeft(LAMBDA total, field : total + field.size, 0, fields)

\* The lengths in the packet are in words of four bytes, less one.
LengthOf(fields) == SizeOf(fields) \div 4 - 1

Padding(fields) == Constant((-SizeOf(fields)) % 4)

ReferenceSize == 64
ClockSize     == 12
ReportSize    == 28
IpmxTag       == 22577   \* "X1"
VideoType     == 5
H264Type      == 10

\* The sides of the picture have 16 bits in the packet, the rate 22 and 10.
MaxSide        == 65535
MaxNumerator   == 4194303
MaxDenominator == 1023

Base64Size(bytes) == ((bytes + 2) \div 3) * 4

\* make_ipmx_h264_media_info
ParameterSetsSize(sps_size, pps_size) == Base64Size(sps_size) + 1 + Base64Size(pps_size)

\* Where make_ipmx_rtcp_compound does not throw.
CanReport(r) ==
    /\ r.ts_refclk \in 1 .. ReferenceSize /\ r.cname \in 1 .. 255 /\ r.media_clock <= ClockSize
    /\ r.width \in 1 .. MaxSide /\ r.height \in 1 .. MaxSide
    /\ r.rate.num \in 1 .. MaxNumerator /\ r.rate.den \in 1 .. MaxDenominator
    /\ r.level # "000000" /\ r.sprop <= 255

\* A block with its type, its own length and its other fields.
Block(type, fields) ==
    LET header(length) == << Field(2, type), Field(2, length) >>
        all == header(0) \o fields
    IN header(LengthOf(all)) \o fields

VideoBlock(r) ==
    Block(VideoType,
          << Constant(16), Constant(4), Constant(12), Constant(20), Constant(16),
             Field(2, r.width), Field(2, r.height), Constant(4),
             Constant(8), Field(2, r.width), Field(2, r.height) >>)

\* Faulty: the parameter sets are not filled up to a word.
H264Block_Unfilled(r) ==
    Block(H264Type,
          << Constant(4), Constant(4), Constant(4), Constant(8),
             Field(1, r.sprop), Constant(3), Constant(r.sprop) >>)

H264Block(r) ==
    LET fields == << Constant(4), Constant(4), Constant(4), Constant(8),
                     Field(1, r.sprop), Constant(3), Constant(r.sprop) >>
    IN Block(H264Type, fields \o << Padding(fields) >>)

\* The blocks of media are inside the block of IPMX, and that in the report.
IpmxBlock(r) ==
    Block(IpmxTag,
          << Field(1, r.block_version), Constant(3), Constant(ReferenceSize), Constant(ClockSize) >>
          \o VideoBlock(r) \o H264Block(r))

\* Version and counts, the packet type, the length, and the other fields.
Packet(type, fields) ==
    LET header(length) == << Field(1, 2), Field(1, type), Field(2, length) >>
        all == header(0) \o fields
    IN header(LengthOf(all)) \o fields

MakeCompound(r) ==
    LET name == << Field(1, 1), Field(1, r.cname), Constant(r.cname), Constant(1) >>
    IN Packet(200, << Field(4, r.ssrc), Constant(8), Field(4, r.rtp_timestamp),
                      Field(4, r.packet_count), Field(4, r.octet_count) >> \o IpmxBlock(r))
       \o Packet(202, << Field(4, r.ssrc) >> \o name \o << Padding(name) >>)

-----------------------------------------------------------------------------
(* Inspection *)

NothingFound ==
    [sender_report |-> FALSE, ipmx_info_block |-> FALSE, compressed_video_info |-> FALSE,
     h264_info |-> FALSE, sdes_cname |-> FALSE, block_version |-> 0,
     rtp_timestamp |-> 0, packet_count |-> 0, octet_count |-> 0]

\* A packet as it is received: its size, and what begins where.
Layout(fields) ==
    FoldLeft(LAMBDA packet, field :
                 IF field.size = 0 THEN packet
                 ELSE [size |-> packet.size + field.size, at |-> packet.at @@ (packet.size :> field)],
             [size |-> 0, at |-> <<>>], fields)

\* A number that is read across fields.
Misread == -1

ReadAt(packet, offset, size) ==
    IF offset + size > packet.size THEN 0
    ELSE IF offset \in DOMAIN packet.at /\ packet.at[offset].size = size
         THEN packet.at[offset].value ELSE Misread

BytesAt(packet, offset) == (ReadAt(packet, offset, 2) + 1) * 4

\* The types of the blocks from the offset to the end, and whether they fill it.
MediaTypes(packet, from, end) ==
    LET types[offset \in 0 .. end] ==
            LET size == BytesAt(packet, offset + 2)
                rest == types[offset + size]
            IN IF offset + 4 > end THEN [fill |-> offset = end, found |-> {}]
               ELSE IF size < 4 \/ offset + size > end THEN [fill |-> FALSE, found |-> {}]
               ELSE [fill |-> rest.fill, found |-> {ReadAt(packet, offset, 2)} \cup rest.found]
    IN types[from]

\* The name of the source is there, and all of it.
NameFound(packet, report) ==
    /\ packet.size >= report + 10
    /\ ReadAt(packet, report, 1) = 2 /\ ReadAt(packet, report + 1, 1) = 202
    /\ ReadAt(packet, report + 8, 1) = 1
    /\ report + 10 + ReadAt(packet, report + 9, 1) <= packet.size

Inspect(packet) ==
    LET report == BytesAt(packet, 2)
        ipmx   == BytesAt(packet, 30)
        media  == MediaTypes(packet, 112, report)
        isReport == /\ packet.size >= 112
                    /\ ReadAt(packet, 0, 1) = 2 /\ ReadAt(packet, 1, 1) = 200
                    /\ report >= 108 /\ report <= packet.size
        isIpmx   == isReport /\ ReadAt(packet, 28, 2) = IpmxTag
        isWhole  == isIpmx /\ ReportSize + ipmx = report /\ ipmx >= 84
    IN IF ~isReport THEN NothingFound
       ELSE [sender_report         |-> TRUE,
             rtp_timestamp         |-> ReadAt(packet, 16, 4),
             packet_count          |-> ReadAt(packet, 20, 4),
             octet_count           |-> ReadAt(packet, 24, 4),
             ipmx_info_block       |-> isIpmx,
             block_version         |-> IF isIpmx THEN ReadAt(packet, 32, 1) ELSE 0,
             compressed_video_info |-> isWhole /\ VideoType \in media.found,
             h264_info             |-> isWhole /\ H264Type \in media.found,
             sdes_cname            |-> isWhole /\ media.fill /\ NameFound(packet, report)]
=============================================================================
