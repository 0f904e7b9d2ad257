----------------------------- MODULE RtpHeader -----------------------------
(***************************************************************************)
(* RTP datagrams as a sender writes them and parse_rtp_packet reads them.  *)
(* A datagram is its header, octet by octet, a payload of which only the   *)
(* size counts here, and the padding after it.                             *)
(*                                                                         *)
(* How a sender dresses its packets is its own affair: [csrcs, extension,  *)
(* profile, before, after, padding].  There may be contributing sources,   *)
(* padding and a header extension, which carries the capture time on every *)
(* packet, on the last one of an access unit or on none, with other        *)
(* elements before and after it.                                           *)
(***************************************************************************)
EXTENDS Integers, SequencesExt

Zeros(count) == [k \in 1 .. count |-> 0]

\* A capture time is eight octets; the parser gives zero when there is none.
NoTime == Zeros(8)

H264PayloadType == 96
CaptureTimeProfile == 48862    \* 0xBEDE: one-octet element headers
CaptureTimeId == 1
BaseHeader == 12

\* The dressing of this repository's sender (make_packet).
OwnDressing ==
    [csrcs |-> 0, extension |-> TRUE, carries |-> "all", profile |-> CaptureTimeProfile,
     before |-> <<>>, after |-> <<>>, padding |-> 0]

-----------------------------------------------------------------------------
(* Writing *)

Octets16(value) == <<(value \div 256) % 256, value % 256>>
Octets32(value) == Octets16(value \div 65536) \o Octets16(value)
FlagOf(condition, value) == IF condition THEN value ELSE 0

CarriesTime(dressing, marker) ==
    dressing.carries = "all" \/ (dressing.carries = "last" /\ marker)

\* One-octet-header element of eight octets, the others of the dressing around
\* it, zeros up to a whole number of words.
Elements(dressing, marker, captureTime) ==
    LET own    == IF CarriesTime(dressing, marker)
                  THEN <<16 * CaptureTimeId + 7>> \o captureTime ELSE <<>>
        octets == dressing.before \o own \o dressing.after
    IN  octets \o Zeros((-Len(octets)) % 4)

Extension(dressing, marker, captureTime) ==
    LET elements == Elements(dressing, marker, captureTime)
    IN  Octets16(dressing.profile) \o Octets16(Len(elements) \div 4) \o elements

\* The datagram of packet p with a payload of `size` octets.
Datagram(p, size, ssrc, dressing) ==
    [header |->
        <<128 + FlagOf(dressing.padding > 0, 32) + FlagOf(dressing.extension, 16)
              + dressing.csrcs,
          FlagOf(p.marker, 128) + H264PayloadType>>
        \o Octets16(p.sequence) \o Octets32(p.timestamp) \o ssrc
        \o Zeros(4 * dressing.csrcs)
        \o (IF dressing.extension THEN Extension(dressing, p.marker, p.captureTime) ELSE <<>>),
     size |-> size,
     padding |-> IF dressing.padding = 0 THEN <<>>
                 ELSE Zeros(dressing.padding - 1) \o <<dressing.padding>>]

DatagramSize(d) == Len(d.header) + d.size + Len(d.padding)

-----------------------------------------------------------------------------
(* Reading; offsets count from 0 as in the code *)

Octet(d, offset) == d.header[offset + 1]
Read16(d, offset) == 256 * Octet(d, offset) + Octet(d, offset + 1)
Read32(d, offset) == 65536 * Read16(d, offset) + Read16(d, offset + 2)

Flagged(d, bit) == (Octet(d, 0) \div bit) % 2 = 1

SourcesEnd(d) == BaseHeader + 4 * (Octet(d, 0) % 16)

ExtensionBegin(d) == SourcesEnd(d) + 4
ExtensionEnd(d) == ExtensionBegin(d) + 4 * Read16(d, SourcesEnd(d) + 2)

\* Faulty: a padding octet is taken for the header of an element.
ReadElements_NoPadding(d) ==
    LET end == ExtensionEnd(d)
        from[cursor \in ExtensionBegin(d) .. end] ==
            IF cursor >= end \/ Octet(d, cursor) \div 16 = 15
            THEN [valid |-> TRUE, times |-> <<>>]
            ELSE LET next == cursor + 2 + (Octet(d, cursor) % 16)
                 IN  IF next > end THEN [valid |-> FALSE, times |-> <<>>]
                     ELSE IF Octet(d, cursor) = 16 * CaptureTimeId + 7
                     THEN [from[next] EXCEPT
                             !.times = <<SubSeq(d.header, cursor + 2, cursor + 9)>> \o @]
                     ELSE from[next]
    IN  from[ExtensionBegin(d)]

\* The elements of the extension: whether each lies within it, and the capture
\* times among them.  A zero octet is padding, identifier 15 ends the list.
ReadElements(d) ==
    LET end == ExtensionEnd(d)
        from[cursor \in ExtensionBegin(d) .. end] ==
            IF cursor >= end \/ Octet(d, cursor) \div 16 = 15
            THEN [valid |-> TRUE, times |-> <<>>]
            ELSE IF Octet(d, cursor) = 0 THEN from[cursor + 1]
            ELSE LET next == cursor + 2 + (Octet(d, cursor) % 16)
                 IN  IF next > end THEN [valid |-> FALSE, times |-> <<>>]
                     ELSE IF Octet(d, cursor) = 16 * CaptureTimeId + 7
                     THEN [from[next] EXCEPT
                             !.times = <<SubSeq(d.header, cursor + 2, cursor + 9)>> \o @]
                     ELSE from[next]
    IN  from[ExtensionBegin(d)]

\* Where the payload begins, and the capture time; invalid when the extension
\* does not fit in the datagram.
ReadExtension(d) ==
    IF ~Flagged(d, 16)
    THEN [valid |-> TRUE, times |-> <<>>, end |-> SourcesEnd(d)]
    ELSE IF ExtensionBegin(d) > DatagramSize(d) \/ ExtensionEnd(d) > DatagramSize(d)
    THEN [valid |-> FALSE]
    ELSE LET elements == IF Read16(d, SourcesEnd(d)) = CaptureTimeProfile
                         THEN ReadElements(d) ELSE [valid |-> TRUE, times |-> <<>>]
         IN  [valid |-> elements.valid, times |-> elements.times, end |-> ExtensionEnd(d)]

\* The count in the last octet, of which the padding octets are the last ones.
PaddingSize(d) == IF Flagged(d, 32) THEN Last(d.header \o d.padding) ELSE 0

HasValidHeader(d) ==
    LET extension == ReadExtension(d)
    IN  /\ DatagramSize(d) >= BaseHeader
        /\ Octet(d, 0) \div 64 = 2
        /\ SourcesEnd(d) <= DatagramSize(d)
        /\ extension.valid
        /\ Flagged(d, 32) => PaddingSize(d) \in 1 .. DatagramSize(d) - extension.end
        /\ extension.end < DatagramSize(d) - PaddingSize(d)

\* parse_rtp_packet of a datagram with a valid header: what it reads, and where
\* the payload lies.
Parse(d) ==
    LET extension == ReadExtension(d)
    IN  [payloadType |-> Octet(d, 1) % 128,
         marker      |-> Octet(d, 1) >= 128,
         sequence    |-> Read16(d, 2),
         timestamp   |-> Read32(d, 4),
         captureTime |-> IF extension.times = <<>> THEN NoTime ELSE Last(extension.times),
         begin       |-> extension.end,
         end         |-> DatagramSize(d) - PaddingSize(d)]
=============================================================================
