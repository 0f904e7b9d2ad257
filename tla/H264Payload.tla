----------------------------- MODULE H264Payload -----------------------------
(***************************************************************************)
(* RFC 6184 payloads as the sender's RtpPacketizer makes them and the      *)
(* receiver's H264Depacketizer reads them.                                 *)
(*                                                                         *)
(* A NAL unit is a sequence of opaque units (bytes in the code), the first *)
(* of which is its header.  A packet body is a single NAL, an aggregate of *)
(* NALs (STAP-A) or a fragment of one (FU-A).                              *)
(***************************************************************************)
EXTENDS RtpHeader, FiniteSetsExt

CONSTANTS
    MaxPayload,   \* maximum_datagram_bytes_ less the 28 header bytes
    MaxNalUnits,  \* kMaximumNalBytes
    MaxAuUnits,   \* kMaximumAccessUnitBytes
    MaxNals       \* kMaximumNalsPerAccessUnit

ASSUME PayloadAssumption ==
    /\ MaxPayload \in Nat /\ MaxPayload > 2
    /\ MaxNalUnits \in Nat /\ MaxAuUnits \in Nat /\ MaxNals \in Nat

TotalUnits(nals) == FoldLeft(LAMBDA total, nal : total + Len(nal), 0, nals)

-----------------------------------------------------------------------------
(* The packetizer *)

Single(nal) == [kind |-> "single", nals |-> <<nal>>]
Aggregate(nals) == [kind |-> "stap", nals |-> nals]
Fragment(header, data, start, last) ==
    [kind |-> "fu", header |-> header, data |-> data, start |-> start, last |-> last]

AggregateSize(nals) == 1 + 2 * Len(nals) + TotalUnits(nals)

\* The index after the longest run of NALs from `index` that fits in one STAP-A.
RunEnd(nals, index) ==
    Max({index} \cup
        {end \in index + 1 .. Len(nals) + 1 :
            /\ \A i \in index .. end - 1 : nals[i] # <<>>
            /\ AggregateSize(SubSeq(nals, index, end - 1)) <= MaxPayload})

Fragments(nal) ==
    LET room  == MaxPayload - 2
        data  == Tail(nal)
        count == (Len(data) + room - 1) \div room
    IN  [k \in 1 .. count |->
            Fragment(Head(nal),
                     SubSeq(data, (k - 1) * room + 1, Min({k * room, Len(data)})),
                     k = 1, k = count)]

\* The bodies made of the NALs up to `end`, one after the last NAL they carry; the
\* marker goes on the body that ends the access unit.
Marked(nals, bodies, end) ==
    [k \in DOMAIN bodies |->
        [body |-> bodies[k], marker |-> end = Len(nals) + 1 /\ k = Len(bodies)]]

Bodies(nals) ==
    LET from[index \in 1 .. Len(nals) + 1] ==
            IF index > Len(nals) THEN <<>>
            ELSE IF nals[index] = <<>> THEN from[index + 1]
            ELSE LET end == RunEnd(nals, index)
                 IN  IF end > index + 1
                     THEN Marked(nals, <<Aggregate(SubSeq(nals, index, end - 1))>>, end) \o from[end]
                     ELSE IF Len(nals[index]) <= MaxPayload
                     THEN Marked(nals, <<Single(nals[index])>>, index + 1) \o from[index + 1]
                     ELSE Marked(nals, Fragments(nals[index]), index + 1) \o from[index + 1]
    IN  from[1]

\* What of an access unit is sent: all but its empty NALs.
Kept(nals) ==
    LET from[index \in 1 .. Len(nals) + 1] ==
            IF index > Len(nals) THEN <<>>
            ELSE IF nals[index] = <<>> THEN from[index + 1]
            ELSE <<nals[index]>> \o from[index + 1]
    IN  from[1]

PayloadSize(body) ==
    CASE body.kind = "single" -> Len(body.nals[1])
      [] body.kind = "stap"   -> 1 + 2 * Len(body.nals) + TotalUnits(body.nals)
      [] body.kind = "fu"     -> 2 + Len(body.data)

-----------------------------------------------------------------------------
(* The depacketizer *)

EmptyDepacketizer ==
    [active |-> FALSE, fragmented |-> FALSE, damaged |-> FALSE,
     timestamp |-> 0, captureTime |-> NoTime, lastSequence |-> 0, units |-> 0,
     nals |-> <<>>, fragment |-> <<>>]

\* Faulty: the damage, or the size of what was assembled, survives.
Reset_KeepsDamage(d) ==
    [d EXCEPT !.active = FALSE, !.fragmented = FALSE,
              !.units = 0, !.nals = <<>>, !.fragment = <<>>]
Reset_KeepsUnits(d) ==
    [d EXCEPT !.active = FALSE, !.fragmented = FALSE, !.damaged = FALSE,
              !.nals = <<>>, !.fragment = <<>>]

\* reset: the timestamp, the capture time and the last sequence number survive it.
Reset(d) ==
    [d EXCEPT !.active = FALSE, !.fragmented = FALSE, !.damaged = FALSE,
              !.units = 0, !.nals = <<>>, !.fragment = <<>>]

\* start_timestamp
Started(d, p) ==
    [Reset(d) EXCEPT !.active = TRUE, !.timestamp = p.timestamp, !.captureTime = p.captureTime]

Damaged(d) == [d EXCEPT !.damaged = TRUE]
NoFragment(d) == [d EXCEPT !.fragmented = FALSE, !.fragment = <<>>]

\* A complete NAL in the middle of a fragmented one spoils the access unit.
Interrupted(d) == IF d.fragmented THEN NoFragment(Damaged(d)) ELSE d

WithNal(d, nal) == [d EXCEPT !.nals = Append(@, nal), !.units = @ + Len(nal)]

HasRoom(d, nal) == Len(d.nals) < MaxNals /\ d.units + Len(nal) <= MaxAuUnits

AcceptSingle(d, nal) ==
    IF Len(nal) > MaxNalUnits \/ ~HasRoom(d, nal) THEN Damaged(d) ELSE WithNal(d, nal)

\* The NALs of an aggregate up to the first one there is no room for.
AcceptAggregate(d, nals) ==
    LET upTo[k \in 0 .. Len(nals)] ==
            IF k = 0 THEN [state |-> d, stopped |-> FALSE]
            ELSE IF upTo[k - 1].stopped THEN upTo[k - 1]
            ELSE IF HasRoom(upTo[k - 1].state, nals[k])
                 THEN [state |-> WithNal(upTo[k - 1].state, nals[k]), stopped |-> FALSE]
                 ELSE [state |-> Damaged(upTo[k - 1].state), stopped |-> TRUE]
    IN  upTo[Len(nals)].state

\* A fragment that starts a NAL, ...
StartFragment(d, body) ==
    LET opened == [(IF d.fragmented THEN Damaged(d) ELSE d) EXCEPT !.fragment = <<body.header>>]
    IN  IF Len(body.data) > MaxNalUnits - 1
        THEN [Damaged(opened) EXCEPT !.fragmented = FALSE]
        ELSE [opened EXCEPT !.fragment = @ \o body.data, !.fragmented = TRUE]

\* ... one that continues it, ...
ContinueFragment(d, body) ==
    IF ~d.fragmented THEN Damaged(d)
    ELSE IF Len(d.fragment) + Len(body.data) > MaxNalUnits THEN NoFragment(Damaged(d))
    ELSE [d EXCEPT !.fragment = @ \o body.data]

\* ... and what the end flag of either one does.
EndFragment(d) ==
    IF ~d.fragmented THEN d
    ELSE NoFragment(IF HasRoom(d, d.fragment) THEN WithNal(d, d.fragment) ELSE Damaged(d))

AcceptFragment(d, body) ==
    LET grown == IF body.start THEN StartFragment(d, body) ELSE ContinueFragment(d, body)
    IN  IF body.last THEN EndFragment(grown) ELSE grown

Accept(d, body) ==
    CASE body.kind = "single" -> AcceptSingle(Interrupted(d), body.nals[1])
      [] body.kind = "stap"   -> AcceptAggregate(Interrupted(d), body.nals)
      [] body.kind = "fu"     -> AcceptFragment(d, body)

\* Faulty: jumps in the sequence numbers are not noticed.
Taken_NoGap(d, p, space) ==
    LET begun == IF ~d.active \/ p.timestamp # d.timestamp THEN Started(d, p) ELSE d
    IN  Accept([begun EXCEPT !.lastSequence = p.sequence], p.body)

\* H264Depacketizer::push up to the marker: a packet of another timestamp drops
\* what was being assembled; the first capture time that is not zero is the
\* access unit's; a jump in the sequence numbers spoils it, provided that
\* something has been assembled.
Taken(d, p, space) ==
    LET begun == IF ~d.active \/ p.timestamp # d.timestamp THEN Started(d, p) ELSE d
        gap   == /\ begun.fragmented \/ begun.nals # <<>>
                 /\ (begun.lastSequence + 1) % space # p.sequence
    IN  Accept([begun EXCEPT !.captureTime = IF @ = NoTime THEN p.captureTime ELSE @,
                             !.damaged = @ \/ gap,
                             !.lastSequence = p.sequence], p.body)

Completes(d, p, space) ==
    LET taken == Taken(d, p, space)
    IN  p.marker /\ ~taken.fragmented /\ ~taken.damaged /\ taken.nals # <<>>

Pushed(d, p, space) ==
    IF p.marker THEN Reset(Taken(d, p, space)) ELSE Taken(d, p, space)
=============================================================================
