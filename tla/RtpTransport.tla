---------------------------- MODULE RtpTransport ----------------------------
(***************************************************************************)
(* The media path: the sender packetizes access units and numbers the      *)
(* packets, UDP multicast loses, duplicates and reorders them, and the     *)
(* receiver's loop feeds its sequence tracker and its depacketizer and     *)
(* hands completed access units to the decoder once one that carries SPS,  *)
(* PPS and an IDR slice has been completed.  Sender and receiver may start *)
(* in either order, a sender may stop and another take over, and datagrams *)
(* of other programs may reach the group.                                  *)
(***************************************************************************)
EXTENDS H264Payload, SequenceTracker

CONSTANTS
    Sessions,       \* sessions to choose from: the access units of a stream, each
                    \* a sequence of NALs given by [type, size], the dressing of
                    \* the packets, and the losses, duplicates, reorderings,
                    \* strays and takeovers that bound what happens to it
    FirstSequences, \* initial sequence numbers of the packetizer, ...
    NextSequences,  \* ... and of the packetizer of a sender that takes over
    Strays          \* datagrams of other programs: none is H.264 over RTP

ASSUME TransportAssumption ==
    /\ \A session \in Sessions : session.units \in Seq(Seq([type : STRING, size : Nat]))
    /\ FirstSequences \subseteq Sequences16 /\ NextSequences \subseteq Sequences16

\* The headers have 16 bits for a sequence number and 32 for a timestamp.
FitsTimestamp(value) == value \div 65536 < 65536
ASSUME FieldsAssumption ==
    /\ SequenceSpace <= 65536
    /\ \A session \in Sessions : FitsTimestamp(Len(session.units))

VARIABLES
    stream,       \* the access units the sender sends
    dressing,     \* how the packets are dressed (RtpHeader)
    auCount,      \* access units packetized so far; also the next RTP timestamp,
                  \* which the clock keeps apart when the sender changes
    sequence,     \* RtpPacketizer::sequence_
    channel,      \* packets under way
    budget,       \* losses, duplicates, reorderings, strays and takeovers left
    listening,    \* the receiver has joined the group
    tracker, depacketizer,
    invalid,      \* invalid_packets, ...
    synchronized, \* ... as in the receiver's main loop
    completed,    \* history: access units completed, in order
    decoded,      \* history: access units handed to the decoder, in order
    arrivals,     \* history: sequence number and timestamp of the packets received
    begins        \* history: the first access units of the senders

sender == <<stream, dressing, auCount, sequence, begins>>
receiver == <<tracker, depacketizer, invalid, synchronized, completed, decoded, arrivals>>
vars == <<sender, receiver, channel, budget, listening>>

\* The NALs of access unit a: unit <<a, n, i>> is the i-th of its n-th NAL.
NalsOf(a) ==
    [n \in DOMAIN stream[a] |-> [i \in 1 .. stream[a][n].size |-> <<a, n, i>>]]

\* packetize, with make_packet's numbering.
PacketsOf(a, from) ==
    LET bodies == Bodies(NalsOf(a))
    IN  [k \in DOMAIN bodies |->
            [sequence |-> (from + k - 1) % SequenceSpace, timestamp |-> a,
             marker |-> bodies[k].marker, body |-> bodies[k].body]]

\* A packet on the wire: its capture time, on the clock of the sender, has as
\* many octets as an SSRC and more.
CaptureTime(a) == <<0, 0, 0, 1, 0, 0, 0, a>>
Ssrc == <<222, 173, 190, 239>>
Wire(p) ==
    Datagram([sequence |-> p.sequence, timestamp |-> p.timestamp, marker |-> p.marker,
              captureTime |-> CaptureTime(p.timestamp)],
             PayloadSize(p.body), Ssrc, dressing)

Init ==
    /\ \E session \in Sessions :
          /\ stream = session.units
          /\ dressing = session.dressing
          /\ budget = session.budget
    /\ auCount = 0
    /\ sequence \in FirstSequences
    /\ channel = <<>>
    /\ listening \in BOOLEAN
    /\ tracker = NoTracker
    /\ depacketizer = EmptyDepacketizer
    /\ invalid = 0
    /\ synchronized = FALSE
    /\ completed = <<>>
    /\ decoded = <<>>
    /\ arrivals = <<>>
    /\ begins = {1}

\* Packets go out.  A receiver that has not joined the group yet may join among
\* them and hear only the last ones.
Transmit(packets) ==
    \E missed \in IF listening THEN {0} ELSE 0 .. Len(packets) :
       /\ channel' = channel \o SubSeq(packets, missed + 1, Len(packets))
       /\ listening' = (listening \/ missed < Len(packets))

\* One access unit is packetized and sent.
SendAccessUnit ==
    /\ auCount < Len(stream)
    /\ auCount' = auCount + 1
    /\ LET packets == PacketsOf(auCount', sequence)
       IN  /\ sequence' = (sequence + Len(packets)) % SequenceSpace
           /\ Transmit(packets)
    /\ UNCHANGED <<stream, dressing, begins, budget, receiver>>

\* The NAL types of an access unit, given by [type, size].
Decodable(unit) == {"sps", "pps", "idr"} \subseteq {unit[n].type : n \in DOMAIN unit}

\* The sender stops, within an access unit or between two, and another one
\* begins with access unit t, which its encoder makes a random access point.
TakeOver(t) ==
    /\ budget.takeovers > 0
    /\ budget' = [budget EXCEPT !.takeovers = @ - 1]
    /\ auCount > 0 /\ t > auCount /\ Decodable(stream[t])
    /\ auCount' = t - 1
    /\ begins' = begins \cup {t}
    /\ sequence' \in NextSequences
    /\ IF t = auCount + 1 THEN UNCHANGED <<channel, listening>>
       ELSE LET packets == PacketsOf(auCount + 1, sequence)
            IN  \E sent \in 0 .. Len(packets) : Transmit(SubSeq(packets, 1, sent))
    /\ UNCHANGED <<stream, dressing, receiver>>

Lose(k) ==
    /\ budget.losses > 0
    /\ budget' = [budget EXCEPT !.losses = @ - 1]
    /\ channel' = RemoveAt(channel, k)
    /\ UNCHANGED <<sender, listening, receiver>>

\* is_recovery_access_unit: NAL types are those of the units' headers.
IsRecovery(nals) ==
    {"sps", "pps", "idr"} \subseteq
        {stream[nals[n][1][1]][nals[n][1][2]].type : n \in DOMAIN nals}

\* A packet that the receiver's loop accepts: the sequence tracker sees it, then
\* the depacketizer, and the decoder if that completes an access unit.
Feed(p) ==
    /\ tracker' = Observe(tracker, p.sequence)
    /\ depacketizer' = Pushed(depacketizer, p, SequenceSpace)
    /\ arrivals' = Append(arrivals, [sequence |-> p.sequence, timestamp |-> p.timestamp])
    /\ IF Completes(depacketizer, p, SequenceSpace)
       THEN LET taken == Taken(depacketizer, p, SequenceSpace)
                unit  == [timestamp |-> p.timestamp, captureTime |-> taken.captureTime,
                          nals |-> taken.nals]
            IN  /\ completed' = Append(completed, unit)
                /\ synchronized' = (synchronized \/ IsRecovery(unit.nals))
                /\ decoded' = IF synchronized' THEN Append(decoded, unit) ELSE decoded
       ELSE UNCHANGED <<completed, synchronized, decoded>>

IsH264(d) == HasValidHeader(d) /\ Parse(d).payloadType = H264PayloadType

\* One turn of the receiver's loop with datagram d, whose payload is body.
Receive(d, body) ==
    IF IsH264(d)
    THEN /\ LET read == Parse(d)
            IN  Feed([sequence |-> read.sequence, timestamp |-> read.timestamp,
                      marker |-> read.marker, captureTime |-> read.captureTime,
                      body |-> body])
         /\ UNCHANGED invalid
    ELSE /\ invalid' = invalid + 1
         /\ UNCHANGED <<tracker, depacketizer, synchronized, completed, decoded, arrivals>>

\* The packet at position k arrives; it stays under way if it is duplicated.
Deliver(k) ==
    /\ listening
    /\ k > 1 => budget.reorderings > 0
    /\ Receive(Wire(channel[k]), channel[k].body)
    /\ \E stays \in BOOLEAN :
          /\ stays => budget.duplicates > 0
          /\ channel' = IF stays THEN channel ELSE RemoveAt(channel, k)
          /\ budget' = [budget EXCEPT !.duplicates = IF stays THEN @ - 1 ELSE @,
                                      !.reorderings = IF k > 1 THEN @ - 1 ELSE @]
    /\ UNCHANGED <<sender, listening>>

\* A datagram of another program arrives.
Intrude ==
    /\ listening
    /\ budget.strays > 0
    /\ budget' = [budget EXCEPT !.strays = @ - 1]
    /\ \E d \in Strays : Receive(d, Single(<<>>))
    /\ UNCHANGED <<sender, channel, listening>>

Next ==
    \/ SendAccessUnit
    \/ \E t \in DOMAIN stream : TakeOver(t)
    \/ Intrude
    \/ \E k \in DOMAIN channel : Lose(k) \/ Deliver(k)

Spec == Init /\ [][Next]_vars

-----------------------------------------------------------------------------
Whole(a) == Kept(NalsOf(a))

IsWhole(unit) == unit.nals = Whole(unit.timestamp)

TypeOK ==
    /\ auCount \in 0 .. Len(stream)
    /\ sequence \in Sequences16
    /\ depacketizer.lastSequence \in Sequences16
    /\ depacketizer.units = TotalUnits(depacketizer.nals)
    /\ depacketizer.units <= MaxAuUnits /\ Len(depacketizer.nals) <= MaxNals
    /\ depacketizer.fragmented => Len(depacketizer.fragment) \in 1 .. MaxNalUnits
    /\ synchronized \in BOOLEAN
    /\ Len(decoded) <= Len(completed)

\* Every datagram respects the configured size, the marker closes the access
\* unit: it is on the last packet and on no other, and the receiver reads from
\* the datagram, whatever its sender adds to the header and after the payload,
\* exactly what was written into it.  It takes no stray for such a datagram.
PacketsAreWellFormed ==
    /\ \A k \in DOMAIN channel :
          LET p    == channel[k]
              d    == Wire(p)
              read == Parse(d)
              bodies == Bodies(NalsOf(p.timestamp))
          IN  /\ d.size <= MaxPayload
              /\ dressing = OwnDressing => Len(d.header) = 28 /\ d.padding = <<>>
              /\ p.marker <=> p.body = Last(bodies).body
              /\ IsH264(d)
              /\ read.sequence = p.sequence
              /\ read.timestamp = p.timestamp
              /\ read.marker = p.marker
              /\ read.begin = Len(d.header) /\ read.end = Len(d.header) + d.size
              /\ read.captureTime =
                    IF /\ dressing.extension /\ dressing.profile = CaptureTimeProfile
                       /\ CarriesTime(dressing, p.marker)
                    THEN CaptureTime(p.timestamp) ELSE NoTime
    /\ \A d \in Strays : ~IsH264(d)

\* Whatever is lost, duplicated or reordered, and wherever a sender stops and
\* another takes over, a completed access unit is a run of consecutive NALs
\* that ends a sent one, each NAL with its content intact: fragments and NALs
\* of different access units are never joined, and nothing is missing but at
\* the beginning.  Its capture time is its own or none.
CompletedAreTails ==
    \A c \in DOMAIN completed :
       LET unit == completed[c]
       IN  /\ unit.nals # <<>> /\ IsSuffix(unit.nals, Whole(unit.timestamp))
           /\ unit.captureTime \in {NoTime, CaptureTime(unit.timestamp)}

\* The sender that sent access unit a, by the first one of its own.
SenderOf(a) == Max({first \in begins : first <= a})

\* The packets of a sender arrived one after the other.
HeardApart(first) ==
    LET heard == {k \in DOMAIN arrivals : SenderOf(arrivals[k].timestamp) = first}
    IN  heard # {} => Cardinality(heard) = Max(heard) - Min(heard) + 1

\* The receiver's limits on an access unit, on a NAL and on their number.
WithinLimits(a) ==
    /\ Len(stream[a]) <= MaxNals
    /\ TotalUnits(NalsOf(a)) <= MaxAuUnits
    /\ \A n \in DOMAIN stream[a] : stream[a][n].size <= MaxNalUnits

\* What a receiver that keeps up never decodes: an access unit that the encoder
\* omitted, which has no packets, and one beyond the limits, which the
\* depacketizer drops without counting it anywhere.
MayBeMissing(a) == stream[a] = <<>> \/ ~WithinLimits(a)

\* A clean verdict is sound, as far as the code takes it: when the receiver has
\* counted no loss, no reordering and no invalid packet, what was decoded begins
\* with an access unit the decoder can start from and is, for every sender that
\* was heard apart from the others, a run of whole access units, each once and in
\* order, from which nothing is missing but what may be.  The verdict does not
\* see an access unit dropped for its size: none of the counters it is computed
\* from changes.  It also says less where a sender took over: the numbers of the
\* two are unrelated, the tracker sees one run of numbers, and the first access
\* unit of the later one may lack its beginning.  Access units to start from
\* begin with their SPS, as the encoder repeats its headers in front of them, so
\* that the rest of one is none; and less than a turn of the sequence numbers is
\* lost at once, which the tracker could not notice.
CleanVerdictIsSound ==
    tracker.lost = 0 /\ tracker.reordered = 0 /\ invalid = 0 =>
       /\ decoded # <<>> => IsRecovery(decoded[1].nals)
       /\ \A first \in {b \in begins : HeardApart(b)} :
             LET run == SelectSeq(decoded, LAMBDA unit : SenderOf(unit.timestamp) = first)
             IN  \A c \in DOMAIN run :
                    /\ first = 1 \/ c > 1 => IsWhole(run[c])
                    /\ c > 1 =>
                          /\ run[c].timestamp > run[c - 1].timestamp
                          /\ \A a \in run[c - 1].timestamp + 1 .. run[c].timestamp - 1 :
                                MayBeMissing(a)

\* The README of the repository: "El receptor descarta un access unit dañado".
DecodedAreWhole == \A c \in DOMAIN decoded : IsWhole(decoded[c])

\* The arrivals end with the n packets of an access unit, in order, and no
\* other packet of it arrived before.
EndsWithAll(packets, n, a) ==
    /\ Len(packets) >= n
    /\ \A k \in DOMAIN packets :
          packets[k].timestamp = a <=> k > Len(packets) - n
    /\ \A k \in Len(packets) - n + 2 .. Len(packets) :
          packets[k].sequence = (packets[k - 1].sequence + 1) % SequenceSpace

\* An access unit whose packets all arrive, in order and one after the other,
\* is completed with its last packet, whatever happened to the ones before it:
\* damage never outlives the access unit it was done to.
IntactIsCompleted ==
    [][arrivals' # arrivals =>
         LET p == arrivals'[Len(arrivals')]
             a == p.timestamp
         IN  (EndsWithAll(arrivals', Len(Bodies(NalsOf(a))), a) /\ WithinLimits(a)) =>
                /\ Len(completed') = Len(completed) + 1
                /\ LET unit == completed'[Len(completed')]
                   IN  unit.timestamp = a /\ IsWhole(unit)]_vars
=============================================================================
