--------------------------- MODULE MCRtpTransport ---------------------------
(* Streams for TLC, with a payload of 7 units: NALs of 1 or 2 units can be   *)
(* aggregated, NALs of more than 7 are fragmented, 5 units to a fragment.    *)
EXTENDS RtpTransport

Nal(type, size) == [type |-> type, size |-> size]

\* A random access point of four packets (STAP-A with the parameter sets, an
\* IDR slice in two fragments, a second slice), a one-packet access unit, one
\* of two packets and another random access point.
RecoveryUnit == <<Nal("sps", 1), Nal("pps", 1), Nal("idr", 8), Nal("idr", 6)>>
SmallUnit    == <<Nal("slice", 4)>>
SlicedUnit   == <<Nal("sei", 6), Nal("slice", 7)>>
ShortRecovery == <<Nal("sps", 1), Nal("pps", 1), Nal("idr", 6)>>

\* Access units the receiver does not accept: too many NALs, a NAL too large, and
\* too large a whole, by a fragmented NAL and within an aggregate.
TooMany == [n \in 1 .. 5 |-> Nal("slice", 2)]
BeyondLimits ==
    {TooMany,
     <<Nal("slice", 13)>>,
     <<Nal("slice", 12), Nal("slice", 12)>>,
     <<Nal("slice", 12), Nal("slice", 6), Nal("slice", 1), Nal("slice", 2)>>}
LargeRecovery == <<Nal("sps", 1), Nal("pps", 1), Nal("idr", 13)>>

Budget(losses, duplicates, reorderings, strays, takeovers) ==
    [losses |-> losses, duplicates |-> duplicates, reorderings |-> reorderings,
     strays |-> strays, takeovers |-> takeovers]
Session(units, limits, dress) ==
    [units |-> units, budget |-> limits, dressing |-> dress]
Quiet == Budget(0, 0, 0, 0, 0)

LossyStreams == {<<RecoveryUnit, SmallUnit, <<>>, SlicedUnit>>,
                 <<SlicedUnit, ShortRecovery, SmallUnit>>}

\* Every access unit of at most three NALs, and one of too many.
Sizes == {1, 2, 5, 7, 8, 12, 13}
AnyUnit ==
    UNION {[1 .. n -> {Nal("slice", size) : size \in Sizes}] : n \in 1 .. 3}
    \cup {TooMany}

\* Senders that dress their packets otherwise: contributing sources, padding,
\* other elements around the capture time (which it ends, in one of them, with
\* identifier 15), an element of the same identifier and another length, another
\* profile of extension, or none.
Dressing(csrcs, padding, carries, profile, before, after) ==
    [csrcs |-> csrcs, extension |-> TRUE, carries |-> carries, profile |-> profile,
     before |-> before, after |-> after, padding |-> padding]
Dressings ==
    {Dressing(csrcs, padding, carries, CaptureTimeProfile, before, after) :
        csrcs \in {0, 3}, padding \in {0, 1, 4}, carries \in {"all", "last", "none"},
        before \in {<<>>, <<0, 0>>, <<82, 1, 23, 0>>, <<19, 9, 9, 9, 9>>},
        after \in {<<>>, <<0, 240>>, <<82, 7, 7, 7>>}}
    \cup {Dressing(1, 0, "all", 4096, <<>>, <<>>),
          [Dressing(2, 2, "none", 0, <<>>, <<>>) EXCEPT !.extension = FALSE]}

\* The malformed packets of the repository's tests, and one that is well formed
\* and carries something else.
Baseline == Datagram([sequence |-> 1, timestamp |-> 100, marker |-> TRUE,
                      captureTime |-> <<0, 0, 0, 0, 0, 0, 0, 200>>],
                     3, <<1, 2, 3, 4>>, [OwnDressing EXCEPT !.padding = 1])
Empty == [Baseline EXCEPT !.size = 0, !.padding = <<>>, !.header[1] = 144]
MCStrays ==
    {[Empty EXCEPT !.header = SubSeq(@, 1, 11)],
     [Empty EXCEPT !.header[1] = 80],
     [Empty EXCEPT !.header = <<143>> \o Zeros(11)],
     [Baseline EXCEPT !.header[15] = 127, !.header[16] = 255],
     [Baseline EXCEPT !.padding = <<0>>],
     [Baseline EXCEPT !.padding = <<255>>],
     Empty,
     [Baseline EXCEPT !.size = 0],
     [Baseline EXCEPT !.header[17] = 29],
     [Baseline EXCEPT !.header[2] = 97]}

\* Every packetizing and every dressing without faults, access units beyond the
\* receiver's limits before, among and after those the decoder gets, a network
\* with faults and senders that take over on few streams.
MCSessions ==
    {Session(units, Budget(2, 1, 1, 0, 0), OwnDressing) : units \in LossyStreams}
    \cup {Session(<<first, SmallUnit>>, Quiet, OwnDressing) : first \in AnyUnit}
    \cup {Session(<<ShortRecovery, over, SmallUnit>>, Quiet, OwnDressing) :
             over \in BeyondLimits}
    \cup {Session(<<LargeRecovery, ShortRecovery, TooMany, SmallUnit>>,
                  Budget(1, 0, 0, 0, 0), OwnDressing)}
    \cup {Session(<<ShortRecovery, TooMany, ShortRecovery, SmallUnit>>,
                  Budget(0, 0, 0, 0, 1), OwnDressing)}
    \cup {Session(<<ShortRecovery, SlicedUnit>>, Quiet, dress) : dress \in Dressings}
    \cup {Session(<<ShortRecovery, SlicedUnit, SmallUnit>>, Budget(1, 0, 0, 1, 0),
                  Dressing(0, 0, "last", CaptureTimeProfile, <<>>, <<>>))}
    \cup {Session(<<ShortRecovery, SlicedUnit, ShortRecovery, SmallUnit>>,
                  Budget(1, 0, 1, 0, 1), OwnDressing)}

MCOneLoss == {Session(units, Budget(1, 0, 0, 0, 0), OwnDressing) : units \in LossyStreams}
=============================================================================
