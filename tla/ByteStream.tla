----------------------------- MODULE ByteStream -----------------------------
(***************************************************************************)
(* NAL units in a byte stream (Annex B), and their contents without        *)
(* emulation prevention bytes.                                             *)
(***************************************************************************)
EXTENDS Naturals, FiniteSetsExt, SequencesExt

\* The length of the start code at i, or 0.
StartCodeAt(bytes, i) ==
    IF IsPrefix(<<0, 0, 1>>, SubSeq(bytes, i, Len(bytes))) THEN 3
    ELSE IF IsPrefix(<<0, 0, 0, 1>>, SubSeq(bytes, i, Len(bytes))) THEN 4
    ELSE 0

StartCodes(bytes, from) == {i \in from .. Len(bytes) : StartCodeAt(bytes, i) # 0}

\* Faulty: zeros before a start code stay.
StripZeros_Keep(bytes) == bytes

StripZeros(bytes) == SubSeq(bytes, 1, Max({0} \cup {i \in DOMAIN bytes : bytes[i] # 0}))

NonEmpty(nal) == IF nal = <<>> THEN <<>> ELSE <<nal>>

ParseAnnexB(bytes) ==
    LET After(i) == i + StartCodeAt(bytes, i)
        Nals[begin \in 1 .. Len(bytes) + 1] ==
            LET next == StartCodes(bytes, begin)
            IN IF next = {}
               THEN NonEmpty(StripZeros(SubSeq(bytes, begin, Len(bytes))))
               ELSE NonEmpty(StripZeros(SubSeq(bytes, begin, Min(next) - 1))) \o Nals[After(Min(next))]
        first == StartCodes(bytes, 1)
    IN IF first = {} THEN <<>> ELSE Nals[After(Min(first))]

BuildAnnexB(nals) == FlattenSeq([i \in DOMAIN nals |-> <<0, 0, 0, 1>> \o nals[i]])

\* Faulty: the zeros before a removed byte still count.
AfterPrevention_KeepCount(zeros) == zeros

AfterPrevention(zeros) == 0

\* rbsp_from_nal.
Rbsp(nal) ==
    LET Read(state, byte) ==
            IF state.zeros >= 2 /\ byte = 3
            THEN [state EXCEPT !.zeros = AfterPrevention(state.zeros)]
            ELSE [zeros |-> IF byte = 0 THEN state.zeros + 1 ELSE 0, out |-> Append(state.out, byte)]
    IN FoldLeft(Read, [zeros |-> 0, out |-> <<>>], Tail(nal)).out
=============================================================================
