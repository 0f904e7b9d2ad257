----------------------------- MODULE BitReader -----------------------------
(***************************************************************************)
(* Fixed fields and Exp-Golomb codes, read from a buffer of bits at an     *)
(* offset.  The word size is a parameter, 32 in the code.                  *)
(***************************************************************************)
EXTENDS Integers, SequencesExt

CONSTANT WordBits     \* bits of an unsigned word

ASSUME WordAssumption == WordBits \in Nat \ {0}

Word == 2 ^ WordBits

\* What a read returns: whether it succeeds, the value and the next offset.
Failure == [ok |-> FALSE, value |-> 0, offset |-> 0]

Result(value, offset) == [ok |-> TRUE, value |-> value, offset |-> offset]

Available(bits, offset, count) == count <= WordBits /\ offset + count <= Len(bits)

Number(s) == FoldLeft(LAMBDA n, bit : (2 * n + bit) % Word, 0, s)

ReadBits(bits, offset, count) ==
    IF Available(bits, offset, count)
    THEN Result(Number(SubSeq(bits, offset + 1, offset + count)), offset + count)
    ELSE Failure

LeadingZeros(bits, offset) ==
    LET ones == {i \in offset + 1 .. Len(bits) : bits[i] = 1}
    IN IF ones = {} THEN Len(bits) - offset
       ELSE (CHOOSE i \in ones : \A j \in ones : i <= j) - offset - 1

\* Faulty: the offset of the shorter codes is forgotten.
UeValue_NoBase(zeros, suffix) == suffix

UeValue(zeros, suffix) == (2 ^ zeros - 1 + suffix) % Word

ReadUe(bits, offset) ==
    LET zeros  == LeadingZeros(bits, offset)
        suffix == ReadBits(bits, offset + zeros + 1, zeros)
    IN IF zeros < WordBits /\ offset + zeros < Len(bits) /\ suffix.ok
       THEN Result(UeValue(zeros, suffix.value), suffix.offset)
       ELSE Failure

SeValue(code) == IF code % 2 = 1 THEN (code + 1) \div 2 ELSE -(code \div 2)

ReadSe(bits, offset) ==
    LET code == ReadUe(bits, offset)
    IN IF code.ok /\ code.value <= (Word \div 2 - 1) * 2
       THEN Result(SeValue(code.value), code.offset)
       ELSE Failure
=============================================================================
