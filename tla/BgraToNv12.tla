----------------------------- MODULE BgraToNv12 -----------------------------
(***************************************************************************)
(* The conversion of a picture before it is encoded: blue, green, red and  *)
(* another octet per pixel, in rows that may be padded, to the two planes  *)
(* of NV12, the luma of every pixel and then the chroma of every block of  *)
(* four.  The code computes in signed integers, shifts them right, clamps  *)
(* and stores octets.                                                      *)
(***************************************************************************)
EXTENDS Integers, Sequences

Octets == 0 .. 255

\* What is refused: odd or empty pictures, short rows, too few octets.
Valid(source) ==
    /\ source.width # 0 /\ source.height # 0
    /\ source.width % 2 = 0 /\ source.height % 2 = 0
    /\ source.stride >= 4 * source.width
    /\ Len(source.pixels) >= source.stride * source.height

Blue  == 0
Green == 1
Red   == 2

\* A component of a pixel; rows and columns count from 0.
Sample(source, row, column, channel) ==
    source.pixels[row * source.stride + 4 * column + channel + 1]

ClampByte(value) == IF value < 0 THEN 0 ELSE IF value > 255 THEN 255 ELSE value

\* The arithmetic right shift by 8 is the division that rounds down.
Y709(r, g, b) == (47 * r + 157 * g + 16 * b + 128) \div 256 + 16
U709(r, g, b) == (113 * b - 26 * r - 87 * g + 128) \div 256 + 128
V709(r, g, b) == (112 * r - 102 * g - 10 * b + 128) \div 256 + 128

Luma(source, row, column) ==
    ClampByte(Y709(Sample(source, row, column, Red),
                   Sample(source, row, column, Green),
                   Sample(source, row, column, Blue)))

\* The mean of a component over a block of four pixels.
Mean(source, row, column, channel) ==
    (Sample(source, row, column, channel) + Sample(source, row, column + 1, channel)
       + Sample(source, row + 1, column, channel) + Sample(source, row + 1, column + 1, channel)
       + 2) \div 4

ChromaU(source, row, column) ==
    ClampByte(U709(Mean(source, row, column, Red), Mean(source, row, column, Green),
                   Mean(source, row, column, Blue)))
ChromaV(source, row, column) ==
    ClampByte(V709(Mean(source, row, column, Red), Mean(source, row, column, Green),
                   Mean(source, row, column, Blue)))

\* bgra_to_nv12: the planes by row and column.
LumaPlane(source) ==
    [row \in 0 .. source.height - 1 |->
        [column \in 0 .. source.width - 1 |-> Luma(source, row, column)]]
ChromaPlane(source) ==
    [row \in 0 .. source.height \div 2 - 1 |->
        [column \in 0 .. source.width - 1 |->
            IF column % 2 = 0 THEN ChromaU(source, 2 * row, column)
            ELSE ChromaV(source, 2 * row, column - 1)]]

\* A picture as the sources make them.
IsPicture(source) ==
    /\ source.width \in Nat /\ source.height \in Nat /\ source.stride \in Nat
    /\ source.pixels \in Seq(Octets)

=============================================================================
