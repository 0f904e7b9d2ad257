------------------------- MODULE MCFrameTransmitter -------------------------
(* A small instance of FrameTransmitter for TLC. *)
EXTENDS FrameTransmitter, TLC

CONSTANTS c1, c2, c3, f1, f2, f3

\* A one-packet frame, an access unit the encoder omitted and a two-packet frame.
MCPackets == f1 :> 1 @@ f2 :> 0 @@ f3 :> 2
MCBytes   == f1 :> 2 @@ f2 :> 0 @@ f3 :> 5
=============================================================================
