--------------------------- MODULE MCDecoderTimes ---------------------------
(***************************************************************************)
(* Instances of DecoderTimes for TLC: a transform that holds more pictures *)
(* than the table has entries, and one without sample times that does not; *)
(* pictures of 2 by 2 in buffers padded below, to the right or not at all, *)
(* and a change to pictures that are too small.                            *)
(***************************************************************************)
EXTENDS DecoderTimes

MCVisible == [width |-> 2, height |-> 2]

Nv12(width, height, stride, stated) ==
    [width |-> width, height |-> height, stride |-> stride, stated |-> stated]
Exact  == Nv12(2, 2, 2, FALSE)
Below  == Nv12(2, 4, 2, TRUE)
Beside == Nv12(3, 2, 4, TRUE)
Wider  == Nv12(4, 2, 4, FALSE)
Small  == Nv12(2, 1, 2, TRUE)

Transform(stamped, depth, layouts) ==
    [stamped |-> stamped, depth |-> depth, first |-> Exact, layouts |-> layouts]

MCTransforms ==
    {Transform(TRUE, 4, <<Exact, Exact, Exact, Exact>>),
     Transform(FALSE, 2, <<Below, Below, Beside, Exact>>),
     Transform(TRUE, 1, <<Wider, Below, Exact, Small>>)}
=============================================================================
