----------------------------- MODULE DecoderTimes -----------------------------
(***************************************************************************)
(* The receiver's last part: access units are given to the decoder, whose  *)
(* transform delays pictures, may discard some and may refuse input while  *)
(* it has output; the wrapper remembers the capture time of each access    *)
(* unit in a bounded table keyed by sample time, to give it back with its  *)
(* picture, of which it copies the visible part out of a buffer whose      *)
(* layout may change in midstream; the loop presents the pictures that are *)
(* not late and measures their latency for the verdict.                    *)
(*                                                                         *)
(* Sample times are multiples of the frame duration: the multiple stands   *)
(* for the time.                                                           *)
(***************************************************************************)
EXTENDS Naturals, Sequences, FiniteSets

CONSTANTS
    MaxPending,      \* maximum_pending_capture_times
    MaxLatency,      \* maximum_latency_ns
    Visible,         \* width and height of the session's pictures
    Transforms,      \* transforms to choose from: whether their output carries its
                     \* sample time, how many pictures they can hold, the layout
                     \* of their output at first and that of each picture
    MaxUnits,        \* bound: access units
    MaxTime          \* bound of the clock

\* An NV12 buffer: the size of the picture coded, the distance of its rows, and
\* whether the output type states that distance, which is the width otherwise.
Layout == [width : Nat, height : Nat, stride : Nat, stated : BOOLEAN]

ASSUME DecoderAssumption ==
    /\ MaxPending \in Nat \ {0}
    /\ MaxLatency \in Nat
    /\ Visible \in [width : Nat \ {0}, height : Nat \ {0}]
    /\ \A t \in Transforms :
          /\ t.stamped \in BOOLEAN /\ t.depth \in Nat \ {0}
          /\ \A layout \in {t.first} \cup {t.layouts[u] : u \in 1 .. MaxUnits} :
                /\ layout \in Layout /\ layout.stride >= layout.width
                /\ ~layout.stated => layout.stride = layout.width
    /\ MaxUnits \in Nat
    /\ MaxTime \in Nat \ {0}

VARIABLES
    clock,
    \* the wrapper
    sample_index, capture_times, frames, output_stride, output_height,
    \* the transform, the samples it holds and the layout of its output
    transform, inside, layout,
    \* the loop: where it is, the capture time of its access unit, the picture
    \* being presented and its verdict's counters
    pc, capture_time, frame, decoded_frames, late_frames, latencies,
    \* history: the capture times accepted, the pictures put out, those presented
    captures, outputs, presented

geometry == <<output_stride, output_height>>
wrapper  == <<sample_index, capture_times, frames, geometry>>
verdict  == <<decoded_frames, late_frames, latencies>>
decoder  == <<transform, inside, layout>>
history  == <<captures, outputs, presented>>
vars == <<clock, wrapper, decoder, pc, capture_time, frame, verdict, history>>

NoTime  == 0
NoFrame == [sample |-> 0, capture |-> NoTime]

-----------------------------------------------------------------------------
(* Geometry *)

\* configure_output: the distance of the rows the wrapper assumes.
Stride(type) ==
    LET stated == IF type.stated THEN type.stride ELSE Visible.width
    IN  IF type.width > stated THEN type.width ELSE stated

Fits(type) == type.width >= Visible.width /\ type.height >= Visible.height

\* Faulty: only the distance of the rows is taken from the new type.
Configured_KeepsHeight(type) ==
    /\ output_stride' = Stride(type)
    /\ UNCHANGED output_height

Configured(type) ==
    /\ output_stride' = Stride(type)
    /\ output_height' = type.height

BufferSize(stride, height) == ((stride * height) * 3) \div 2

\* copy_nv12: where in the buffer the visible rows of the two planes begin.
RowsAt(stride, height) ==
    [y  |-> [row \in 0 .. Visible.height - 1 |-> row * stride],
     uv |-> [row \in 0 .. (Visible.height \div 2) - 1 |-> stride * height + row * stride]]

-----------------------------------------------------------------------------
Init ==
    /\ clock = 1
    /\ sample_index = 0 /\ capture_times = <<>> /\ frames = <<>>
    /\ transform \in Transforms /\ inside = <<>>
    /\ layout = transform.first /\ Fits(layout)
    /\ output_stride = Stride(layout) /\ output_height = layout.height
    /\ pc = "receive" /\ capture_time = NoTime /\ frame = NoFrame
    /\ decoded_frames = 0 /\ late_frames = 0 /\ latencies = {}
    /\ captures = <<>> /\ outputs = <<>> /\ presented = <<>>

Tick ==
    /\ clock < MaxTime
    /\ clock' = clock + 1
    /\ UNCHANGED <<wrapper, decoder, pc, capture_time, frame, verdict, history>>

-----------------------------------------------------------------------------
(* The table *)

Pending == DOMAIN capture_times

Without(table, samples) == [s \in DOMAIN table \ samples |-> table[s]]

First(table) == CHOOSE s \in DOMAIN table : \A t \in DOMAIN table : s <= t

Evict(table) ==
    IF Cardinality(DOMAIN table) > MaxPending THEN Without(table, {First(table)}) ELSE table

With(table, sample, time) ==
    [s \in DOMAIN table \cup {sample} |-> IF s = sample THEN time ELSE table[s]]

\* Faulty: a newer time stands in for one that is missing.
TimeOf_Newer(sample) ==
    LET newer == {s \in Pending : s >= sample}
    IN IF newer = {} THEN NoTime ELSE capture_times[CHOOSE s \in newer : \A t \in newer : s <= t]

TimeOf(sample) == IF sample \in Pending THEN capture_times[sample] ELSE NoTime

TakeFirst == capture_times' = Without(capture_times, {First(capture_times)})

\* capture_time_for_output: the time found, and what is erased.
CaptureTimeForOutput(sample, time) ==
    IF transform.stamped
    THEN /\ time = TimeOf(sample)
         /\ capture_times' = Without(capture_times, {s \in Pending : s <= sample})
    ELSE IF Pending = {}
         THEN time = NoTime /\ UNCHANGED capture_times
         ELSE time = capture_times[First(capture_times)] /\ TakeFirst

-----------------------------------------------------------------------------
(* decode *)

\* The next access unit, with the time it was captured, or none if its packets
\* carried no time.
DecodeCall ==
    /\ pc = "receive"
    /\ sample_index < MaxUnits
    /\ \E c \in 0 .. clock : capture_time' = c
    /\ pc' = "input"
    /\ UNCHANGED <<clock, wrapper, decoder, frame, verdict, history>>

\* ProcessInput at last succeeds.
InputAccepted ==
    /\ pc \in {"input", "input_again"}
    /\ Len(inside) < transform.depth
    /\ inside' = Append(inside, sample_index)
    /\ capture_times' = Evict(With(capture_times, sample_index, capture_time))
    /\ captures' = Append(captures, capture_time)
    /\ sample_index' = sample_index + 1
    /\ pc' = "drain"
    /\ UNCHANGED <<clock, transform, layout, geometry, frames, capture_time, frame, verdict,
                   outputs, presented>>

\* The transform refuses, which it does when it has something to put out.
NotAccepting ==
    /\ pc = "input"
    /\ inside # <<>>
    /\ pc' = "drain_first"
    /\ UNCHANGED <<clock, wrapper, decoder, capture_time, frame, verdict, history>>

NextLayout == transform.layouts[Head(inside) + 1]

\* The next picture has another layout: the transform says so and the wrapper
\* reads the new type, which must hold the visible part.
StreamChange ==
    /\ pc \in {"drain_first", "drain"}
    /\ inside # <<>> /\ NextLayout # layout
    /\ layout' = NextLayout
    /\ IF Fits(layout')
       THEN Configured(layout') /\ UNCHANGED pc
       ELSE pc' = "failed" /\ UNCHANGED geometry
    /\ UNCHANGED <<clock, transform, inside, sample_index, capture_times, frames,
                   capture_time, frame, verdict, history>>

Output ==
    /\ pc \in {"drain_first", "drain"}
    /\ inside # <<>> /\ NextLayout = layout
    /\ BufferSize(layout.stride, layout.height) >= BufferSize(output_stride, output_height)
    /\ inside' = Tail(inside)
    /\ \E time \in 0 .. clock :
          /\ CaptureTimeForOutput(Head(inside), time)
          /\ frames' = Append(frames, [sample |-> Head(inside), capture |-> time])
          /\ outputs' = Append(outputs, [sample  |-> Head(inside), capture |-> time,
                                         accepted |-> sample_index,
                                         rows |-> RowsAt(output_stride, output_height)])
    /\ UNCHANGED <<clock, transform, layout, geometry, sample_index, pc, capture_time, frame,
                   verdict, captures, presented>>

\* The transform puts out pictures as late as it likes.
NeedMoreInput ==
    /\ \/ pc = "drain_first" /\ Len(inside) < transform.depth /\ pc' = "input_again"
       \/ pc = "drain" /\ pc' = "present"
    /\ UNCHANGED <<clock, wrapper, decoder, capture_time, frame, verdict, history>>

\* A damaged picture is never put out.
Discard ==
    /\ transform.stamped
    /\ pc \in {"drain_first", "drain"}
    /\ inside # <<>>
    /\ inside' = Tail(inside)
    /\ UNCHANGED <<clock, transform, layout, wrapper, pc, capture_time, frame, verdict, history>>

\* Any call of the transform may fail, which ends the receiver.
DecodeFails ==
    /\ pc \in {"input", "input_again", "drain_first", "drain"}
    /\ pc' = "failed"
    /\ UNCHANGED <<clock, wrapper, decoder, capture_time, frame, verdict, history>>

-----------------------------------------------------------------------------
(* The loop *)

Latency(f) == clock - f.capture

Late(f) == f.capture # NoTime /\ Latency(f) > MaxLatency

DropLateFrame ==
    /\ pc = "present" /\ frames # <<>>
    /\ Late(Head(frames))
    /\ latencies' = latencies \cup {Latency(Head(frames))}
    /\ late_frames' = late_frames + 1
    /\ frames' = Tail(frames)
    /\ UNCHANGED <<clock, sample_index, capture_times, geometry, decoder, pc, capture_time, frame,
                   decoded_frames, history>>

PresentFrame ==
    /\ pc = "present" /\ frames # <<>>
    /\ ~Late(Head(frames))
    /\ frame' = Head(frames)
    /\ frames' = Tail(frames)
    /\ pc' = "presenting"
    /\ UNCHANGED <<clock, sample_index, capture_times, geometry, decoder, capture_time, verdict,
                   history>>

\* Faulty: a frame that was in time to be presented is not measured afterwards.
Measured_Early(f) == IF Late(f) THEN {} ELSE {Latency(f)}

\* The latency is measured after the picture has been presented.
Measured(f) == IF f.capture = NoTime THEN {} ELSE {Latency(f)}

FramePresented ==
    /\ pc = "presenting"
    /\ latencies' = latencies \cup Measured(frame)
    /\ decoded_frames' = decoded_frames + 1
    /\ presented' = Append(presented, [sample |-> frame.sample, capture |-> frame.capture,
                                       at |-> clock])
    /\ pc' = "present"
    /\ UNCHANGED <<clock, wrapper, decoder, capture_time, frame, late_frames, captures, outputs>>

LoopAgain ==
    /\ pc = "present" /\ frames = <<>>
    /\ pc' = "receive"
    /\ UNCHANGED <<clock, wrapper, decoder, capture_time, frame, verdict, history>>

Next ==
    \/ Tick
    \/ DecodeCall \/ InputAccepted \/ NotAccepting
    \/ StreamChange \/ Output \/ NeedMoreInput \/ Discard
    \/ DecodeFails
    \/ DropLateFrame \/ PresentFrame \/ FramePresented \/ LoopAgain

Spec == Init /\ [][Next]_vars

\* The part of the receiver's verdict that is about pictures.
Clean ==
    /\ late_frames = 0 /\ decoded_frames > 0
    /\ latencies # {} /\ \A l \in latencies : l <= MaxLatency

-----------------------------------------------------------------------------

\* A picture comes out with the capture time of its own access unit, however
\* long the transform keeps it and whatever it discards, unless so many access
\* units have been accepted since that its entry was evicted: then with no time,
\* never with another one's.
OwnTimeOrNone ==
    \A o \in DOMAIN outputs :
       LET out == outputs[o]
       IN out.capture = IF out.accepted - out.sample <= MaxPending
                        THEN captures[out.sample + 1]
                        ELSE NoTime

\* The visible rows are copied from where they lie in the picture's own buffer,
\* whatever changed since the picture before.
OwnRows ==
    \A o \in DOMAIN outputs :
       LET own == transform.layouts[outputs[o].sample + 1]
       IN outputs[o].rows = RowsAt(own.stride, own.height)

\* Every picture comes out as itself: with its own capture time, or none, and
\* with its own pixels.
PicturesAreTheirOwn == OwnTimeOrNone /\ OwnRows

\* When the verdict finds nothing to object to, every picture that came out of
\* the decoder was presented, in order, and every one that had a capture time
\* was on the screen within the limit, the time it took to present it included.
CleanMeansOnTime ==
    pc = "receive" /\ Clean =>
       /\ Len(presented) = Len(outputs)
       /\ \A p \in DOMAIN presented :
             /\ presented[p].sample = outputs[p].sample
             /\ presented[p].capture # NoTime =>
                   presented[p].at - captures[presented[p].sample + 1] <= MaxLatency
=============================================================================
