--------------------------- MODULE FrameProduction ---------------------------
(***************************************************************************)
(* The sender's loop with its source of frames: either the test pattern,   *)
(* which makes the frame of the present slot of the timeline and skips the *)
(* slots it has missed, or the capture of the screen, whose callback       *)
(* thread keeps the newest composed frame for the loop, which takes it or  *)
(* repeats the one before at each deadline.  The frames are encoded and    *)
(* handed to the transmitter, taken here as what it promises               *)
(* (FrameHandoff).                                                         *)
(*                                                                         *)
(* Time passes between any two steps.                                      *)
(***************************************************************************)
EXTENDS FrameTimeline, Sequences

CONSTANTS
    Screen,          \* the source is the screen, not the test pattern
    FirstTimeout,    \* the longest wait for the first composed frame
    Duration,        \* the loop ends when so much time has passed
    Capacity,        \* frames the transmitter holds
    LateTime         \* bound: from here on time passes only while the loop waits

ASSUME ProductionAssumption ==
    /\ Screen \in BOOLEAN
    /\ FirstTimeout \in Nat
    /\ Duration \in Nat \ {0}
    /\ Capacity \in Nat \ {0}
    /\ LateTime \in Nat
    /\ LateTime > Duration

VARIABLES
    clock,
    \* the compositor and the callback: the time of the newest composed frame,
    \* the frame being copied, the mailbox
    composed, copying, latest,
    \* the screen source's next
    have_frame, next_deadline, timeout,
    \* the test pattern's next
    start_ns, source_index,
    \* the loop
    pc, frame, cached, frame_index, skipped_intervals, previous_pts, running,
    \* the transmitter
    accepted, delivered, status,
    \* history: how many frames next has returned, the screen's first deadline,
    \* the newest frame stored in the mailbox and the newest one taken from it
    returned, first_deadline, stored, taken

callback    == <<composed, copying, latest, stored>>
screen      == <<have_frame, next_deadline, timeout, first_deadline, taken>>
pattern     == <<start_ns, source_index>>
encoder     == <<cached, previous_pts>>
loop        == <<frame, frame_index, skipped_intervals>>
transmitter == <<accepted, delivered, status>>
vars == <<clock, callback, screen, pattern, pc, encoder, loop, running, transmitter, returned>>

None == 0    \* no time: the clock starts at 1

NoFrame == [index |-> 0, nominal |-> None, capture |-> None, repeated |-> FALSE, skipped |-> 0]

Transmitter == INSTANCE FrameHandoff WITH Frames <- {}

Init ==
    /\ clock = 1
    /\ composed = None /\ copying = None /\ latest = None
    /\ have_frame = FALSE /\ next_deadline = None /\ timeout = None
    /\ start_ns = None /\ source_index = 0
    /\ pc = "loop" /\ frame = NoFrame /\ cached = FALSE
    /\ frame_index = 0 /\ skipped_intervals = 0 /\ previous_pts = None
    /\ running = TRUE
    /\ Transmitter!Init
    /\ returned = 0 /\ first_deadline = None /\ stored = None /\ taken = None

Waiting ==
    \/ pc = "first" /\ clock < timeout
    \/ pc = "deadline" /\ clock < next_deadline
    \/ pc = "wait" /\ clock < frame.nominal

\* Nothing reads the clock, the mailbox or the signal when the loop is over.
InLoop == pc \notin {"close", "closing", "unwind", "unwinding", "done", "threw"}

Tick ==
    /\ InLoop
    /\ clock < LateTime \/ Waiting
    /\ clock' = clock + 1
    /\ UNCHANGED <<callback, screen, pattern, pc, encoder, loop, running, transmitter, returned>>

Started == 1

-----------------------------------------------------------------------------
(* The callback of the screen source *)

\* Frames are composed at different times, and their callbacks do not overlap.
FrameArrived ==
    /\ Screen /\ InLoop
    /\ copying = None
    /\ composed < clock
    /\ composed' = clock
    /\ copying' = clock
    /\ UNCHANGED <<clock, latest, stored, screen, pattern, pc, encoder, loop, running,
                   transmitter, returned>>

\* Copying a frame may fail; the frame is forgotten.
CopyFails ==
    /\ copying # None /\ InLoop
    /\ copying' = None
    /\ UNCHANGED <<clock, composed, latest, stored, screen, pattern, pc, encoder, loop, running,
                   transmitter, returned>>

\* The loop holds the mutex between these two of its steps.
Locked == pc = "advance"

\* Faulty: a frame that has not been taken yet is kept.
Replace_KeepOld == IF latest = None THEN copying ELSE latest

Replace == copying

StoreFrame ==
    /\ copying # None /\ InLoop
    /\ ~Locked
    /\ latest' = Replace
    /\ stored' = copying
    /\ copying' = None
    /\ UNCHANGED <<clock, composed, screen, pattern, pc, encoder, loop, running,
                   transmitter, returned>>

-----------------------------------------------------------------------------
(* next of the screen source *)

\* Faulty: the first frame is not waited for.
NextScreen_NoWait ==
    /\ pc = "next" /\ Screen
    /\ next_deadline' = IF next_deadline = None THEN clock ELSE next_deadline
    /\ first_deadline' = IF next_deadline = None THEN clock ELSE first_deadline
    /\ pc' = "deadline"
    /\ UNCHANGED <<clock, callback, have_frame, timeout, taken, pattern, encoder, loop,
                   running, transmitter, returned>>

NextScreen ==
    /\ pc = "next" /\ Screen
    /\ IF have_frame
         THEN pc' = "deadline" /\ UNCHANGED timeout
         ELSE pc' = "first" /\ timeout' = clock + FirstTimeout
    /\ UNCHANGED <<clock, callback, have_frame, next_deadline, first_deadline, taken, pattern, encoder, loop,
                   running, transmitter, returned>>

\* The wait for a first frame ends; the first deadline is now.
FirstFrame ==
    /\ pc = "first"
    /\ latest # None
    /\ next_deadline' = clock
    /\ first_deadline' = clock
    /\ pc' = "deadline"
    /\ UNCHANGED <<clock, callback, have_frame, timeout, taken, pattern, encoder, loop,
                   running, transmitter, returned>>

\* Faulty: the wait has no end.
NoFirstFrame_Forever == pc = "first" /\ FALSE /\ UNCHANGED vars

NoFirstFrame ==
    /\ pc = "first"
    /\ latest = None
    /\ clock >= timeout
    /\ pc' = "loop"
    /\ UNCHANGED <<clock, callback, screen, pattern, encoder, loop, running, transmitter, returned>>

\* A captured frame has the time at which it was composed, a repeated one the
\* present.  Its nominal time stays zero, which the loop replaces by this time.
Deliver(t, repeated) ==
    frame' = [index |-> frame_index, nominal |-> t, capture |-> t,
              repeated |-> repeated, skipped |-> 0]

TakeLatest ==
    /\ pc = "deadline" /\ clock >= next_deadline
    /\ latest # None
    /\ Deliver(latest, FALSE)
    /\ latest' = None
    /\ taken' = latest
    /\ have_frame' = TRUE
    /\ pc' = "advance"
    /\ UNCHANGED <<clock, composed, copying, stored, next_deadline, timeout, first_deadline, pattern, encoder,
                   frame_index, skipped_intervals, running, transmitter, returned>>

RepeatFrame ==
    /\ pc = "deadline" /\ clock >= next_deadline
    /\ latest = None
    /\ Deliver(clock, TRUE)
    /\ pc' = "advance"
    /\ UNCHANGED <<clock, callback, screen, pattern, encoder, frame_index, skipped_intervals,
                   running, transmitter, returned>>

\* Faulty: the deadline restarts at the present.
DeadlineAfter_FromNow(deadline, now) == now + FramePeriod

\* The first deadline of the series after now, and at least the next one.
DeadlineAfter(deadline, now) ==
    IF deadline + FramePeriod > now
    THEN deadline + FramePeriod
    ELSE deadline + ((now - deadline) \div FramePeriod + 1) * FramePeriod

AdvanceDeadline ==
    /\ pc = "advance"
    /\ next_deadline' = DeadlineAfter(next_deadline, clock)
    /\ returned' = returned + 1
    /\ pc' = "convert"
    /\ UNCHANGED <<clock, callback, have_frame, timeout, first_deadline, taken, pattern, encoder, loop, running,
                   transmitter>>

-----------------------------------------------------------------------------
(* next of the test pattern *)

StartTimeline ==
    /\ pc = "next" /\ ~Screen
    /\ start_ns' = IF source_index = 0 THEN clock ELSE start_ns
    /\ pc' = "select"
    /\ UNCHANGED <<clock, callback, screen, source_index, encoder, loop, running, transmitter,
                   returned>>

\* Faulty: the slot that was due is not counted.
Skipped_OneLess(slot) == IF slot.skipped = 0 THEN 0 ELSE slot.skipped - 1

Skipped(slot) == slot.skipped

SelectSlot ==
    /\ pc = "select"
    /\ LET slot == SelectFrameSlot(start_ns, clock, source_index)
       IN /\ source_index' = slot.index
          /\ frame' = [index |-> slot.index, nominal |-> slot.nominal, capture |-> None,
                       repeated |-> FALSE, skipped |-> Skipped(slot)]
    /\ pc' = "wait"
    /\ UNCHANGED <<clock, callback, screen, start_ns, encoder, frame_index, skipped_intervals,
                   running, transmitter, returned>>

MakeFrame ==
    /\ pc = "wait"
    /\ clock >= frame.nominal
    /\ frame' = [frame EXCEPT !.capture = clock]
    /\ source_index' = source_index + 1
    /\ returned' = returned + 1
    /\ pc' = "convert"
    /\ UNCHANGED <<clock, callback, screen, start_ns, encoder, frame_index, skipped_intervals,
                   running, transmitter>>

-----------------------------------------------------------------------------
(* The loop *)

LoopBegin ==
    /\ pc = "loop"
    /\ pc' = IF running /\ clock - Started < Duration THEN "next" ELSE "close"
    /\ UNCHANGED <<clock, callback, screen, pattern, encoder, loop, running, transmitter, returned>>

StopSignal ==
    /\ running /\ InLoop
    /\ running' = FALSE
    /\ UNCHANGED <<clock, callback, screen, pattern, pc, encoder, loop, transmitter, returned>>

\* A repeated frame uses the last converted one; without one it is dropped.
Convert ==
    /\ pc = "convert"
    /\ skipped_intervals' = skipped_intervals + frame.skipped
    /\ cached' = (cached \/ ~frame.repeated)
    /\ pc' = IF frame.repeated /\ ~cached THEN "loop" ELSE "encode"
    /\ UNCHANGED <<clock, callback, screen, pattern, previous_pts, frame, frame_index, running,
                   transmitter, returned>>

\* previous_pts is kept plus one, so that None is "not yet".
Gap(pts) == previous_pts # None /\ pts # previous_pts

Encode ==
    /\ pc = "encode"
    /\ previous_pts' = frame.index + 1
    /\ pc' = IF Gap(frame.index) THEN "enqueue_idr" ELSE "enqueue"
    /\ UNCHANGED <<clock, callback, screen, pattern, cached, loop, running, transmitter, returned>>

Media ==
    [index     |-> frame.index,
     nominal   |-> frame.nominal,
     capture   |-> frame.capture,
     timestamp |-> RtpTimestamp(frame.index),
     idr       |-> pc = "enqueue_idr"]

EnqueueFrame ==
    /\ pc \in {"enqueue", "enqueue_idr"}
    /\ Transmitter!Accept(Media)
    /\ frame_index' = frame_index + 1
    /\ pc' = "loop"
    /\ UNCHANGED <<clock, callback, screen, pattern, encoder, frame, skipped_intervals, running,
                   returned>>

\* Conversion and encoding may throw, and so does enqueue after a failure of
\* the transmitter; its destructor closes it.  The loop also ends in this way when
\* a dump or the table of production times cannot be written: those files are
\* left out, and their failures with them.
LoopFails ==
    /\ \/ pc \in {"convert", "encode"}
       \/ pc \in {"enqueue", "enqueue_idr"} /\ status = "failed"
    /\ pc' = "unwind"
    /\ UNCHANGED <<clock, callback, screen, pattern, encoder, loop, running, transmitter, returned>>

CloseTransmitter ==
    /\ pc \in {"close", "unwind"}
    /\ IF status = "open" THEN Transmitter!Close ELSE UNCHANGED transmitter
    /\ pc' = IF pc = "close" THEN "closing" ELSE "unwinding"
    /\ UNCHANGED <<clock, callback, screen, pattern, encoder, loop, running, returned>>

Exit ==
    /\ pc \in {"closing", "unwinding"}
    /\ status \in {"drained", "failed"}
    /\ pc' = IF pc = "closing" /\ status = "drained" THEN "done" ELSE "threw"
    /\ UNCHANGED <<clock, callback, screen, pattern, encoder, loop, running, transmitter, returned>>

-----------------------------------------------------------------------------
(* The transmitter *)

TransmitterStep ==
    /\ Transmitter!Deliver \/ Transmitter!Drained
    /\ UNCHANGED <<clock, callback, screen, pattern, pc, encoder, loop, running, returned>>

TransmitterFails ==
    /\ Transmitter!Fail
    /\ UNCHANGED <<clock, callback, screen, pattern, pc, encoder, loop, running, returned>>

-----------------------------------------------------------------------------
NextStep ==
    \/ NextScreen \/ FirstFrame \/ NoFirstFrame \/ TakeLatest \/ RepeatFrame \/ AdvanceDeadline
    \/ StartTimeline \/ SelectSlot \/ MakeFrame

LoopStep ==
    NextStep \/ LoopBegin \/ Convert \/ Encode \/ EnqueueFrame \/ CloseTransmitter \/ Exit

Next ==
    \/ Tick \/ StopSignal
    \/ FrameArrived \/ CopyFails \/ StoreFrame
    \/ LoopStep \/ LoopFails
    \/ TransmitterStep \/ TransmitterFails

Spec == Init /\ [][Next]_vars

\* The loop's thread runs, time passes and the transmitter transmits.  Nothing
\* has to be composed or stored, and nothing has to fail.
FairSpec ==
    /\ Spec
    /\ WF_vars(LoopStep) /\ WF_vars(Tick) /\ WF_vars(TransmitterStep)
    /\ WF_vars(LoopFails /\ status = "failed")

-----------------------------------------------------------------------------
\* The mailbox of the screen source keeps the newest frame only, and keeps it
\* until it is taken: the callback never brings an older frame back, and what
\* has not been replaced is not lost between two calls of next.
MailboxHoldsNewest ==
    IF latest = None THEN taken = stored ELSE latest = stored /\ taken < latest

\* Every frame that next returns is encoded and handed over, so that a sender
\* that ends without an error has transmitted all of them; in particular a frame
\* is never to be repeated before there is one.
NothingProducedIsLost ==
    /\ pc \in {"loop", "next", "first", "deadline", "advance", "select", "wait",
               "close", "closing"} => Len(accepted) = returned
    /\ pc = "done" => Len(delivered) = returned

\* However late the loop is, the deadlines of the screen source stay on the grid
\* of the first one, none is further away than a period, and no more frames are
\* returned than periods have begun: missed deadlines are not caught up.
PaceIsKept ==
    next_deadline # None =>
       /\ (next_deadline - first_deadline) % FramePeriod = 0
       /\ next_deadline <= clock + FramePeriod
       /\ next_deadline >= first_deadline + returned * FramePeriod

\* The slots the test pattern has left out are exactly those counted in
\* skipped_intervals: a sender that reports none has left out no frame.
SkipsAreCounted ==
    ~Screen /\ pc \in {"loop", "encode", "enqueue", "enqueue_idr", "close", "closing", "done"} =>
       source_index = returned + skipped_intervals

\* The RTP timestamps of the test pattern follow the nominal times over any
\* number of frames, skips and wraps, with no more error than one rounding of each,
\* between any two frames so near that a timestamp can tell how far apart they are.
TimestampsFollowNominal ==
    ~Screen =>
       \A i \in DOMAIN accepted : \A j \in 1 .. i :
          LET ticks   == (accepted[i].timestamp + TimestampSpace - accepted[j].timestamp) % TimestampSpace
              elapsed == accepted[i].nominal - accepted[j].nominal
          IN elapsed * RtpClockRate + Second + RtpClockRate < TimestampSpace * Second =>
                /\ ticks * Second <= elapsed * RtpClockRate + Second + RtpClockRate
                /\ elapsed * RtpClockRate <= ticks * Second + Second + RtpClockRate

\* Frames are not made before their nominal time, and the slot chosen is the
\* present one: not one in the future unless every slot up to it has been made,
\* and not one whose successor has begun already.
SlotIsPresent ==
    [][ /\ pc = "select" /\ pc' = "wait" =>
              /\ clock <= start_ns + NominalOffset(frame'.index + 1)
              /\ frame'.index > source_index => frame'.nominal <= clock
        /\ pc = "wait" /\ pc' = "convert" => frame'.nominal <= frame'.capture ]_vars

\* A sender that is told to stop ends, whatever its source and its transmitter do.
SenderEnds == ~running ~> pc \in {"done", "threw"}
=============================================================================
