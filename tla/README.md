# IPMX-Windows: TLA+ specifications

This directory holds TLA+ models of the IPMX sender and receiver, the TLC configurations that check
them on small instances, and proofs that TLAPS checks for every instance. Paths below are relative
to the repository.

    tlc -workers 2 -config Transmitter.cfg MCFrameTransmitter.tla
    tlapm FrameTransmitterProofs.tla

## The system

A sender captures or generates frames, encodes them with x264, packetizes the H.264 access units as
RTP (RFC 6184), and hands them to a network thread that sends each frame's RTCP sender report and
RTP packets on a timeline (VSF TR-10-7, ST 2110-21). A receiver takes the datagrams, tracks the
sequence numbers, reassembles access units and decodes and shows them.

    source -> encoder -> packetizer -> FrameTransmitter ==UDP multicast==> tracker, depacketizer -> decoder -> renderer
              (client thread)          (worker thread: shaper, tracker)       (one loop)
                                        \-> AsyncPcapRtpWriter (thread)

| Component | State | Operations | What is hard | What makes it correct |
|---|---|---|---|---|
| FrameTransmitter (`frame_transmitter.cpp`) | bounded queue, byte account, peaks, `stopping`, `closed`, `error`, published statistics; the worker's counters | `enqueue`, `close`, `stats`, the worker's loop | callers and worker interleave through one lock and two condition variables; failure and close at any time; spurious wake-ups | nothing lost, reordered or doubled; exact account; no lost wake-up; close drains; failure reported; blocked calls end |
| Frame timeline (`frame_transmitter.cpp`, `timing.cpp`) | clock, times of the current frame | report, CPB insertion, packets | late waits, late frames, long sends | report before media with the configured offset |
| Traffic shaper, NCM tracker (`traffic_shaper.cpp`) | two theoretical arrival times; epoch, drain count, CINST | `schedule_ns`, `observe` | off-by-one of the bursts, restart after a pause, scheduled against actual time | CINST and bit rate stay within their limits, no needless delay |
| Packetizer, depacketizer (`rtp.cpp`) | next sequence number; the access unit being assembled, its capture time | `packetize`, `push` | limits on sizes; losses, duplicates and reordering in and across access units and across senders | packets well formed; nothing mixed; damage dropped and forgotten |
| RTP parser (`rtp.cpp`) | none | `make_packet`, `parse_rtp_packet` | sources, extensions and padding other senders use, datagrams that are not RTP | payload and capture time read where they were put, the rest refused |
| Sequence tracker (`rtp.cpp`) | expected number, missing set, counters | `observe` | 16-bit wrap, late and repeated arrivals | exact loss count |
| Receiver loop (`ipmx-receiver/src/main.cpp`) | `synchronized`, counters | one datagram per turn | joins in the middle, no recovery point yet | a clean verdict means that what was decoded is whole and nothing counted is missing |
| AsyncPcapRtpWriter (`pcap.cpp`) | bounded queue, `dropped`, `error` | `enqueue`, `close`, its thread | drops, errors that surface later | everything written or an error |
| Sources (`test_pattern.cpp`, `wgc_capture.cpp`) | deadlines, mailbox of the latest frame | `next`, capture callback | callback against `next`, missed deadlines | times and indices advance |
| Decoder wrapper (`mf_h264_decoder.cpp`) | table of capture times, layout of the output buffer | `decode`, `drain` | eviction at 512 entries, a layout that changes in midstream | a frame gets its own time or none, and its own rows |
| SDP (`sdp.cpp`) | the file between sender and receiver | `write_sdp`, `read_sdp_description`, `validate_ipmx_sdp` | crashes while writing, concurrent reading, lines in any order, checks in four places | a receiver joins a whole described session or none |
| H.264 parser, Annex B (`h264.cpp`, `annexb.cpp`) | a position in a buffer | `read_bits`, `read_ue`, `read_se`, `parse_h264_sps`, `parse_h264_sei`, parse and build of streams | buffers that end early, runs of zeros, largest words, optional parts nested in each other | inverse of the standard's writer |
| RTCP report (`rtcp.cpp`) | none | make, inspect | lengths of nested blocks, filling | what is inspected is what was put in |
| BGRA to NV12 (`bgra_to_nv12.cpp`) | none | `bgra_to_nv12` | rounding, signs, the edges of a picture | every octet written, in range |
| x264 wrapper, metrics, renderer | little | calls of a library | | |

Components interact as follows: the sender's loop calls `enqueue` and blocks when the queue is full
(shared state under one mutex); the worker calls the shaper, the tracker, the sockets and the capture
writer; its failure reaches the callers as an exception kept in the shared state; the network loses,
duplicates and reorders datagrams; the receiver's loop calls its components one after the other.

`PROJECT.json` lists every component with its status, every hazard with its line and the properties
that would catch it, and the lines every definition models.

## Modules

| Module | Models |
|---|---|
| `FrameHandoff` | what the transmitter promises: an ordered, bounded hand-off with close and failure, without threads |
| `FrameTransmitter` | the transmitter with its threads; implements `FrameHandoff` |
| `MCFrameTransmitter` | instances of it for TLC |
| `FrameTransmitterProofs` | theorems about it, among them that it implements `FrameHandoff` |
| `TrafficShaper` | the shaper and the tracker as operators on their state |
| `FramePacing` | the worker's timeline over several frames, with clock, late waits and a reference bucket |
| `FramePacingProofs` | theorems about pacing, shaper and tracker |
| `SequenceTracker` | the sequence tracker as operators, over a sequence space of any even size |
| `SequenceAudit` | the tracker against unwrapped packet numbers |
| `SequenceAuditProofs` | the theorem that its count is exact |
| `RtpHeader` | the bytes of an RTP datagram: writing and `parse_rtp_packet`, as operators |
| `H264Payload` | packetizer and depacketizer as operators |
| `RtpTransport` | senders, network and receiver together; composes `RtpHeader`, `H264Payload` and `SequenceTracker` |
| `RtpTransportProofs` | theorems about the transport: what is sent and read, what is completed, what the receiver holds |
| `MCRtpTransport` | sessions for TLC: what is sent and how it is dressed, the faults of the network, takeovers, strays |
| `CaptureWriter` | the packet capture: the transmitter's worker as producer, the capture thread, the file stream |
| `CaptureWriterProofs` | theorems about it |
| `FrameTimeline` | frame slots, nominal times and RTP timestamps as operators |
| `FrameProduction` | the sender's loop over either source, with the capture callback and a clock; composes `FrameTimeline`, the encoder's keyframes and a transmitter abstracted as in `FrameHandoff` |
| `FrameProductionProofs` | theorems about it, the timeline and the conversion of the pictures |
| `DecoderTimes` | the decoder wrapper with its table of capture times and the layout of its buffers, and the receiver's judgement of lateness |
| `MCDecoderTimes` | transforms for TLC |
| `DecoderTimesProofs` | theorems about the decoder, for any transform |
| `Sdp` | the session description: admission, lines, reading, validation, as operators |
| `RtcpReport` | the RTCP compound packet, made and inspected, as operators |
| `SessionSetup`, `MCSessionSetup` | options, encoder, description file, transmitter and first report, and a receiver, with crashes, and descriptions of other programs; composes `Sdp` and `RtcpReport` |
| `SessionSetupProofs` | theorems about the file, its writers and its readers |
| `ByteStream` | Annex B and emulation prevention, as operators |
| `BitReader` | reading fixed fields and Exp-Golomb codes, as operators |
| `SpsSyntax` | the syntax of a sequence parameter set, as the code reads it and as the standard writes it |
| `ParameterSets`, `MCParameterSets` | NAL units from the writer's fields and SEI messages through the byte stream to the reader's, and sequence parameter sets element by element |
| `BgraToNv12` | the conversion of a picture, as operators |

Operators marked "Faulty" (`X_SomeBug`) are not part of any specification: each is the operator `X`
with a plausible bug, kept beside it to show that a property notices the bug when `X` is replaced by
it. `PROJECT.json` pairs them with properties.

### FrameTransmitter

An action is one critical section of the code or one step of the worker outside the lock. A thread in
`condition_variable::wait` has program counter "waiting"; a notification (or `SpuriousWake`) makes it
"woken" (the worker: "dequeue"), and it then evaluates the wait's predicate again under the lock. So
`Enqueue` and `Resume` share `Admit` (predicate true: throw, or account and append) and `Block`
(predicate false). `notify_one` wakes any one waiter. `CloseFirst`, `CloseJoined` and `CloseAgain` are
the parts of `close`; the destructor is a close whose exception is swallowed. The worker goes through
`WorkerPop`, `SendReport`, `CountReport`, `SendPacket`..., `ReleaseBytes` and `PublishFrame`;
the end of a frame is two critical sections in the code, and two actions here. `WorkerFail` may
happen wherever the worker's body can throw. Frames are model values with a number of packets and of
bytes; zero packets is an access unit the encoder omitted, which still has a report. Byte counts are
unbounded naturals: the code saturates them at 2^64. `Clients` is any finite set because the class admits any number of
threads; the only caller in the repository is the sender's loop. History variables record the order of acceptance
and completion, the running sum of accepted bytes and the datagrams on the wire.

### TrafficShaper and FramePacing

Times are small numbers. A packet is characterised by the time its bits take at the maximum IP
bitrate (`Spacings`); the largest datagram takes `MaxSpacing`. The clock moves in `TakeFrame` (waiting for a
frame), in waits, which never end early and at most `MaxLateness` late, and by work of at most
`MaxWork`. `meter` is a reference leaky bucket filled by what is really sent, drained at the maximum
bitrate. `BudgetsAdvance` (proved, below) and `BitrateCompliance` need `MaxDrift + DrainInterval >= Cmax * MaxSpacing`:
the restart after a pause looks at the packet bucket only, and with a shorter drift would forgive bits
not yet drained. With the defaults (100 ms of drift, CMAX of 16)
it holds from about 1.5 Mbit/s up for datagrams of 1200 octets, and from about 1.8 Mbit/s for the largest, of 1460.

### SequenceTracker, RtpHeader, H264Payload and RtpTransport

The sequence space is a parameter. A NAL is a sequence of opaque units, so that a completed access unit can
be compared with the sent one unit by unit. Malformed payloads are not modelled: the sender never
makes them. The header of a datagram is there octet by octet (`Datagram`), the payload with its size only.
`OwnDressing` is what this repository's sender writes; other senders' contributing sources, extension
elements and padding are external. Every packet the receiver gets goes through `Parse` (`Wire`, `Receive`), and a
datagram with no valid header or another payload type counts as invalid (`IsH264`, `Intrude`).

The network keeps the packets under way in a sequence; it delivers the first one, or
another one at the cost of a reordering, keeps a copy at the cost of a duplicate, or loses one. The
receiver may join before or during any access unit. A sender may stop anywhere and another one begin
(`TakeOver`), with a sequence number of its own and a random access point; the timestamps of the two differ, as
they come from the clock. The SSRC is not looked at by the code and is a constant here.

### CaptureWriter

The producer is the transmitter's worker: it sends a datagram (`SendDatagram`) and then captures it
(`EnqueueThrows`, `EnqueueDrops`, `EnqueueAccepts`, one critical section each), closes the capture when
its loop ends, or fails anywhere (`ProducerFail`), in which case the capture is closed by its
destructor and the error swallowed. `close` throws after the join if anything was dropped or the thread
failed (`CloseThrows`). The capture thread takes one entry per turn and writes it outside the lock. The file stream is
a buffer of `BufferPackets` records: what it holds is written when it is full, or by its destructor
(`DestroyStream`), whose errors nobody sees; that is after `close` has returned.

### FrameTimeline and FrameProduction

Times count in a unit of which a second has `Second`; the frame rate is `Numerator/Denominator`. Any
time may pass between two steps (`Tick`). The loop ends when `Duration` has passed, as with the option
of that name; from `LateTime` on, which bounds the model, time passes only while the loop waits. The screen's callback runs on a thread of the graphics system, one call at
a time, and stores a frame with the time it was composed. `next` keeps the callback's mutex from the
moment it takes the latest frame until it has moved its deadline (`Locked`), as the code does. The
loop's steps are those of `main`: `LoopBegin`, the source, `Convert`, `Encode`, `EnqueueFrame`, the stop
signal, `CloseTransmitter`, and a failure of the conversion, the encoder or `enqueue` (`LoopFails`; the dump files and the CSV of
production times, whose write errors end the loop in the same way, are left out). The transmitter is a queue that transmits in
order, may be full and may fail. `previous_pts` is kept plus one, with 0 for none. Statistics of missed
encode deadlines are left out.

### DecoderTimes

The transform of Media Foundation is external: it delays pictures by up to its depth, may discard one, may
refuse input until its output has been taken, may or may not give its output the sample time of its
input, and may change the layout of its output between two pictures, which it announces (`StreamChange`).
`Transforms` are the ones to choose from at the start; a wrapper whose first output is
smaller than the visible part is never constructed, so such a start is none. A picture stands for the access unit it comes from, and
its pixels for the places in the buffer they are copied from (`RowsAt`). `MaxPending` is 512 in the code.
An access unit has the time 0 if its packets carried none, and a frame with that time is presented and not measured, as in the
receiver's loop. Times of the future, which the loop does not measure either, are left out: `--local-clock` says that sender and
receiver read the same clock, and it is taken as given.

### Sdp, RtcpReport and SessionSetup

A line is a record with its key and value; what is constant in every description (sampling, depth,
colorimetry and so on) is one parameter, and everything a sequence parameter set says besides size and
timing is one flag. `SessionSetup` composes the sender's start-up (options, encoder, `write_sdp`, the
transmitter's constructor, the first report) with
a receiver that reads the file at any moment. At first the file may be empty or hold another program's
description (`Documents`, external), its overlapping lines and parameters missing or not and in any
order. What has reached the file is a beginning of the description, cut between lines or inside the
long fmtp line, but not inside a base64 value; a write error that shows only when the stream is closed is not noticed, and a sender may
crash anywhere and be followed by one with other options. x264's headers are external: as asked, or not
conforming, or of another rate.

The RTCP packet is a sequence of fields with sizes; a reader that asks for a number where none of that
size begins misreads (`ReadAt`). Texts are known by their lengths. `Unchecked` lists what
the checks before the description leave open: a reference clock beyond 64 characters, sides of the picture beyond
the report's 16 bits, a frame rate beyond its 22 and 10 bits, a report's delay longer than the encoder's, delays at the end of the clock.
A sender with one of these announces its session and then fails; `ChecksSuffice` says that it is these and nothing
else.

### ByteStream, BitReader, SpsSyntax and ParameterSets

The writer is the H.264 standard's and external: fields become bits, the bits bytes with a stop bit,
the bytes a NAL unit with emulation prevention, the NAL units a byte stream. The receiver gets that
stream or a beginning of it (`Receive` parses it), and reads the fields of each unit (`ReadField`) or its SEI messages (`ParseSei`, whose limit of 32 bits on a type is left out). The
word of `read_bits` and the byte are parameters, `WordBits` and `ByteBits`, 32 and 8 in the code: the
numbers 0, 1 and 3, which start codes and emulation prevention rest on, are there in bytes of two bits,
and short bytes make their runs frequent; the byte of all ones, which counts on in SEI numbers, is 3.

A sequence parameter set is a sequence of elements with descriptor and value. `ReadElement` is the reader:
it knows the elements to come, and one that has been read may bring others (`Follow`). A descriptor that is not
the writer's is a misreading, so that the two layers can be checked apart: how elements are made of bits with arbitrary
fields, which elements there are with the values of the code, on sets cut after any element.

### BgraToNv12

The planes are functions of row and column, each octet from the pixels the code reads for it; the arithmetic shift of a
negative number rounds down, as `\div` does. The module has no state and no run: the theorems about it, in
`FrameProductionProofs`, are about every picture.

## Runs

| Run | Shows | Bounds, and why they are enough |
|---|---|---|
| `transmitter` | account, published occupancy, wake-ups, report counts, order on the wire, close, failure, refinement of `FrameHandoff`; blocked `enqueue` and joining `close` end, the hand-off progresses | 3 callers (one woken, one waiting, one closing), 3 frames through a queue of 1: two callers wait while the queue is full, or one while the worker holds a frame as well; frames of 0, 1 and 2 packets. What a longer queue adds, sums and order, is proved for any length. No symmetry, as the run checks liveness |
| `pacing` | NCM, bit rate, no over-delay, report before media | CMAX 3, drain interval 2, spacings 1 and 3, drift 7, waits up to a drain interval late; up to 4 packets per frame and a horizon of 12: bursts longer than CMAX, pauses longer than the drift, several frames |
| `sequence` | exact loss count through a wrap, with losses, displacements and duplicates | 14 packets over a space of 8, displaced by at most 3, the largest distance below half the space; 2 duplicates while a turn of the space has not passed |
| `sequence_stale` | finding: stale missing marker | 14 packets over a space of 6, one duplicate at any time |
| `transport` | completed units are tails with their own capture time, what a clean verdict says and what it does not, packets well formed and read as written, damage does not spread | two streams of 3 or 4 access units with aggregates, fragments and an omitted one, with 2 losses, 1 duplicate and 1 reordering; one with a loss and a stray whose capture time is on the last packets; one where a sender stops anywhere and another begins, with numbers that continue, repeat or leave the run, a loss and a reordering. Without faults: every access unit of up to 3 NALs of 7 sizes around the limits, and one of too many NALs, before another; access units beyond each of the limits (number of NALs, size of one, size of all, within an aggregate too) after a random access point and before others, one of them with a loss and one before a takeover, and a random access point that is itself too large; 218 dressings of the header. The strays are the malformed packets of the repository's tests. Receiver limits small enough to be exceeded; sequence numbers that wrap |
| `transport_truncated` | finding: truncated access unit decoded | one loss |
| `capture` | everything captured is in the file, under way or counted; a clean close means a complete capture; a producer that ends is not held up | queue of 2, stream buffer of 2, 6 datagrams: drops, a full buffer and a failure before, between and after writes |
| `production_pattern` | skipped slots counted, timestamps without drift through a wrap, the present slot | 4/7 frames per unit, so that periods are not whole; 7 units, the loop as slow as it likes |
| `production_screen` | mailbox, deadlines, nothing returned is lost; a stopped sender ends | period of 3 units, callback at any time, queue of 1; 4 units: repeated, replaced and missed frames |
| `decoder` | a picture gets its own time or none, and its own rows; a clean verdict means pictures in time | table of 2, 4 access units; a transform with sample times and a delay of up to 4, so that entries are evicted while their pictures are inside, and one without and a delay within the table; layouts padded below, beside, not at all, and one too small |
| `setup` | joins a described session or none, whatever the order of its lines; a complete description is accepted; checks suffice; the report is readable | two sessions and one bad option per check, options nobody checks, 2 runs of the sender, crashes at every step; every way to declare a size and a rate on overlapping lines and parameters, and to declare neither, in every order. A second is 10000 units and the clock ends at 10^8, so that delays at its end are there |
| `parameter_sets` | units survive the byte stream and parsed units are clean; fields and messages come back, failures only at the end; parameter sets are read as written and judged rightly | 3-bit words, 2-bit bytes, 2 fields of any kind and value in 1 or 2 units, or 1 or 2 SEI messages with numbers below, at and beyond a full byte, cut after any byte; 48 parameter sets, each differing from a usual one in one respect, so that each optional part is there and not there, cut after any element |

The pacing, sequence, transport and setup models and the others with bounds stop at them, so their
runs do not check deadlock; the transmitter's run does, and it never stops: `stats` can always be called.

`PicturesAreTheirOwn`, for the times of a transform without sample times is claimed for one that puts out every picture it
takes: the wrapper then takes the oldest time, and a discarded picture would shift it.

Each run asks one question of one part of the system, with every fault that belongs to it in the same state
space: new parts of the plan extend these models and runs where they belong.

Fairness: `FairSpec` asks weak fairness of the worker's steps and of callers that are inside a call
and not waiting, which is what the operating system's scheduler gives a runnable thread. Nobody is
obliged to call, the worker is not obliged to fail, and no wait is obliged to end spuriously, so
liveness rests on the notifications alone. `CaptureWriter` asks it of the steps of its two threads, and
again not of failures or spurious wake-ups. `FrameProduction` asks that time passes, that the loop's steps and the
transmitter's transmissions are taken, and that a transmitter that has failed makes the loop fail; the screen
never has to compose a frame nor a callback to store one, and nobody has to stop the sender before `Duration`.

## Findings

- A sequence number reached by a jump keeps the missing marker of its previous use (`rtp.cpp:376`),
  although a comment means every reuse to clear it: a later duplicate then takes back a loss
  (`sequence_stale`). Within one turn of the sequence space the count is exact (`sequence`).
- The receiver completes and decodes the tail of an access unit whose first packets were lost
  (`rtp.cpp:260`), although the README says that damaged access units are discarded
  (`transport_truncated`). The verdict is not clean then (`transport`), unless those packets
  were the first of a sender that took over: see below.

Noticed while modelling, without a run of their own: the packetizer emits STAP-A (`rtp.cpp:118`),
although the README says that it does not (a core test requires it, a conformance test forbids it);
the shaper charges its buckets from scheduled times (`traffic_shaper.cpp:63`), so that lateness of the
timer makes bursts larger than CMAX, by what `NcmCompliance` bounds; the screen source gives no nominal
time (`wgc_capture.cpp:117`), so that its frames are scheduled from capture times, which may go back;
a sequence parameter set without bitstream restrictions is accepted (`h264.cpp:400`), although it says nothing
about reordering; packets of any SSRC are one run of numbers (`ipmx-receiver/src/main.cpp:197`), so that a sender
whose numbers happen to continue those of the one before can have its first access unit decoded without its
beginning under a clean verdict; an access unit beyond the receiver's limits (256 NALs, 8 MiB for one, 16 MiB in all) is dropped on
purpose (`rtp.cpp:354`, required by a core test), but none of the counters the verdict is computed from (`ipmx-receiver/src/main.cpp:232`)
changes, so that a receiver may report PASS with a hole in the video (`CleanVerdictIsSound` says exactly these two much less:
`MayBeMissing` and the first access unit of a later sender); a session may be
announced and then not be sent (`Unchecked` in `SessionSetup`); blue-difference chroma
leaves the nominal range 16 to 240 by one on each side (`bgra_to_nv12.cpp:19`, `ChromaIsLegal`).

## Proofs

### The transmitter

For any finite set of callers, any frames with any numbers of packets and bytes and any capacity, from
`ConstantsAssumption` alone:

- `TypeCorrectness` (`FrameTransmitterProofs`): `TypeOK` is invariant. It is inductive together with
  `InHand` (which program counters hold a frame), proved per action.
- `CpbAccountingHolds`: the byte account is exactly what was accepted and not completely sent. The
  worker subtracts with saturation at zero; that this never hides anything needs to know that the
  frame in its hands is the next accepted one (`OrderInv`: the accepted frames are the finished ones,
  the one in hand and the queue, position by position) and that the running sums only grow
  (`LedgerInv`). Every step is first classified as accepting, taking, completing or none of them
  (`HandoffSteps`), and the invariants are proved on these.
- `CloseMeansDrainedHolds`, `FailureIsSurfacedHolds`: what a normal
  return means. `PhaseInv` says that past its loop the worker has nothing left and nothing can be
  added, and that an error and its end are the same step; `JoinInv` that a caller that joins has not
  been answered; with `OrderInv` an empty queue and empty hands give `finished = accepted`.
- `PublishedOccupancyHolds`: inductive as it stands, over the three places that publish statistics.
- `NoLostWakeupHolds`: inductive as it stands; the proof counts the woken
  callers through every step that wakes or lets in one of them.
- `HandoffRefinement`: every step is a step of `FrameHandoff` or leaves
  its state alone. Besides `OrderInv` and `PhaseInv` it needs `UniqueInv`: frames accepted and frames in
  the hands of waiting callers are all distinct.
- `ReportCountsMatchWireHolds`, `ReportLeadsItsFrameHolds`: what is on the wire. `LeadInv` says
  that the last datagram is where the worker is, `TallyInv` that every datagram is of a finished frame or of the
  one in hand and counts them per frame. A frame taken from the queue starts with none because no frame is
  accepted twice (`Distinct`, from `UniqueInv`) and the finished ones are those before it (`OrderInv`).

### Pacing

`FramePacingProofs`, for every CMAX, drain interval, packet sizes, session timing and lateness, from
`ShaperAssumption`, `PacingAssumption` and `ClockAssumption` (the times reached stay away from the end of
the clock's range, so that additions do not saturate):

- `NcmComplianceHolds`. The argument: the tracker's level would reach zero at `Emptied`, and the packet
  bucket's theoretical arrival time is never more than the lateness before it (`BudgetInv`; for a packet
  scheduled and not yet sent a drain interval is still in hand). As that arrival time is at most CMAX
  drain intervals after the last scheduled time, the level is bounded. One packet's step is proved once
  for the shaper (`ShaperStep`) and once for the tracker (`TrackerStep`), products kept in lemmas.
- `ReportThenMediaHolds`, `NoOverdelayHolds` and the type invariant, from the same invariant.
- `BitrateComplianceHolds`, `BudgetsAdvanceHolds` under `DriftCoversBurst` (the drift and one drain
  interval cover CMAX of the largest packets): the condition named above, and where it is used is the
  restart after a pause. The same argument with the bit bucket and the reference meter (`BitInv`).
- `DrainIntervalsAgree`: the two classes compute the same drain interval from every packet rate; it
  justifies that the model has one constant for both.

### Frames

`FrameProductionProofs`, from `ProductionAssumption`, for every rational frame rate, unit of time and
lateness:

- `SlotIsPresentHolds`: the slot the test pattern selects has begun and the next one, if it is not ahead
  of the present already, has not. The code computes the latest slot by dividing quotient and remainder
  separately; `ScaledQuotient` says that this equals the whole division, `LatestBounds` and
  `OffsetBounds` bound both directions' rounding, and `LatestHasBegun` and `LaterHasNotBegun` join them.
- `SkipsAreCountedHolds`: the media index is the number of frames made and of those counted as
  skipped, whichever step the loop is at (`SkipInv`).
- `MailboxHoldsNewestHolds`: with the callback at any point between the steps of `next` (`MailboxInv`).
- `PaceIsKeptHolds`: the screen source's deadlines are points of the first one's grid, with at least one point
  for each frame returned (`OnGrid`, preserved by `NextOnGrid` however late `next` comes).
- `NothingProducedIsLostHolds`: for any capacity and any failure of the transmitter; that no frame is dropped for
  want of a converted one needs that the first is never a repetition (`PaceInv`), and then that a frame taken is
  a frame converted (`ProducedInv`).

- `TimestampsFollowNominalHolds`: the timestamps of any two accepted frames differ as their nominal times do, to
  within a tick and a unit of time, over any number of skips and wraps, as long as the two are less than a turn of
  the timestamps apart; beyond that nobody can tell. Slot, nominal time and timestamp are each a floor of a
  product computed from the slot's index, never accumulated (`FollowInv`: an accepted frame's nominal time and
  timestamp are those of its index, and indices grow). `TicksFollow` bounds what the two roundings can differ by,
  and `TurnIsUndone` that the wrap of the timestamp can be undone.

### The sequence tracker

`SequenceAuditProofs`: `LossIsExactHolds`, for every even size of the sequence space, any number of packets and
wraps and every displacement below half the space, when a duplicate comes within a turn (`DuplicateSpan <=
SequenceSpace`). `AuditInv` relates the tracker to unwrapped packet numbers: every packet missing of the last turn is
marked (`Marked`), and nothing else is in the first turn (`OnlyMarked`). Later a number reached again may carry the marker of
its earlier use, which a duplicate then takes for a loss made good: hence the hypothesis, without which
`sequence_stale` shows the counterexample.
`DistanceIsSigned` says that the 16-bit subtraction gives the signed distance below half a turn, and each branch
of `observe` has a lemma of its own for the tracker and another for the audit.

### The transport

`RtpTransportProofs`, for every stream of NAL units, payload size, limit of the receiver and size of the sequence space, any
number of losses, duplicates, reorderings, strays and takeovers, from `PayloadAssumption`, `SequenceSpaceAssumption`,
`TransportAssumption` and `FieldsAssumption` (a sequence number fits in 16 bits and a timestamp in 32):

- `CompletedAreTailsHolds`, with the senders of this repository (`OwnSenders`). Two facts about the operators carry it.
  `PacketizeCarries`: the bodies of an access unit carry its NALs, the empty ones left out, one after the other; there is a
  place in the access unit, a number of NALs and of units of the next one, at which each body ends and the next one begins
  (`Carried`), whichever of single NALs, aggregates and fragments `packetize` chose. `TakenKeeps`: what the depacketizer has
  assembled is what lies between some place and the place of the last packet it took, or it is marked as damaged (`Keeps`), as a packet
  that does not follow the last one is noticed; `AcceptKeeps` goes through the ways of `push`. The inductive invariant
  `TransportInv` says besides that there is one first number for every access unit, by which all its packets under way are numbered
  (`Sent`): a takeover never numbers an access unit twice. With the marker, which is on the last body only, the place is the end of
  the access unit.
- `OwnPacketsAreRead`: what the receiver reads of these packets is what was written. `OwnHeader` gives the 28 octets of the header and
  `OwnParse` what becomes of them: numbers and timestamp are put together again from their octets (`Joins16`, `Joins32`), the
  cursor goes over the element to the padding and to the end (`OwnElementsRead`).
- `PacketsAreWellFormedHolds`: the rest of what the run `transport` checks of a packet. By induction from the last NAL back, every body
  fits in a datagram and the last one has the marker (`PacketsAreSized`, from what `RunEnd` lets into an aggregate and what
  `Fragments` cuts); as the headers of the NALs of an access unit differ, so do the NALs kept of it (`KeptAreDistinct`), and no other
  body is as the last one (`LastDiffers`). `OwnIsValid` has every such datagram accepted.
- `TypeOKHolds`. Here `LimitsInv` is inductive together with `TransportInv`: the counter of bytes is the sum over the NALs held
  (`TotalUnits`), neither exceeds its limit, and a fragment under assembly is not longer than a NAL may be (`Counted`, kept by every way of
  `push`: `AcceptCounts`).
- `IntactIsCompletedHolds`, an action property. `CompletedAreTails` says what a completed access unit is, this one that it is completed: damage
  done to one access unit does not reach the next. The invariant `IntactInv` relates the depacketizer to the history of arrivals: what
  is assembled is of a packet that arrived (`Seen`); every arrival is a packet of one that was sent (`Heard`); and when the
  arrivals end with the first m packets of an access unit within the limits, m less than all, in order and without an earlier one of it, the
  depacketizer holds all that these carry, undamaged (`Intact`, `After`). `TakenFull` takes it one packet further: what is kept
  is within the limits the access unit is within (`SmallEnough`), so there is room for every NAL. Packets that end the arrivals, each with the number
  after that of the one before, are in order from the first one on, as their numbers are all different (`AllInOrder`). The last
  one has the marker, so that the access unit is completed with it (`WholeCompletes`).
- `CompletedAreTailsIfRead`, `TypeOKIfRead`, `IntactIsCompletedIfRead`: with any other sender the same follows if
  `PacketsAreWellFormed` holds, which is checked for 218 dressings.

`TotalUnits` is a fold, which goes over the set of positions from the largest one down (`UnitsSteps`).

The hypothesis `ShortUnits` is that no access unit has as many packets as there are sequence numbers; with the default datagram
65536 of them are 77 MB, and the depacketizer takes 16 MiB at most. `NoOthers` is that no datagram of another program is an RTP packet with
the payload type; the code has nothing else to tell one by. `ClosedUnits`, of `PacketsAreWellFormedHolds` and the two about intact
access units, is that no access unit ends with an empty NAL: `packetize` passes over an empty one, and the marker with it.
`parse_annex_b`, through which the encoder's output goes, makes no empty NAL (`annexb.cpp:47`). All three hold of what the run `transport`
chooses.

`Bodies`, `Kept`, `ReadElements` and the aggregates of `AcceptAggregate` are recursive functions, whose existence and steps
are derived from the least number (`LeastNumber`), as below for the reader of descriptions.

### The capture

`CaptureWriterProofs`, for every queue limit, stream buffer and number of datagrams, from `CaptureAssumption`:
`NothingIsSilentlyLost` and `CleanCloseCompletes`. Neither property is inductive: that a normal return finds
the whole capture in the stream needs to know where every accepted datagram is at each step of the thread
(`Flow`), that without drops they are numbered without gaps (`Numbered`), and that the thread exits only with an
error recorded or with nothing left and a stop that no later `enqueue` can undo (`Agreed`). `CutIsPrefix` says
what a partial write leaves in the file.

### The decoder

`DecoderTimesProofs`, for every transform, table size and number of access units:

- `PicturesAreTheirOwnHolds`. `DecoderInv` says what the transform can hold (`HeldInv`: access units not put out
  yet, in order; all of them for one that discards none), that the table has the capture time of exactly the access
  units from `Oldest` on (`TableInv`: nothing but the next entries has been evicted, and none is left behind), and that
  the wrapper's stride and height are those of the layout the transform is using (`GeometryInv`), through changes of the stream
  in the middle of a drain. The hypothesis `TableHoldsUnstamped` is that a transform which gives no sample time holds no more
  pictures than the table has entries: the wrapper gives such a picture the oldest time, and with an entry evicted for a picture
  that is still inside every later time would be another picture's. The code has 512 entries; no transform delays by as many.
- `CleanMeansOnTimeHolds`: a run without late frames has presented every picture of the decoder, in order, and those with
  a capture time within the limit after it (`VerdictInv`: what is presented, on the screen and waiting are the outputs, position by
  position).

### The session

`SessionSetupProofs`, for any options, documents, sizes, clocks and crashes:

- `ChecksSufficeHolds`: a sender that has emptied the description file can fill it, and what still makes it fail is one of the
  values nobody checks. `CheckedOptions` collects what the checks of the four places leave; `SetupInv` carries it through
  the steps. That the transmitter refuses nothing else needs the arithmetic of `TransmitterRefusal`, and that the
  report can be made that of `ReportRefusal`.
- `JoinsADescribedSessionHolds`: whatever a receiver finds in the file at whatever moment, what it joins is a session
  announced as a whole. Every beginning of what a sender writes, with a cut in the middle of its long line, tells nothing
  but its session, and the group comes before the port (`Describes`, `BeginningDescribes`); reading such lines gives a description
  that agrees with the session in everything it has (`Agreed`, `LineAgrees`), and one that is accepted has everything.
- `CompleteIsAcceptedHolds`: a description written as a whole is accepted, and read as exactly the session it was made from
  (`MadeIsAccepted`): each line is followed through the reader with all its checks on what earlier lines said (`LineIsRead`,
  `MediaIsRead`, `FramesizeIsRead`, `FmtpIsRead`).
- `OrderDoesNotMatterHolds`: the session read from a document of another program is the one it declares, in every order of its
  overlapping lines and whichever of them are missing. `PictureKnown` says what the reader knows after any set of the three lines that give
  the picture, whichever came first; `LineKnown` that each line takes one such state to the next; `FoundInv` that the document in
  the file is one of `Documents` until a sender opens it. The hypothesis `DocumentsAreNumbered` is that a document has numbers other
  than zero: the reader takes 0 for "not said yet", and a line that says 0 is then overruled or refused by what happens to come after it.

The reader is a recursive function over the lines. What it returns after each beginning of them is proved without an induction
scheme: of the lengths at which the claim fails take the least (`LeastNumber`, from the well-foundedness of the naturals);
it is not 0, and the step before it holds and carries over.

### Colours

`FrameProductionProofs`, for every valid picture of octets, of any size and stride: what is read lies within the source
(`SampleIsRead`), every octet of both planes is written and never needs the clamp (`LumaIsLegal`: 16 to 235;
`ChromaIsLegal`: 15 to 241, as the weight of blue is rounded up), and grey is neutral (`GreyIsNeutral`).

### What is only model-checked

Liveness, which is out of the prover's reach as is ENABLED; of the transport `PacketsAreWellFormed` with other
senders' dressings, and `CleanVerdictIsSound`, which would need the tracker's audit and the history of arrivals in one invariant; `ReportIsReadable` and the parsers of
`ParameterSets`, whose operators fold over lists of fields and recurse over streams of any length: claims about those are
inductions over data, for which the library's theorems need an operator as a parameter. Where a claim was worth it (the reader
of a description), the induction is done by hand with the least counterexample.

## Not modelled

- `FrameIntervalTracker`, the send-jitter and latency statistics, the sender's final verdict and the metrics export:
  they are computed for a report and change nothing else. The interval tracker forgets the intervals before a pause
  longer than its window.
- Payloads no conforming sender makes, in the depacketizer; packet types it does not accept.
- The identifiers of picture parameter sets, the parameters given to x264 and its SEI statistics.
- The renderer, the socket calls, the set-up of Media Foundation, COM and the graphics capture: calls of external
  systems, of which the models keep the results and the failures.
- The inside of `PreciseWaiter` (a sleep and a busy wait): in the models a wait ends late by a bounded time, never early.
- The load generator and the build.

## Plan

Done: the transmitter and its abstract specification; shaper, tracker and timeline; sequence tracker;
headers, payloads and transport, with takeovers and strays; capture writer; sender's loop and sources; the decoder;
session description, start-up and report; Annex B, bit reader, SEI and sequence parameter sets; colours; the proofs above.

Next: the part of the clean verdict that is about the tracker, with `AuditInv` and `IntactInv` at hand; what a reader of a report
needs of its text; the parsers of `ParameterSets`.
