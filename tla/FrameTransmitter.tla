-------------------------- MODULE FrameTransmitter --------------------------
(***************************************************************************)
(* The sender's FrameTransmitter: client threads hand encoded frames to    *)
(* one worker thread through a bounded queue guarded by a mutex and two    *)
(* condition variables, `ready` (the worker waits on it) and `space`       *)
(* (callers of enqueue wait on it).  The worker sends for every frame one  *)
(* RTCP sender report and then its RTP packets, returns the frame's bytes  *)
(* to the CPB account and publishes statistics.  Any exception of the      *)
(* worker is kept and rethrown to the callers.                             *)
(*                                                                         *)
(* One action is one critical section, or one step of the worker outside   *)
(* the lock.  A thread inside wait() has program counter "waiting"; a      *)
(* notification moves it to the point where it takes the lock again and    *)
(* evaluates its predicate again, and so does a spurious wake-up.  Time    *)
(* is not modelled here: see FramePacing.                                  *)
(***************************************************************************)
EXTENDS Naturals, Sequences, FiniteSets

CONSTANTS
    Clients,          \* threads that call enqueue, close and stats
    Frames,           \* frames, each handed over at most once
    NoFrame,          \* no frame
    Packets,          \* RTP packets of each frame; 0: the encoder omitted it
    Bytes,            \* sum of the packet sizes of each frame
    MaxQueuedFrames   \* settings.maximum_queued_frames

ASSUME ConstantsAssumption ==
    /\ IsFiniteSet(Clients)
    /\ NoFrame \notin Frames
    /\ Packets \in [Frames -> Nat]
    /\ Bytes \in [Frames -> Nat]
    /\ MaxQueuedFrames \in Nat \ {0}

VARIABLES
    \* State::..., guarded by the mutex
    queue, queuedBytes, peak, stopping, closed, error, stats,
    \* the worker thread
    wpc, current, sent, counts,
    \* the client threads
    pc, holding, outcome,
    \* history: the order of acceptance and of completion, the running sum of
    \* accepted bytes, the frames already offered, the datagrams sent
    accepted, finished, ledger, offered, wire

shared  == <<queue, queuedBytes, peak, stopping, closed, error, stats>>
worker  == <<wpc, current, sent, counts>>
clients == <<pc, holding, outcome>>
history == <<accepted, finished, ledger, offered, wire>>
vars    == <<shared, worker, clients, history>>

WorkerPcs == {"starting", "dequeue", "waiting", "prepare", "report", "packets",
              "publish", "final", "pcap", "exited"}
ClientPcs == {"idle", "waiting", "woken", "joining"}
Outcomes  == {"none", "returned", "threw"}

Larger(a, b) == IF a > b THEN a ELSE b

Init ==
    /\ queue = <<>>
    /\ queuedBytes = 0
    /\ peak = [bytes |-> 0, frames |-> 0]
    /\ stopping = FALSE
    /\ closed = FALSE
    /\ error = FALSE
    /\ stats = [cpb |-> 0, peakCpb |-> 0, queued |-> 0, peakQueued |-> 0,
                frames |-> 0, packets |-> 0, reports |-> 0]
    /\ wpc = "starting"
    /\ current = NoFrame
    /\ sent = 0
    /\ counts = [frames |-> 0, packets |-> 0, reports |-> 0]
    /\ pc = [c \in Clients |-> "idle"]
    /\ holding = [c \in Clients |-> NoFrame]
    /\ outcome = [c \in Clients |-> "none"]
    /\ accepted = <<>>
    /\ finished = <<>>
    /\ ledger = <<>>
    /\ offered = {}
    /\ wire = <<>>

-----------------------------------------------------------------------------
(* Condition variables *)

\* Faulty: the notification is forgotten.
NotifyReady_Forgotten == wpc' = wpc

\* ready.notify_one / notify_all: the worker is the only thread waiting on it.
NotifyReady == wpc' = IF wpc = "waiting" THEN "dequeue" ELSE wpc

\* Faulty: no caller is woken when a slot is freed.
NotifyOneSpace_Forgotten == UNCHANGED pc

\* space.notify_one: some waiter, if there is one, is woken.
NotifyOneSpace ==
    \/ \E c \in Clients : pc[c] = "waiting" /\ pc' = [pc EXCEPT ![c] = "woken"]
    \/ (\A c \in Clients : pc[c] # "waiting") /\ UNCHANGED pc

Woken(p) == IF p = "waiting" THEN "woken" ELSE p

\* Faulty: notify_one where every caller has to be woken.
NotifyAllSpace_One == NotifyOneSpace

\* space.notify_all
NotifyAllSpace == pc' = [c \in Clients |-> Woken(pc[c])]

-----------------------------------------------------------------------------
(* enqueue *)

\* Faulty: off by one.
HasSpace_OffByOne == Len(queue) <= MaxQueuedFrames

HasSpace == Len(queue) < MaxQueuedFrames

\* The predicate of space.wait.
MayProceed == stopping \/ error \/ HasSpace

\* The sum of the bytes of the first n accepted frames.
Ledger(n) == IF n = 0 THEN 0 ELSE ledger[n]

\* The part of the statistics that enqueue publishes.
PublishOccupancy ==
    stats' = [stats EXCEPT !.cpb = queuedBytes', !.peakCpb = peak'.bytes,
                           !.queued = Len(queue'), !.peakQueued = peak'.frames]

\* What enqueue does once its predicate holds: rethrow the worker's error,
\* refuse when stopping, otherwise account for the frame and append it.
Admit(c, f) ==
    /\ MayProceed
    /\ holding' = [holding EXCEPT ![c] = NoFrame]
    /\ \/ /\ error \/ stopping
          /\ pc' = [pc EXCEPT ![c] = "idle"]
          /\ outcome' = [outcome EXCEPT ![c] = "threw"]
          /\ UNCHANGED <<shared, wpc, accepted, ledger>>
       \/ /\ ~error /\ ~stopping
          /\ queuedBytes' = queuedBytes + Bytes[f]
          /\ queue' = Append(queue, f)
          /\ peak' = [bytes |-> Larger(peak.bytes, queuedBytes'),
                      frames |-> Larger(peak.frames, Len(queue'))]
          /\ PublishOccupancy
          /\ NotifyReady
          /\ pc' = [pc EXCEPT ![c] = "idle"]
          /\ outcome' = [outcome EXCEPT ![c] = "returned"]
          /\ accepted' = Append(accepted, f)
          /\ ledger' = Append(ledger, Ledger(Len(accepted)) + Bytes[f])
          /\ UNCHANGED <<stopping, closed, error>>
    /\ UNCHANGED <<current, sent, counts, finished, wire>>

\* The predicate does not hold: the caller releases the lock and waits.
Block(c, f) ==
    /\ ~MayProceed
    /\ pc' = [pc EXCEPT ![c] = "waiting"]
    /\ holding' = [holding EXCEPT ![c] = f]
    /\ outcome' = [outcome EXCEPT ![c] = "none"]
    /\ UNCHANGED <<shared, worker, accepted, finished, ledger, wire>>

Enqueue(c) ==
    /\ pc[c] = "idle"
    /\ \E f \in Frames \ offered :
          /\ offered' = offered \cup {f}
          /\ Admit(c, f) \/ Block(c, f)

\* A woken caller holds the lock again and evaluates the predicate again.
Resume(c) ==
    /\ pc[c] = "woken"
    /\ Admit(c, holding[c]) \/ Block(c, holding[c])
    /\ UNCHANGED offered

-----------------------------------------------------------------------------
(* close (also the destructor, which swallows what it throws) and stats *)

Returns(c, threw) ==
    /\ pc' = [pc EXCEPT ![c] = "idle"]
    /\ outcome' = [outcome EXCEPT ![c] = IF threw THEN "threw" ELSE "returned"]

\* The call that closes: it wakes every thread and goes on to join the worker.
CloseFirst(c) ==
    /\ pc[c] = "idle"
    /\ ~closed
    /\ stopping' = TRUE
    /\ closed' = TRUE
    /\ NotifyReady
    /\ pc' = [d \in Clients |-> IF d = c THEN "joining" ELSE Woken(pc[d])]
    /\ outcome' = [outcome EXCEPT ![c] = "none"]
    /\ UNCHANGED <<queue, queuedBytes, peak, error, stats, current, sent, counts,
                   holding, history>>

\* A later call returns at once, whether or not the worker has been joined.
CloseAgain(c) ==
    /\ pc[c] = "idle"
    /\ closed
    /\ Returns(c, error)
    /\ UNCHANGED <<shared, worker, holding, history>>

\* Faulty: the worker's error is not rethrown.
CloseJoined_Silent(c) ==
    /\ pc[c] = "joining"
    /\ wpc = "exited"
    /\ Returns(c, FALSE)
    /\ UNCHANGED <<shared, worker, holding, history>>

CloseJoined(c) ==
    /\ pc[c] = "joining"
    /\ wpc = "exited"
    /\ Returns(c, error)
    /\ UNCHANGED <<shared, worker, holding, history>>

ReadStats(c) ==
    /\ pc[c] = "idle"
    /\ Returns(c, error)
    /\ UNCHANGED <<shared, worker, holding, history>>

-----------------------------------------------------------------------------
(* The worker thread *)

\* Sockets, timer and capture file are open.
WorkerStart ==
    /\ wpc = "starting"
    /\ wpc' = "dequeue"
    /\ UNCHANGED <<shared, current, sent, counts, clients, history>>

WorkerWait ==
    /\ wpc = "dequeue"
    /\ queue = <<>> /\ ~stopping
    /\ wpc' = "waiting"
    /\ UNCHANGED <<shared, current, sent, counts, clients, history>>

Front == Head(queue)

WorkerPop ==
    /\ wpc = "dequeue"
    /\ queue # <<>>
    /\ current' = Front
    /\ queue' = Tail(queue)
    /\ sent' = 0
    /\ stats' = [stats EXCEPT !.queued = Len(queue')]
    /\ NotifyOneSpace
    /\ wpc' = "prepare"
    /\ UNCHANGED <<queuedBytes, peak, stopping, closed, error, counts, holding, outcome,
                   history>>

\* Faulty: a stop does not wait for the queue to drain.
WorkerBreak_Early ==
    /\ wpc = "dequeue"
    /\ stopping
    /\ wpc' = "final"
    /\ UNCHANGED <<shared, current, sent, counts, clients, history>>

WorkerBreak ==
    /\ wpc = "dequeue"
    /\ queue = <<>> /\ stopping
    /\ wpc' = "final"
    /\ UNCHANGED <<shared, current, sent, counts, clients, history>>

\* Faulty: the report counts the packets of its own frame.
SendReport_Ahead ==
    /\ wpc = "prepare"
    /\ wire' = Append(wire, [kind |-> "sr", frame |-> current,
                             count |-> counts.packets + Packets[current]])
    /\ wpc' = "report"
    /\ UNCHANGED <<shared, current, sent, counts, clients, accepted, finished, ledger, offered>>

\* Faulty: no report for a frame without packets.
SendReport_SkipsOmitted ==
    /\ wpc = "prepare"
    /\ wire' = IF Packets[current] = 0 THEN wire
               ELSE Append(wire, [kind |-> "sr", frame |-> current, count |-> counts.packets])
    /\ wpc' = "report"
    /\ UNCHANGED <<shared, current, sent, counts, clients, accepted, finished, ledger, offered>>

\* The report states the RTP packets sent before it.
SendReport ==
    /\ wpc = "prepare"
    /\ wire' = Append(wire, [kind |-> "sr", frame |-> current, count |-> counts.packets])
    /\ wpc' = "report"
    /\ UNCHANGED <<shared, current, sent, counts, clients, accepted, finished, ledger, offered>>

CountReport ==
    /\ wpc = "report"
    /\ counts' = [counts EXCEPT !.reports = @ + 1]
    /\ wpc' = "packets"
    /\ UNCHANGED <<shared, current, sent, clients, history>>

SendPacket ==
    /\ wpc = "packets"
    /\ sent < Packets[current]
    /\ sent' = sent + 1
    /\ wire' = Append(wire, [kind |-> "rtp", frame |-> current, count |-> sent'])
    /\ counts' = [counts EXCEPT !.packets = @ + 1]
    /\ UNCHANGED <<shared, wpc, current, clients, accepted, finished, ledger, offered>>

\* Faulty: packets are taken from the account instead of bytes.
Released_Packets(f) == IF Packets[f] >= queuedBytes THEN 0 ELSE queuedBytes - Packets[f]

\* The account after the bytes of frame f have left it.
Released(f) == IF Bytes[f] >= queuedBytes THEN 0 ELSE queuedBytes - Bytes[f]

\* The first of the two critical sections that end a frame.
ReleaseBytes ==
    /\ wpc = "packets"
    /\ sent = Packets[current]
    /\ counts' = [counts EXCEPT !.frames = @ + 1]
    /\ queuedBytes' = Released(current)
    /\ finished' = Append(finished, current)
    /\ current' = NoFrame
    /\ wpc' = "publish"
    /\ UNCHANGED <<queue, peak, stopping, closed, error, stats, sent, clients,
                   accepted, ledger, offered, wire>>

\* Faulty: the occupancy is not published.
Publish_NoOccupancy ==
    stats' = [stats EXCEPT !.peakCpb = peak.bytes,
                           !.queued = Len(queue), !.peakQueued = peak.frames,
                           !.frames = counts.frames, !.packets = counts.packets,
                           !.reports = counts.reports]

\* update_stats
Publish ==
    stats' = [cpb |-> queuedBytes, peakCpb |-> peak.bytes,
              queued |-> Len(queue), peakQueued |-> peak.frames,
              frames |-> counts.frames, packets |-> counts.packets,
              reports |-> counts.reports]

PublishFrame ==
    /\ wpc = "publish"
    /\ Publish
    /\ wpc' = "dequeue"
    /\ UNCHANGED <<queue, queuedBytes, peak, stopping, closed, error, current, sent, counts,
                   clients, history>>

PublishLast ==
    /\ wpc = "final"
    /\ Publish
    /\ wpc' = "pcap"
    /\ UNCHANGED <<queue, queuedBytes, peak, stopping, closed, error, current, sent, counts,
                   clients, history>>

\* The capture file, if any, has been closed without an error.
WorkerExit ==
    /\ wpc = "pcap"
    /\ wpc' = "exited"
    /\ UNCHANGED <<shared, current, sent, counts, clients, history>>

\* Where the worker's body may throw: opening, frame timing, a short packet,
\* building the report, either socket, the capture file.
MayThrow == {"starting", "prepare", "report", "packets", "pcap"}

WorkerFail ==
    /\ wpc \in MayThrow
    /\ error' = TRUE
    /\ stopping' = TRUE
    /\ NotifyAllSpace
    /\ wpc' = "exited"
    /\ UNCHANGED <<queue, queuedBytes, peak, closed, stats, current, sent, counts,
                   holding, outcome, history>>

-----------------------------------------------------------------------------
(* A wait of a condition variable may also end by itself. *)
SpuriousWake ==
    \/ /\ wpc = "waiting"
       /\ wpc' = "dequeue"
       /\ UNCHANGED <<shared, current, sent, counts, clients, history>>
    \/ /\ \E c \in Clients : pc[c] = "waiting" /\ pc' = [pc EXCEPT ![c] = "woken"]
       /\ UNCHANGED <<shared, worker, holding, outcome, history>>

WorkerStep ==
    \/ WorkerStart \/ WorkerWait \/ WorkerPop \/ WorkerBreak
    \/ SendReport \/ CountReport \/ SendPacket \/ ReleaseBytes
    \/ PublishFrame \/ PublishLast \/ WorkerExit

ClientCall(c) == Enqueue(c) \/ CloseFirst(c) \/ CloseAgain(c) \/ ReadStats(c)

Next ==
    \/ WorkerStep
    \/ WorkerFail
    \/ SpuriousWake
    \/ \E c \in Clients : ClientCall(c) \/ Resume(c) \/ CloseJoined(c)

Spec == Init /\ [][Next]_vars

\* The operating system runs the worker and the callers that are inside a call
\* and not waiting.  Nothing obliges a caller to call, the worker to fail or a
\* wait to end spuriously.
FairSpec ==
    /\ Spec
    /\ WF_vars(WorkerStep)
    /\ \A c \in Clients : WF_vars(Resume(c)) /\ WF_vars(CloseJoined(c))

-----------------------------------------------------------------------------
(* Type invariant *)

TypeOK ==
    /\ queue \in Seq(Frames) /\ Len(queue) <= MaxQueuedFrames
    /\ queuedBytes \in Nat
    /\ peak \in [bytes : Nat, frames : Nat]
    /\ stopping \in BOOLEAN /\ closed \in BOOLEAN /\ error \in BOOLEAN
    /\ stats \in [cpb : Nat, peakCpb : Nat, queued : Nat, peakQueued : Nat,
                  frames : Nat, packets : Nat, reports : Nat]
    /\ wpc \in WorkerPcs
    /\ current \in Frames \cup {NoFrame}
    /\ sent \in Nat
    /\ counts \in [frames : Nat, packets : Nat, reports : Nat]
    /\ pc \in [Clients -> ClientPcs]
    /\ holding \in [Clients -> Frames \cup {NoFrame}]
    /\ outcome \in [Clients -> Outcomes]
    /\ accepted \in Seq(Frames)
    /\ finished \in Seq(Frames)
    /\ ledger \in Seq(Nat)
    /\ offered \in SUBSET Frames
    /\ wire \in Seq([kind : {"sr", "rtp"}, frame : Frames, count : Nat])

-----------------------------------------------------------------------------
(* Safety *)

InFlight == IF current = NoFrame THEN <<>> ELSE <<current>>

\* The bytes that the decoder-side buffer account (CPB) holds are exactly those
\* of the frames accepted and not completely sent: the queued ones and the one
\* in the worker's hands.  The saturating subtraction of the worker never hides
\* an error, although enqueue and the worker update the account independently.
CpbAccounting == queuedBytes = Ledger(Len(accepted)) - Ledger(Len(finished))

\* The published statistics never report less than is held, agree with the
\* account except between the two critical sections that end a frame, know the
\* depth of the queue exactly, and keep peaks that cover every value.
PublishedOccupancy ==
    /\ stats.cpb >= queuedBytes
    /\ wpc # "publish" => stats.cpb = queuedBytes
    /\ stats.queued = Len(queue)
    /\ stats.peakCpb = peak.bytes /\ peak.bytes >= stats.cpb
    /\ stats.peakQueued = peak.frames /\ peak.frames >= stats.queued

\* No wake-up is lost: the worker never sleeps while there is a frame or a
\* request to stop, no caller sleeps once the transmitter stops, and while
\* callers sleep every free slot of the queue has a woken caller coming for it.
NoLostWakeup ==
    /\ wpc = "waiting" => queue = <<>> /\ ~stopping
    /\ (\E c \in Clients : pc[c] = "waiting") =>
          /\ ~stopping /\ ~error
          /\ MaxQueuedFrames - Len(queue) <= Cardinality({c \in Clients : pc[c] = "woken"})

RtpBefore(i) == {j \in 1 .. i - 1 : wire[j].kind = "rtp"}

\* A sender report states exactly the RTP packets that precede it on the wire.
ReportCountsMatchWire ==
    \A i \in DOMAIN wire :
       wire[i].kind = "sr" => wire[i].count = Cardinality(RtpBefore(i))

\* On the wire a frame is its report, then its packets in order, with nothing
\* of another frame in between; a frame counted as sent, an omitted one
\* included, has exactly one report and all of its packets.
ReportLeadsItsFrame ==
    /\ \A i \in DOMAIN wire :
          wire[i].kind = "rtp" =>
             /\ i > 1
             /\ wire[i - 1].frame = wire[i].frame
             /\ \/ wire[i].count = 1 /\ wire[i - 1].kind = "sr"
                \/ wire[i - 1].kind = "rtp" /\ wire[i].count = wire[i - 1].count + 1
    /\ \A k \in DOMAIN finished :
          LET Of(kind) == {i \in DOMAIN wire : wire[i].kind = kind /\ wire[i].frame = finished[k]}
          IN  Cardinality(Of("sr")) = 1 /\ Cardinality(Of("rtp")) = Packets[finished[k]]

-----------------------------------------------------------------------------
(* Action properties *)

\* A close that joins the worker and returns normally has seen every accepted
\* frame completely sent.  (A second close, called while the first one is still
\* joining, returns at once and promises nothing.)
CloseMeansDrained ==
    [][\A c \in Clients :
          (pc[c] = "joining" /\ outcome'[c] = "returned") => finished = accepted]_vars

\* After the worker has failed no call reports success.
FailureIsSurfaced ==
    [][error => \A c \in Clients : outcome'[c] = "returned" => outcome[c] = "returned"]_vars

-----------------------------------------------------------------------------
(* Liveness *)

\* A caller blocked in enqueue is eventually let in or refused, and a close
\* eventually returns: the worker drains the queue or fails.
CallsEnd == \A c \in Clients : pc[c] \in {"waiting", "joining"} ~> pc[c] = "idle"

-----------------------------------------------------------------------------
(* Refinement *)

HandoffStatus ==
    IF error THEN "failed"
    ELSE IF wpc = "exited" THEN "drained"
    ELSE IF stopping THEN "closing"
    ELSE "open"

Handoff == INSTANCE FrameHandoff WITH
    Capacity <- MaxQueuedFrames + 1,
    delivered <- finished,
    status <- HandoffStatus

\* The transmitter implements the bounded hand-off: what callers see is an
\* ordered, bounded queue that hands over each accepted frame once.
ImplementsHandoff == Handoff!Spec

\* Its progress included: an accepted frame is eventually delivered and a close
\* eventually takes effect, unless the transmitter fails.
ImplementsFairHandoff == Handoff!FairSpec
=============================================================================
