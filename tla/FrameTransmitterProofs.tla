----------------------- MODULE FrameTransmitterProofs -----------------------
(***************************************************************************)
(* Proofs about FrameTransmitter, for any number of callers and frames,    *)
(* any packets and bytes per frame and any capacity: its invariants, that  *)
(* it implements the bounded hand-off of FrameHandoff (every step of it is *)
(* a step of the abstract specification or leaves the abstract state       *)
(* alone), and, since no frame is in two places, what is on the wire.      *)
(***************************************************************************)
EXTENDS FrameTransmitter, SequenceTheorems, FiniteSetTheorems, TLAPS

Stats == [cpb : Nat, peakCpb : Nat, queued : Nat, peakQueued : Nat,
          frames : Nat, packets : Nat, reports : Nat]
Datagrams == [kind : {"sr", "rtp"}, frame : Frames, count : Nat]

-----------------------------------------------------------------------------
(* Type correctness.  It is inductive only with what the program counters  *)
(* say about the frames in the hands of the threads.                       *)

InHand ==
    /\ wpc \in {"prepare", "report", "packets"} => current \in Frames
    /\ wpc \notin {"prepare", "report", "packets", "exited"} => current = NoFrame
    /\ \A c \in Clients : pc[c] \in {"waiting", "woken"} => holding[c] \in Frames
    /\ Len(ledger) = Len(accepted)

TypeInv == TypeOK /\ InHand

\* A caller whose enqueue is refused leaves the state well typed.
LEMMA RefusedTypeInv ==
  ASSUME TypeInv, NEW c \in Clients, offered' \in SUBSET Frames,
         holding' = [holding EXCEPT ![c] = NoFrame],
         pc' = [pc EXCEPT ![c] = "idle"],
         outcome' = [outcome EXCEPT ![c] = "threw"],
         UNCHANGED <<shared, worker, accepted, finished, ledger, wire>>
  PROVE  TypeInv'
<1>1. /\ pc' \in [Clients -> ClientPcs]
      /\ holding' \in [Clients -> Frames \cup {NoFrame}]
      /\ outcome' \in [Clients -> Outcomes]
      /\ \A d \in Clients : pc'[d] \in {"waiting", "woken"} => holding'[d] \in Frames
  BY DEF TypeInv, TypeOK, InHand, ClientPcs, Outcomes
<1>. QED  BY <1>1 DEF TypeInv, TypeOK, InHand, shared, worker

\* An accepted frame leaves the queue within its limit and the state well typed.
LEMMA AdmitTypeInv ==
  ASSUME TypeInv, NEW c \in Clients, NEW f \in Frames, Admit(c, f),
         offered' \in SUBSET Frames
  PROVE  TypeInv'
<1>1. CASE error \/ stopping
  <2>1. /\ holding' = [holding EXCEPT ![c] = NoFrame]
        /\ pc' = [pc EXCEPT ![c] = "idle"]
        /\ outcome' = [outcome EXCEPT ![c] = "threw"]
        /\ UNCHANGED <<shared, worker, accepted, finished, ledger, wire>>
    BY <1>1 DEF Admit, worker
  <2>. QED  BY <2>1, RefusedTypeInv
<1>2. CASE ~error /\ ~stopping
  <2>1. Len(queue) < MaxQueuedFrames
    BY <1>2 DEF Admit, MayProceed, HasSpace
  <2>0. queue' = Append(queue, f) /\ queuedBytes' = queuedBytes + Bytes[f]
    BY <1>2 DEF Admit
  <2>2. /\ queue \in Seq(Frames)
        /\ queue' \in Seq(Frames) /\ Len(queue') = Len(queue) + 1
    BY <2>0 DEF TypeInv, TypeOK
  <2>3. Len(queue) \in Nat /\ Len(queue') \in Nat /\ Len(queue') <= MaxQueuedFrames
    BY <2>1, <2>2, ConstantsAssumption
  <2>4. Bytes[f] \in Nat /\ queuedBytes' \in Nat
    <3>1. Bytes[f] \in Nat
      BY ConstantsAssumption DEF ConstantsAssumption
    <3>2. queuedBytes \in Nat
      BY DEF TypeInv, TypeOK
    <3>. QED  BY <2>0, <3>1, <3>2
  <2>5. /\ peak'.bytes = Larger(peak.bytes, queuedBytes')
        /\ peak'.frames = Larger(peak.frames, Len(queue'))
        /\ peak' = [bytes |-> peak'.bytes, frames |-> peak'.frames]
    BY <1>2 DEF Admit
  <2>6. peak.bytes \in Nat /\ peak.frames \in Nat
    BY DEF TypeInv, TypeOK
  <2>7. peak'.bytes \in Nat /\ peak'.frames \in Nat /\ peak' \in [bytes : Nat, frames : Nat]
    BY <2>3, <2>4, <2>5, <2>6 DEF Larger
  <2>8. stats' \in Stats
    <3>1. stats \in Stats
      BY DEF TypeInv, TypeOK, Stats
    <3>2. stats' = [stats EXCEPT !.cpb = queuedBytes', !.peakCpb = peak'.bytes,
                                 !.queued = Len(queue'), !.peakQueued = peak'.frames]
      BY <1>2 DEF Admit, PublishOccupancy
    <3>. QED  BY <2>3, <2>4, <2>7, <3>1, <3>2 DEF Stats
  <2>9. wpc' = wpc \/ (wpc = "waiting" /\ wpc' = "dequeue")
    BY <1>2 DEF Admit, NotifyReady
  <2>10. accepted' \in Seq(Frames) /\ ledger' \in Seq(Nat) /\ Len(ledger') = Len(accepted')
    <3>1. Len(accepted) \in Nat /\ Len(ledger) = Len(accepted) /\ ledger \in Seq(Nat)
      BY DEF TypeInv, TypeOK, InHand
    <3>2. Ledger(Len(accepted)) \in Nat
      BY <3>1, ElementOfSeq DEF Ledger
    <3>3. accepted' = Append(accepted, f) /\ accepted \in Seq(Frames)
      BY <1>2 DEF Admit, TypeInv, TypeOK
    <3>4. ledger' = Append(ledger, Ledger(Len(accepted)) + Bytes[f])
      BY <1>2 DEF Admit
    <3>. QED  BY <2>4, <3>1, <3>2, <3>3, <3>4
  <2>11. /\ pc' \in [Clients -> ClientPcs]
         /\ holding' \in [Clients -> Frames \cup {NoFrame}]
         /\ outcome' \in [Clients -> Outcomes]
         /\ \A d \in Clients : pc'[d] \in {"waiting", "woken"} => holding'[d] \in Frames
    BY <1>2, ZenonT(60) DEF Admit, TypeInv, TypeOK, InHand, ClientPcs, Outcomes
  <2>12. UNCHANGED <<stopping, closed, error, current, sent, counts, finished, wire>>
    BY <1>2 DEF Admit
  <2>13. InHand'
    BY <2>9, <2>10, <2>11, <2>12 DEF TypeInv, InHand
  <2>14. TypeOK'
    BY <2>2, <2>3, <2>4, <2>7, <2>8, <2>9, <2>10, <2>11, <2>12
    DEF TypeInv, TypeOK, WorkerPcs, Stats
  <2>. QED  BY <2>13, <2>14 DEF TypeInv
<1>. QED  BY <1>1, <1>2

\* A caller that calls enqueue, or evaluates the wait's predicate again.
LEMMA EnqueueTypeInv ==
  ASSUME TypeInv, NEW c \in Clients, Enqueue(c) \/ Resume(c)
  PROVE  TypeInv'
<1>1. PICK f \in Frames : (Admit(c, f) \/ Block(c, f)) /\ offered' \in SUBSET Frames
  <2>1. CASE Enqueue(c)
    BY <2>1 DEF Enqueue, TypeInv, TypeOK
  <2>2. CASE Resume(c)
    <3>1. pc[c] = "woken" /\ (Admit(c, holding[c]) \/ Block(c, holding[c]))
          /\ UNCHANGED offered
      BY <2>2 DEF Resume
    <3>2. holding[c] \in Frames /\ offered \in SUBSET Frames
      BY <3>1 DEF TypeInv, TypeOK, InHand
    <3>. QED  BY <3>1, <3>2
  <2>. QED  BY <2>1, <2>2
<1>2. CASE Admit(c, f)
  BY <1>1, <1>2, AdmitTypeInv
<1>3. CASE Block(c, f)
  <2>1. /\ pc' = [pc EXCEPT ![c] = "waiting"]
        /\ holding' = [holding EXCEPT ![c] = f]
        /\ outcome' = [outcome EXCEPT ![c] = "none"]
        /\ UNCHANGED <<shared, worker, accepted, finished, ledger, wire>>
    BY <1>3 DEF Block
  <2>2. /\ pc' \in [Clients -> ClientPcs]
        /\ holding' \in [Clients -> Frames \cup {NoFrame}]
        /\ outcome' \in [Clients -> Outcomes]
        /\ \A d \in Clients : pc'[d] \in {"waiting", "woken"} => holding'[d] \in Frames
    BY <2>1 DEF TypeInv, TypeOK, InHand, ClientPcs, Outcomes
  <2>. QED  BY <1>1, <2>1, <2>2 DEF TypeInv, TypeOK, InHand, shared, worker
<1>. QED  BY <1>1, <1>2, <1>3

\* A notification or a return leaves the callers well typed.
LEMMA WokenCallers ==
  ASSUME TypeInv, UNCHANGED holding,
         \/ NotifyOneSpace \/ NotifyAllSpace \/ UNCHANGED pc
         \/ \E c \in Clients : pc' = [pc EXCEPT ![c] = "idle"]
         \/ \E c \in Clients : pc' = [d \in Clients |-> IF d = c THEN "joining" ELSE Woken(pc[d])]
         \/ \E c \in Clients : pc[c] = "waiting" /\ pc' = [pc EXCEPT ![c] = "woken"]
  PROVE  /\ pc' \in [Clients -> ClientPcs]
         /\ holding' \in [Clients -> Frames \cup {NoFrame}]
         /\ \A d \in Clients : pc'[d] \in {"waiting", "woken"} => holding'[d] \in Frames
<1>1. /\ pc \in [Clients -> ClientPcs]
      /\ holding \in [Clients -> Frames \cup {NoFrame}]
      /\ \A d \in Clients : pc[d] \in {"waiting", "woken"} => holding[d] \in Frames
  BY DEF TypeInv, TypeOK, InHand
<1>. QED  BY <1>1 DEF NotifyOneSpace, NotifyAllSpace, Woken, ClientPcs

LEMMA CallTypeInv ==
  ASSUME TypeInv, NEW c \in Clients,
         CloseFirst(c) \/ CloseAgain(c) \/ ReadStats(c) \/ CloseJoined(c)
  PROVE  TypeInv'
<1>1. CASE CloseFirst(c)
  <2>1. UNCHANGED holding /\ pc' = [d \in Clients |-> IF d = c THEN "joining" ELSE Woken(pc[d])]
    BY <1>1 DEF CloseFirst
  <2>2. wpc' = wpc \/ (wpc = "waiting" /\ wpc' = "dequeue")
    BY <1>1 DEF CloseFirst, NotifyReady
  <2>3. outcome' \in [Clients -> Outcomes]
    BY <1>1 DEF CloseFirst, TypeInv, TypeOK, Outcomes
  <2>4. /\ stopping' = TRUE /\ closed' = TRUE
        /\ UNCHANGED <<queue, queuedBytes, peak, error, stats, current, sent, counts, history>>
    BY <1>1 DEF CloseFirst
  <2>. QED  BY <2>1, <2>2, <2>3, <2>4, WokenCallers
            DEF TypeInv, TypeOK, InHand, WorkerPcs, history
<1>2. CASE CloseAgain(c) \/ ReadStats(c) \/ CloseJoined(c)
  <2>1. /\ UNCHANGED <<shared, worker, holding, history>>
        /\ pc' = [pc EXCEPT ![c] = "idle"]
        /\ \E o \in Outcomes : outcome' = [outcome EXCEPT ![c] = o]
    BY <1>2 DEF CloseAgain, ReadStats, CloseJoined, Returns, Outcomes
  <2>2. outcome' \in [Clients -> Outcomes]
    BY <2>1 DEF TypeInv, TypeOK
  <2>. QED  BY <2>1, <2>2, WokenCallers DEF TypeInv, TypeOK, InHand, shared, worker, history
<1>. QED  BY <1>1, <1>2

LEMMA WorkerTypeInv ==
  ASSUME TypeInv, WorkerStep \/ WorkerFail \/ SpuriousWake
  PROVE  TypeInv'
<1>0. Packets \in [Frames -> Nat] /\ Bytes \in [Frames -> Nat]
  BY ConstantsAssumption DEF ConstantsAssumption
<1>1. CASE WorkerStart \/ WorkerWait \/ WorkerBreak \/ WorkerExit
  BY <1>1 DEF WorkerStart, WorkerWait, WorkerBreak, WorkerExit, TypeInv, TypeOK, InHand,
              WorkerPcs, shared, clients, history
<1>2. CASE WorkerPop
  <2>1. queue \in Seq(Frames) /\ queue # <<>> /\ Len(queue) <= MaxQueuedFrames
    BY <1>2 DEF WorkerPop, TypeInv, TypeOK
  <2>2. current' = Head(queue) /\ queue' = Tail(queue)
    BY <1>2 DEF WorkerPop, Front
  <2>3. /\ current' \in Frames /\ queue' \in Seq(Frames)
        /\ Len(queue') \in Nat /\ Len(queue') <= MaxQueuedFrames
    BY <2>1, <2>2, HeadTailProperties, LenProperties, ConstantsAssumption
  <2>4. stats' \in Stats
    <3>1. stats \in Stats /\ stats' = [stats EXCEPT !.queued = Len(queue')]
      BY <1>2 DEF WorkerPop, TypeInv, TypeOK, Stats
    <3>. QED  BY <2>3, <3>1 DEF Stats
  <2>5. /\ UNCHANGED <<queuedBytes, peak, stopping, closed, error, counts, holding, outcome,
                       history>>
        /\ sent' = 0 /\ wpc' = "prepare" /\ NotifyOneSpace
    BY <1>2 DEF WorkerPop
  <2>. QED  BY <2>3, <2>4, <2>5, WokenCallers
            DEF TypeInv, TypeOK, InHand, WorkerPcs, Stats, history
<1>3. CASE SendReport \/ SendPacket
  <2>0. /\ current \in Frames /\ sent \in Nat /\ counts.packets \in Nat
        /\ counts \in [frames : Nat, packets : Nat, reports : Nat]
    BY <1>3 DEF SendReport, SendPacket, TypeInv, TypeOK, InHand
  <2>1. \E d \in Datagrams : wire' = Append(wire, d)
    <3>1. \/ wire' = Append(wire, [kind |-> "sr", frame |-> current, count |-> counts.packets])
          \/ wire' = Append(wire, [kind |-> "rtp", frame |-> current, count |-> sent + 1])
      BY <1>3 DEF SendReport, SendPacket
    <3>2. /\ [kind |-> "sr", frame |-> current, count |-> counts.packets] \in Datagrams
          /\ [kind |-> "rtp", frame |-> current, count |-> sent + 1] \in Datagrams
      BY <2>0 DEF Datagrams
    <3>. QED  BY <3>1, <3>2
  <2>2. wire' \in Seq(Datagrams)
    BY <2>1 DEF TypeInv, TypeOK, Datagrams
  <2>3. wpc' = wpc \/ (wpc = "prepare" /\ wpc' = "report")
    BY <1>3 DEF SendReport, SendPacket
  <2>4. sent' \in Nat /\ counts' \in [frames : Nat, packets : Nat, reports : Nat]
    <3>1. \/ sent' = sent /\ counts' = counts
          \/ sent' = sent + 1 /\ counts' = [counts EXCEPT !.packets = @ + 1]
      BY <1>3 DEF SendReport, SendPacket
    <3>. QED  BY <2>0, <3>1
  <2>5. UNCHANGED <<shared, current, clients, accepted, finished, ledger, offered>>
    BY <1>3 DEF SendReport, SendPacket
  <2>. QED  BY <2>2, <2>3, <2>4, <2>5
            DEF TypeInv, TypeOK, InHand, WorkerPcs, Datagrams, shared, clients
<1>4. CASE CountReport
  <2>1. counts' \in [frames : Nat, packets : Nat, reports : Nat]
    <3>1. counts \in [frames : Nat, packets : Nat, reports : Nat]
      BY DEF TypeInv, TypeOK
    <3>2. counts' = [counts EXCEPT !.reports = @ + 1]
      BY <1>4 DEF CountReport
    <3>. QED  BY <3>1, <3>2
  <2>2. /\ wpc = "report" /\ wpc' = "packets"
        /\ UNCHANGED <<shared, current, sent, clients, history>>
    BY <1>4 DEF CountReport
  <2>. QED  BY <2>1, <2>2 DEF TypeInv, TypeOK, InHand, WorkerPcs, shared, clients, history
<1>5. CASE ReleaseBytes
  <2>1. current \in Frames /\ queuedBytes \in Nat /\ wpc = "packets"
    BY <1>5 DEF ReleaseBytes, TypeInv, TypeOK, InHand
  <2>2. queuedBytes' \in Nat
    <3>1. Bytes[current] \in Nat /\ queuedBytes' = Released(current)
      BY <1>0, <1>5, <2>1 DEF ReleaseBytes
    <3>. QED  BY <2>1, <3>1 DEF Released
  <2>3. finished' \in Seq(Frames) /\ counts' \in [frames : Nat, packets : Nat, reports : Nat]
    <3>1. finished \in Seq(Frames) /\ counts \in [frames : Nat, packets : Nat, reports : Nat]
      BY DEF TypeInv, TypeOK
    <3>2. finished' = Append(finished, current) /\ counts' = [counts EXCEPT !.frames = @ + 1]
      BY <1>5 DEF ReleaseBytes
    <3>. QED  BY <2>1, <3>1, <3>2
  <2>4. /\ current' = NoFrame /\ wpc' = "publish"
        /\ UNCHANGED <<queue, peak, stopping, closed, error, stats, sent, clients,
                       accepted, ledger, offered, wire>>
    BY <1>5 DEF ReleaseBytes
  <2>. QED  BY <2>2, <2>3, <2>4 DEF TypeInv, TypeOK, InHand, WorkerPcs, clients
<1>6. CASE PublishFrame \/ PublishLast
  <2>1. Publish /\ wpc \in {"publish", "final"} /\ wpc' \in {"dequeue", "pcap"}
        /\ UNCHANGED <<queue, queuedBytes, peak, stopping, closed, error, current, sent,
                       counts, clients, history>>
    BY <1>6 DEF PublishFrame, PublishLast
  <2>2. stats' \in Stats
    BY <2>1, LenProperties DEF Publish, TypeInv, TypeOK, Stats
  <2>. QED  BY <2>1, <2>2 DEF TypeInv, TypeOK, InHand, WorkerPcs, Stats, clients, history
<1>7. CASE WorkerFail
  <2>1. /\ error' = TRUE /\ stopping' = TRUE /\ NotifyAllSpace /\ wpc' = "exited"
        /\ UNCHANGED <<queue, queuedBytes, peak, closed, stats, current, sent, counts,
                       holding, outcome, history>>
    BY <1>7 DEF WorkerFail
  <2>. QED  BY <2>1, WokenCallers DEF TypeInv, TypeOK, InHand, WorkerPcs, history
<1>8. CASE SpuriousWake
  <2>1. CASE wpc = "waiting" /\ wpc' = "dequeue"
             /\ UNCHANGED <<shared, current, sent, counts, clients, history>>
    BY <2>1 DEF TypeInv, TypeOK, InHand, WorkerPcs, shared, clients, history
  <2>2. CASE /\ \E c \in Clients : pc[c] = "waiting" /\ pc' = [pc EXCEPT ![c] = "woken"]
             /\ UNCHANGED <<shared, worker, holding, outcome, history>>
    BY <2>2, WokenCallers DEF TypeInv, TypeOK, InHand, shared, worker, history
  <2>. QED  BY <1>8, <2>1, <2>2 DEF SpuriousWake
<1>. QED  BY <1>1, <1>2, <1>3, <1>4, <1>5, <1>6, <1>7, <1>8 DEF WorkerStep

LEMMA InitTypeInv == Init => TypeInv
<1> SUFFICES ASSUME Init PROVE TypeInv
  OBVIOUS
<1>1. /\ stats \in Stats
      /\ peak \in [bytes : Nat, frames : Nat]
      /\ counts \in [frames : Nat, packets : Nat, reports : Nat]
  BY DEF Init, Stats
<1>2. /\ queue \in Seq(Frames) /\ accepted \in Seq(Frames) /\ finished \in Seq(Frames)
      /\ ledger \in Seq(Nat) /\ wire \in Seq(Datagrams)
      /\ Len(queue) = 0 /\ Len(accepted) = 0 /\ Len(ledger) = 0
  BY EmptySeq DEF Init
<1>3. /\ pc \in [Clients -> ClientPcs]
      /\ holding \in [Clients -> Frames \cup {NoFrame}]
      /\ outcome \in [Clients -> Outcomes]
      /\ \A c \in Clients : pc[c] \notin {"waiting", "woken"}
  BY DEF Init, ClientPcs, Outcomes
<1>4. /\ queuedBytes = 0 /\ stopping = FALSE /\ closed = FALSE /\ error = FALSE
      /\ wpc = "starting" /\ current = NoFrame /\ sent = 0 /\ offered = {}
  BY DEF Init
<1>5. Len(queue) <= MaxQueuedFrames
  BY <1>2, ConstantsAssumption DEF ConstantsAssumption
<1>. QED  BY <1>1, <1>2, <1>3, <1>4, <1>5 DEF TypeInv, TypeOK, InHand, WorkerPcs, Stats, Datagrams

LEMMA StepTypeInv == TypeInv /\ [Next]_vars => TypeInv'
<1> SUFFICES ASSUME TypeInv, [Next]_vars PROVE TypeInv'
  OBVIOUS
<1>1. CASE WorkerStep \/ WorkerFail \/ SpuriousWake
  BY <1>1, WorkerTypeInv
<1>2. ASSUME NEW c \in Clients, ClientCall(c) \/ Resume(c) \/ CloseJoined(c)
      PROVE  TypeInv'
  BY <1>2, EnqueueTypeInv, CallTypeInv DEF ClientCall
<1>3. CASE UNCHANGED vars
  BY <1>3 DEF TypeInv, TypeOK, InHand, vars, shared, worker, clients, history
<1>. QED  BY <1>1, <1>2, <1>3 DEF Next

THEOREM TypeInvariance == Spec => []TypeInv
BY InitTypeInv, StepTypeInv, PTL DEF Spec

\* Every variable keeps its type; in particular the queue never exceeds the
\* configured number of frames (frame_transmitter.cpp, space.wait in enqueue).
THEOREM TypeCorrectness == Spec => []TypeOK
BY TypeInvariance, PTL DEF TypeInv

-----------------------------------------------------------------------------
(* The order of the hand-off.  The accepted frames are the finished ones,  *)
(* then the one in the worker's hands, then the queued ones; positions are *)
(* compared one by one so that no induction over sequences is needed.      *)

Held == IF current = NoFrame THEN 0 ELSE 1

OrderInv ==
    /\ Len(accepted) = Len(finished) + Held + Len(queue)
    /\ \A i \in 1 .. Len(finished) : finished[i] = accepted[i]
    /\ current # NoFrame => accepted[Len(finished) + 1] = current
    /\ \A i \in 1 .. Len(queue) : queue[i] = accepted[Len(finished) + Held + i]

\* What has been accepted is accounted for, and the account never exceeds it.
LedgerInv ==
    /\ \A i \in 1 .. Len(accepted) : ledger[i] = Ledger(i - 1) + Bytes[accepted[i]]
    /\ \A i \in 0 .. Len(accepted) : Ledger(i) <= Ledger(Len(accepted))

\* What a step may do to the frames in transit: accept one, take one from the
\* queue, complete one, or nothing.
AcceptStep(f) ==
    /\ ~stopping /\ ~error /\ Len(queue) < MaxQueuedFrames
    /\ queue' = Append(queue, f)
    /\ queuedBytes' = queuedBytes + Bytes[f]
    /\ accepted' = Append(accepted, f)
    /\ ledger' = Append(ledger, Ledger(Len(accepted)) + Bytes[f])
    /\ wpc' = wpc \/ (wpc = "waiting" /\ wpc' = "dequeue")
    /\ UNCHANGED <<current, finished, stopping, error>>

TakeStep ==
    /\ wpc = "dequeue" /\ queue # <<>>
    /\ current' = Head(queue)
    /\ queue' = Tail(queue)
    /\ wpc' = "prepare"
    /\ UNCHANGED <<queuedBytes, accepted, finished, ledger, stopping, error>>

CompleteStep ==
    /\ wpc = "packets"
    /\ queuedBytes' = Released(current)
    /\ finished' = Append(finished, current)
    /\ current' = NoFrame
    /\ wpc' = "publish"
    /\ UNCHANGED <<queue, accepted, ledger, stopping, error>>

QuietStep == UNCHANGED <<queue, queuedBytes, current, accepted, finished, ledger>>

LEMMA HandoffSteps ==
  ASSUME TypeInv, [Next]_vars
  PROVE  (\E f \in Frames : AcceptStep(f)) \/ TakeStep \/ CompleteStep \/ QuietStep
<1>1. CASE WorkerStep \/ WorkerFail \/ SpuriousWake
  <2>1. CASE WorkerPop
    BY <2>1 DEF WorkerPop, Front, TakeStep, history
  <2>2. CASE ReleaseBytes
    BY <2>2 DEF ReleaseBytes, CompleteStep
  <2>3. CASE WorkerStart \/ WorkerWait \/ WorkerBreak \/ WorkerExit \/ CountReport
    BY <2>3 DEF WorkerStart, WorkerWait, WorkerBreak, WorkerExit, CountReport, QuietStep,
                shared, history
  <2>4. CASE SendReport \/ SendPacket
    BY <2>4 DEF SendReport, SendPacket, QuietStep, shared
  <2>5. CASE PublishFrame \/ PublishLast \/ WorkerFail
    BY <2>5 DEF PublishFrame, PublishLast, WorkerFail, QuietStep, history
  <2>6. CASE SpuriousWake
    BY <2>6 DEF SpuriousWake, QuietStep, shared, worker, history
  <2>. QED  BY <1>1, <2>1, <2>2, <2>3, <2>4, <2>5, <2>6 DEF WorkerStep
<1>2. ASSUME NEW c \in Clients, Enqueue(c) \/ Resume(c)
      PROVE  (\E f \in Frames : AcceptStep(f)) \/ QuietStep
  <2>1. PICK f \in Frames : Admit(c, f) \/ Block(c, f)
    BY <1>2 DEF Enqueue, Resume, TypeInv, InHand
  <2>2. CASE Admit(c, f) /\ (error \/ stopping)
    BY <2>2 DEF Admit, QuietStep, shared
  <2>3. CASE Admit(c, f) /\ ~error /\ ~stopping
    BY <2>3 DEF Admit, AcceptStep, MayProceed, HasSpace, NotifyReady
  <2>4. CASE Block(c, f)
    BY <2>4 DEF Block, QuietStep, shared, worker
  <2>. QED  BY <2>1, <2>2, <2>3, <2>4
<1>3. ASSUME NEW c \in Clients,
             CloseFirst(c) \/ CloseAgain(c) \/ ReadStats(c) \/ CloseJoined(c)
      PROVE  QuietStep
  BY <1>3 DEF CloseFirst, CloseAgain, ReadStats, CloseJoined, QuietStep, shared, worker, history
<1>4. CASE UNCHANGED vars
  BY <1>4 DEF QuietStep, vars, shared, worker, history
<1>. QED  BY <1>1, <1>2, <1>3, <1>4 DEF Next, ClientCall

LEMMA OrderStep ==
  ASSUME TypeInv, OrderInv, [Next]_vars
  PROVE  OrderInv'
<1>0. /\ accepted \in Seq(Frames) /\ finished \in Seq(Frames) /\ queue \in Seq(Frames)
      /\ Len(accepted) \in Nat /\ Len(finished) \in Nat /\ Len(queue) \in Nat
      /\ current \in Frames \cup {NoFrame} /\ NoFrame \notin Frames
      /\ Held \in {0, 1} /\ Held' \in {0, 1}
  BY ConstantsAssumption, LenProperties DEF TypeInv, TypeOK, ConstantsAssumption, Held
<1>1. ASSUME NEW f \in Frames, AcceptStep(f) PROVE OrderInv'
  <2>1. Held' = Held
    BY <1>1 DEF AcceptStep, Held
  <2>2. /\ Len(queue') = Len(queue) + 1 /\ Len(accepted') = Len(accepted) + 1
        /\ \A i \in 1 .. Len(queue) : queue'[i] = queue[i]
        /\ queue'[Len(queue) + 1] = f
        /\ \A i \in 1 .. Len(accepted) : accepted'[i] = accepted[i]
        /\ accepted'[Len(accepted) + 1] = f
    BY <1>0, <1>1 DEF AcceptStep
  <2>3. finished' = finished /\ current' = current
    BY <1>1 DEF AcceptStep
  <2>4. /\ Len(accepted) = Len(finished) + Held + Len(queue)
        /\ \A i \in 1 .. Len(finished) : finished[i] = accepted[i]
        /\ current # NoFrame => accepted[Len(finished) + 1] = current
        /\ \A i \in 1 .. Len(queue) : queue[i] = accepted[Len(finished) + Held + i]
    BY DEF OrderInv
  <2>5. Len(accepted') = Len(finished') + Held' + Len(queue')
    BY <1>0, <2>1, <2>2, <2>3, <2>4
  <2>6. \A i \in 1 .. Len(finished') : finished'[i] = accepted'[i]
    BY <1>0, <2>2, <2>3, <2>4
  <2>7. current' # NoFrame => accepted'[Len(finished') + 1] = current'
    <3>1. current # NoFrame => Len(finished) + 1 \in 1 .. Len(accepted)
      BY <1>0, <2>4 DEF Held
    <3>. QED  BY <2>2, <2>3, <2>4, <3>1
  <2>8. ASSUME NEW i \in 1 .. Len(queue')
        PROVE  queue'[i] = accepted'[Len(finished') + Held' + i]
    <3>1. CASE i = Len(queue) + 1
      BY <1>0, <2>1, <2>2, <2>3, <2>4, <3>1
    <3>2. CASE i \in 1 .. Len(queue)
      <4>1. Len(finished) + Held + i \in 1 .. Len(accepted)
        BY <1>0, <2>4, <3>2
      <4>. QED  BY <2>1, <2>2, <2>3, <2>4, <3>2, <4>1
    <3>. QED  BY <1>0, <2>2, <3>1, <3>2
  <2>. QED  BY <2>5, <2>6, <2>7, <2>8 DEF OrderInv
<1>2. CASE TakeStep
  <2>1. Held = 0 /\ Held' = 1
    <3>1. current = NoFrame
      BY <1>2 DEF TakeStep, TypeInv, InHand
    <3>2. current' \in Frames
      BY <1>0, <1>2, HeadTailProperties DEF TakeStep
    <3>. QED  BY <1>0, <3>1, <3>2 DEF Held
  <2>2. /\ Len(queue') = Len(queue) - 1 /\ Len(queue) >= 1
        /\ current' = queue[1]
        /\ \A i \in 1 .. Len(queue') : queue'[i] = queue[i + 1]
    BY <1>0, <1>2, HeadTailProperties, EmptySeq DEF TakeStep
  <2>3. UNCHANGED <<accepted, finished>>
    BY <1>2 DEF TakeStep
  <2>4. /\ Len(accepted) = Len(finished) + Len(queue)
        /\ \A i \in 1 .. Len(finished) : finished[i] = accepted[i]
        /\ \A i \in 1 .. Len(queue) : queue[i] = accepted[Len(finished) + i]
    BY <1>0, <2>1 DEF OrderInv
  <2>5. Len(accepted') = Len(finished') + Held' + Len(queue')
    BY <1>0, <2>1, <2>2, <2>3, <2>4
  <2>6. accepted'[Len(finished') + 1] = current'
    BY <1>0, <2>2, <2>3, <2>4
  <2>7. ASSUME NEW i \in 1 .. Len(queue')
        PROVE  queue'[i] = accepted'[Len(finished') + Held' + i]
    <3>1. i + 1 \in 1 .. Len(queue) /\ Len(finished) + (i + 1) = Len(finished) + 1 + i
      BY <1>0, <2>2
    <3>2. queue'[i] = accepted[Len(finished) + (i + 1)]
      BY <2>2, <2>4, <3>1
    <3>. QED  BY <2>1, <2>3, <3>1, <3>2
  <2>. QED  BY <2>3, <2>4, <2>5, <2>6, <2>7 DEF OrderInv
<1>3. CASE CompleteStep
  <2>1. Held = 1 /\ Held' = 0 /\ current \in Frames /\ current # NoFrame
    BY <1>0, <1>3 DEF CompleteStep, TypeInv, InHand, Held
  <2>2. /\ Len(finished') = Len(finished) + 1
        /\ \A i \in 1 .. Len(finished) : finished'[i] = finished[i]
        /\ finished'[Len(finished) + 1] = current
    BY <1>0, <1>3, <2>1 DEF CompleteStep
  <2>3. UNCHANGED <<accepted, queue>> /\ current' = NoFrame
    BY <1>3 DEF CompleteStep
  <2>4. /\ Len(accepted) = Len(finished) + 1 + Len(queue)
        /\ \A i \in 1 .. Len(finished) : finished[i] = accepted[i]
        /\ accepted[Len(finished) + 1] = current
        /\ \A i \in 1 .. Len(queue) : queue[i] = accepted[Len(finished) + 1 + i]
    BY <2>1 DEF OrderInv
  <2>5. Len(accepted') = Len(finished') + Held' + Len(queue')
    BY <1>0, <2>1, <2>2, <2>3, <2>4
  <2>6. ASSUME NEW i \in 1 .. Len(finished') PROVE finished'[i] = accepted'[i]
    BY <1>0, <2>2, <2>3, <2>4, SMTT(60)
  <2>7. ASSUME NEW i \in 1 .. Len(queue')
        PROVE  queue'[i] = accepted'[Len(finished') + Held' + i]
    BY <1>0, <2>1, <2>2, <2>3, <2>4
  <2>. QED  BY <2>3, <2>5, <2>6, <2>7 DEF OrderInv
<1>4. CASE QuietStep
  BY <1>4 DEF QuietStep, OrderInv, Held
<1>. QED  BY <1>1, <1>2, <1>3, <1>4, HandoffSteps

LEMMA InitOrder == Init => OrderInv
BY DEF Init, OrderInv, Held

-----------------------------------------------------------------------------
(* The CPB account.  The worker's saturating subtraction is exact because  *)
(* the account covers the frame in its hands.                              *)

AccountInv == LedgerInv /\ CpbAccounting

LEMMA LedgerNat ==
  ASSUME TypeInv, NEW i \in 0 .. Len(accepted)
  PROVE  Ledger(i) \in Nat
<1>1. ledger \in Seq(Nat) /\ Len(ledger) = Len(accepted) /\ Len(accepted) \in Nat
  BY LenProperties DEF TypeInv, TypeOK, InHand
<1>2. CASE i = 0
  BY <1>2 DEF Ledger
<1>3. CASE i \in 1 .. Len(ledger)
  <2>1. ledger[i] \in Nat
    BY <1>1, <1>3, ElementOfSeq
  <2>. QED  BY <1>1, <1>3, <2>1 DEF Ledger
<1>. QED  BY <1>1, <1>2, <1>3

LEMMA AccountStep ==
  ASSUME TypeInv, OrderInv, AccountInv, [Next]_vars
  PROVE  AccountInv'
<1>0. /\ accepted \in Seq(Frames) /\ finished \in Seq(Frames) /\ ledger \in Seq(Nat)
      /\ Len(accepted) \in Nat /\ Len(finished) \in Nat /\ Len(ledger) = Len(accepted)
      /\ Len(queue) \in Nat /\ queuedBytes \in Nat
  BY LenProperties DEF TypeInv, TypeOK, InHand
<1>1. Len(finished) \in 0 .. Len(accepted)
  BY <1>0 DEF OrderInv, Held
<1>2. /\ \A i \in 1 .. Len(accepted) : ledger[i] = Ledger(i - 1) + Bytes[accepted[i]]
      /\ \A i \in 0 .. Len(accepted) : Ledger(i) <= Ledger(Len(accepted))
      /\ queuedBytes = Ledger(Len(accepted)) - Ledger(Len(finished))
  BY DEF AccountInv, LedgerInv, CpbAccounting
<1>3. \A i \in 0 .. Len(accepted) : Ledger(i) \in Nat
  BY LedgerNat
<1>4. ASSUME NEW f \in Frames, AcceptStep(f) PROVE AccountInv'
  <2>1. /\ accepted' = Append(accepted, f) /\ finished' = finished
        /\ ledger' = Append(ledger, Ledger(Len(accepted)) + Bytes[f])
        /\ queuedBytes' = queuedBytes + Bytes[f]
    BY <1>4 DEF AcceptStep
  <2>2. Bytes[f] \in Nat
    BY ConstantsAssumption DEF ConstantsAssumption
  <2>3. /\ Len(accepted') = Len(accepted) + 1
        /\ accepted'[Len(accepted) + 1] = f
        /\ \A i \in 1 .. Len(accepted) : accepted'[i] = accepted[i]
        /\ ledger'[Len(accepted) + 1] = Ledger(Len(accepted)) + Bytes[f]
        /\ \A i \in 1 .. Len(accepted) : ledger'[i] = ledger[i]
    BY <1>0, <2>1
  <2>. DEFINE New(n) == IF n = 0 THEN 0 ELSE ledger'[n]
  <2>4. /\ \A i \in 0 .. Len(accepted) : New(i) = Ledger(i)
        /\ New(Len(accepted) + 1) = Ledger(Len(accepted)) + Bytes[f]
    BY <1>0, <2>3 DEF Ledger
  <2>5. \A i \in 1 .. Len(accepted) + 1 : ledger'[i] = New(i - 1) + Bytes[accepted'[i]]
    <3>1. ledger'[Len(accepted) + 1] = New(Len(accepted)) + Bytes[f]
      BY <1>0, <2>3, <2>4
    <3>2. ASSUME NEW i \in 1 .. Len(accepted)
          PROVE  ledger'[i] = New(i - 1) + Bytes[accepted'[i]]
      <4>1. i - 1 \in 0 .. Len(accepted)
        BY <1>0
      <4>2. New(i - 1) = Ledger(i - 1)
        BY <2>4, <4>1
      <4>. QED  BY <1>2, <2>3, <4>2
    <3>. HIDE DEF New
    <3>. QED  BY <1>0, <2>3, <3>1, <3>2
  <2>6. \A i \in 0 .. Len(accepted) + 1 : New(i) <= New(Len(accepted) + 1)
    <3>1. Ledger(Len(accepted)) \in Nat
      BY <1>0, <1>3
    <3>2. New(Len(accepted) + 1) >= Ledger(Len(accepted))
      <4>. HIDE DEF New
      <4>. QED  BY <2>2, <2>4, <3>1
    <3>3. New(Len(accepted) + 1) \in Nat
      <4>. HIDE DEF New
      <4>. QED  BY <2>2, <2>4, <3>1
    <3>4. ASSUME NEW i \in 0 .. Len(accepted) PROVE New(i) <= New(Len(accepted) + 1)
      <4>1. New(i) = Ledger(i) /\ Ledger(i) \in Nat /\ Ledger(i) <= Ledger(Len(accepted))
        BY <1>2, <1>3, <2>4
      <4>. HIDE DEF New
      <4>. QED  BY <3>1, <3>2, <3>3, <4>1
    <3>. HIDE DEF New
    <3>. QED  BY <1>0, <3>3, <3>4
  <2>7. queuedBytes' = New(Len(accepted) + 1) - New(Len(finished))
    <3>1. Ledger(Len(accepted)) \in Nat /\ Ledger(Len(finished)) \in Nat
      BY <1>0, <1>1, <1>3
    <3>. HIDE DEF New
    <3>. QED  BY <1>1, <1>2, <2>1, <2>2, <2>4, <3>1
  <2>8. CpbAccounting'
    BY <2>1, <2>3, <2>7 DEF CpbAccounting, Ledger
  <2>9. LedgerInv'
    BY <2>3, <2>5, <2>6 DEF LedgerInv, Ledger
  <2>. QED  BY <2>8, <2>9 DEF AccountInv
<1>5. CASE CompleteStep
  <2>1. /\ current \in Frames /\ current # NoFrame
        /\ queuedBytes' = Released(current)
        /\ finished' = Append(finished, current)
        /\ UNCHANGED <<accepted, ledger>>
    BY <1>5, ConstantsAssumption DEF CompleteStep, TypeInv, InHand, ConstantsAssumption
  <2>2. Bytes[current] \in Nat
    BY <2>1, ConstantsAssumption DEF ConstantsAssumption
  <2>3. Len(finished') = Len(finished) + 1
    BY <1>0, <2>1
  <2>4. Len(finished) + 1 \in 1 .. Len(accepted) /\ accepted[Len(finished) + 1] = current
    BY <1>0, <2>1 DEF OrderInv, Held
  <2>5. ledger[Len(finished) + 1] = Ledger(Len(finished)) + Bytes[current]
    BY <1>0, <1>2, <2>4
  <2>6. Ledger(Len(finished) + 1) = Ledger(Len(finished)) + Bytes[current]
    BY <1>0, <2>5 DEF Ledger
  <2>7. Ledger(Len(finished) + 1) <= Ledger(Len(accepted))
    BY <1>0, <1>2, <2>4
  <2>8. Ledger(Len(finished)) \in Nat /\ Ledger(Len(accepted)) \in Nat
    BY <1>0, <1>1, <1>3
  <2>9. queuedBytes' = queuedBytes - Bytes[current]
    BY <1>0, <1>2, <2>1, <2>2, <2>6, <2>7, <2>8, SMTT(60) DEF Released
  <2>10. queuedBytes' = Ledger(Len(accepted)) - Ledger(Len(finished) + 1)
    BY <1>2, <2>2, <2>6, <2>8, <2>9
  <2>11. CpbAccounting'
    BY <2>1, <2>3, <2>10 DEF CpbAccounting, Ledger
  <2>12. LedgerInv'
    BY <1>2, <2>1 DEF LedgerInv, Ledger
  <2>. QED  BY <2>11, <2>12 DEF AccountInv
<1>6. CASE TakeStep \/ QuietStep
  BY <1>6 DEF TakeStep, QuietStep, AccountInv, LedgerInv, CpbAccounting, Ledger
<1>. QED  BY <1>4, <1>5, <1>6, HandoffSteps

LEMMA InitAccount == Init => AccountInv
BY DEF Init, AccountInv, LedgerInv, CpbAccounting, Ledger

THEOREM AccountInvariance == Spec => [](OrderInv /\ AccountInv)
<1>1. Init => OrderInv /\ AccountInv
  BY InitOrder, InitAccount
<1>2. TypeInv /\ (OrderInv /\ AccountInv) /\ [Next]_vars => (OrderInv /\ AccountInv)'
  BY OrderStep, AccountStep
<1>. QED  BY <1>1, <1>2, TypeInvariance, PTL DEF Spec

\* The account of buffered bytes is exactly what was accepted and not yet
\* completely sent, whatever the interleaving of enqueue's update and the
\* worker's (frame_transmitter.cpp, queued_bytes).
THEOREM CpbAccountingHolds == Spec => []CpbAccounting
BY AccountInvariance, PTL DEF AccountInv

-----------------------------------------------------------------------------
(* The end of the worker.  Past its loop nothing is left and, since it is  *)
(* stopping, nothing can be added; it ends without an error only there.    *)

PhaseInv ==
    /\ wpc \in {"final", "pcap", "exited"} => stopping
    /\ wpc \in {"final", "pcap"} => queue = <<>>
    /\ wpc = "exited" /\ ~error => current = NoFrame /\ queue = <<>>
    /\ error => wpc = "exited"

\* A caller that joins the worker has not been told anything yet.
JoinInv == \A c \in Clients : pc[c] = "joining" => outcome[c] = "none"

LEMMA PhaseWorkerStep ==
  ASSUME TypeInv, PhaseInv, WorkerStep \/ WorkerFail \/ SpuriousWake
  PROVE  PhaseInv'
<1>1. CASE WorkerStart \/ WorkerWait \/ WorkerBreak \/ CountReport
  BY <1>1 DEF WorkerStart, WorkerWait, WorkerBreak, CountReport, PhaseInv, shared
<1>2. CASE SendReport \/ SendPacket
  BY <1>2 DEF SendReport, SendPacket, PhaseInv, shared
<1>3. CASE WorkerPop \/ ReleaseBytes
  BY <1>3 DEF WorkerPop, ReleaseBytes, PhaseInv
<1>4. CASE PublishFrame \/ PublishLast
  BY <1>4 DEF PublishFrame, PublishLast, PhaseInv
<1>5. CASE WorkerExit
  BY <1>5 DEF WorkerExit, PhaseInv, TypeInv, InHand, shared
<1>6. CASE WorkerFail
  BY <1>6 DEF WorkerFail, PhaseInv
<1>7. CASE SpuriousWake
  BY <1>7 DEF SpuriousWake, PhaseInv, shared, worker
<1>. QED  BY <1>1, <1>2, <1>3, <1>4, <1>5, <1>6, <1>7 DEF WorkerStep

LEMMA PhaseStep ==
  ASSUME TypeInv, PhaseInv, [Next]_vars
  PROVE  PhaseInv'
<1>1. ASSUME NEW c \in Clients, Enqueue(c) \/ Resume(c) PROVE PhaseInv'
  <2>1. PICK f : Admit(c, f) \/ Block(c, f)
    BY <1>1 DEF Enqueue, Resume
  <2>2. CASE Admit(c, f) /\ (error \/ stopping)
    BY <2>2 DEF Admit, PhaseInv, shared
  <2>3. CASE Admit(c, f) /\ ~error /\ ~stopping
    BY <2>3 DEF Admit, NotifyReady, PhaseInv
  <2>4. CASE Block(c, f)
    BY <2>4 DEF Block, PhaseInv, shared, worker
  <2>. QED  BY <2>1, <2>2, <2>3, <2>4
<1>2. ASSUME NEW c \in Clients,
             CloseFirst(c) \/ CloseAgain(c) \/ ReadStats(c) \/ CloseJoined(c)
      PROVE  PhaseInv'
  <2>1. CASE CloseFirst(c)
    BY <2>1 DEF CloseFirst, NotifyReady, PhaseInv
  <2>2. CASE CloseAgain(c) \/ ReadStats(c) \/ CloseJoined(c)
    BY <2>2 DEF CloseAgain, ReadStats, CloseJoined, PhaseInv, shared, worker
  <2>. QED  BY <1>2, <2>1, <2>2
<1>3. CASE UNCHANGED vars
  BY <1>3 DEF PhaseInv, vars, shared, worker
<1>. QED  BY <1>1, <1>2, <1>3, PhaseWorkerStep DEF Next, ClientCall

\* How a step may change the outcome of a call: it is left alone, cleared, or
\* set by the caller itself.
LEMMA JoinStep ==
  ASSUME TypeInv, JoinInv, [Next]_vars
  PROVE  JoinInv'
<1>0. pc \in [Clients -> ClientPcs] /\ outcome \in [Clients -> Outcomes]
  BY DEF TypeInv, TypeOK
<1>1. ASSUME NEW c \in Clients, Enqueue(c) \/ Resume(c) PROVE JoinInv'
  <2>1. PICK f : Admit(c, f) \/ Block(c, f)
    BY <1>1 DEF Enqueue, Resume
  <2>2. \E p \in {"idle", "waiting"}, o \in Outcomes :
           pc' = [pc EXCEPT ![c] = p] /\ outcome' = [outcome EXCEPT ![c] = o]
    BY <2>1 DEF Admit, Block, Outcomes
  <2>. QED  BY <1>0, <2>2 DEF JoinInv
<1>2. ASSUME NEW c \in Clients, CloseFirst(c) PROVE JoinInv'
  <2>1. /\ pc' = [d \in Clients |-> IF d = c THEN "joining" ELSE Woken(pc[d])]
        /\ outcome' = [outcome EXCEPT ![c] = "none"]
    BY <1>2 DEF CloseFirst
  <2>. QED  BY <1>0, <2>1 DEF JoinInv, Woken
<1>3. ASSUME NEW c \in Clients, CloseAgain(c) \/ ReadStats(c) \/ CloseJoined(c)
      PROVE  JoinInv'
  BY <1>0, <1>3 DEF CloseAgain, ReadStats, CloseJoined, Returns, JoinInv
<1>4. CASE WorkerStep \/ WorkerFail \/ SpuriousWake \/ UNCHANGED vars
  <2>1. CASE WorkerPop \/ SpuriousWake
    <3>1. outcome' = outcome
      BY <2>1 DEF WorkerPop, SpuriousWake, clients
    <3>2. pc' = pc \/ \E c \in Clients : pc' = [pc EXCEPT ![c] = "woken"]
      BY <2>1 DEF WorkerPop, SpuriousWake, NotifyOneSpace, clients
    <3>. QED  BY <1>0, <3>1, <3>2 DEF JoinInv
  <2>2. CASE WorkerFail
    BY <1>0, <2>2 DEF WorkerFail, NotifyAllSpace, Woken, JoinInv
  <2>3. CASE \/ WorkerStart \/ WorkerWait \/ WorkerBreak \/ CountReport \/ SendReport
             \/ SendPacket \/ ReleaseBytes \/ PublishFrame \/ PublishLast \/ WorkerExit
             \/ UNCHANGED vars
    <3>1. UNCHANGED <<pc, outcome>>
      BY <2>3 DEF WorkerStart, WorkerWait, WorkerBreak, CountReport, SendReport, SendPacket,
                  ReleaseBytes, PublishFrame, PublishLast, WorkerExit, vars, clients
    <3>. QED  BY <3>1 DEF JoinInv
  <2>. QED  BY <1>4, <2>1, <2>2, <2>3 DEF WorkerStep
<1>. QED  BY <1>1, <1>2, <1>3, <1>4 DEF Next, ClientCall

THEOREM CloseInvariance == Spec => [](PhaseInv /\ JoinInv)
<1>1. Init => PhaseInv /\ JoinInv
  BY DEF Init, PhaseInv, JoinInv
<1>2. TypeInv /\ (PhaseInv /\ JoinInv) /\ [Next]_vars => (PhaseInv /\ JoinInv)'
  BY PhaseStep, JoinStep
<1>. QED  BY <1>1, <1>2, TypeInvariance, PTL DEF Spec

-----------------------------------------------------------------------------
(* What a normal return means *)

\* Only a caller's own action makes its call return normally, and only when
\* the worker has not failed.
LEMMA ReturnStep ==
  ASSUME TypeInv, [Next]_vars, NEW c \in Clients, outcome'[c] = "returned",
         outcome[c] # "returned"
  PROVE  ~error /\ (CloseJoined(c) \/ pc[c] # "joining")
<1>0. outcome \in [Clients -> Outcomes]
  BY DEF TypeInv, TypeOK
<1>1. ASSUME NEW d \in Clients, Enqueue(d) \/ Resume(d)
      PROVE  ~error /\ pc[c] # "joining"
  <2>1. PICK f : Admit(d, f) \/ Block(d, f)
    BY <1>1 DEF Enqueue, Resume
  <2>2. pc[d] # "joining"
    BY <1>1 DEF Enqueue, Resume
  <2>3. PICK o \in Outcomes :
           /\ outcome' = [outcome EXCEPT ![d] = o]
           /\ o = "returned" => ~error
    BY <2>1 DEF Admit, Block, Outcomes
  <2>. QED  BY <1>0, <2>2, <2>3
<1>2. ASSUME NEW d \in Clients, CloseAgain(d) \/ ReadStats(d) \/ CloseJoined(d)
      PROVE  ~error /\ (CloseJoined(c) \/ pc[c] # "joining")
  BY <1>0, <1>2 DEF CloseAgain, ReadStats, CloseJoined, Returns
<1>3. ASSUME NEW d \in Clients, CloseFirst(d) PROVE FALSE
  BY <1>0, <1>3 DEF CloseFirst
<1>4. CASE WorkerStep \/ WorkerFail \/ SpuriousWake \/ UNCHANGED vars
  <2>1. outcome' = outcome
    BY <1>4 DEF WorkerStep, WorkerStart, WorkerWait, WorkerPop, WorkerBreak, CountReport,
                SendReport, SendPacket, ReleaseBytes, PublishFrame, PublishLast, WorkerExit,
                WorkerFail, SpuriousWake, vars, clients
  <2>. QED  BY <2>1
<1>. QED  BY <1>1, <1>2, <1>3, <1>4 DEF Next, ClientCall

\* After the worker has failed no call of enqueue, close or stats reports
\* success (frame_transmitter.cpp, rethrow_error).
THEOREM FailureIsSurfacedHolds == Spec => FailureIsSurfaced
<1>1. TypeInv /\ [Next]_vars =>
        (error => \A c \in Clients : outcome'[c] = "returned" => outcome[c] = "returned")
  BY ReturnStep
<1>. QED  BY <1>1, TypeInvariance, PTL DEF Spec, FailureIsSurfaced

\* A close that joins the worker and returns normally has seen every accepted
\* frame completely sent (frame_transmitter.cpp, close).
THEOREM CloseMeansDrainedHolds == Spec => CloseMeansDrained
<1>1. ASSUME TypeInv, OrderInv, PhaseInv, JoinInv, [Next]_vars, NEW c \in Clients,
             pc[c] = "joining", outcome'[c] = "returned"
      PROVE  finished = accepted
  <2>1. outcome[c] # "returned"
    BY <1>1 DEF JoinInv
  <2>2. ~error /\ wpc = "exited"
    BY <1>1, <2>1, ReturnStep DEF CloseJoined
  <2>3. current = NoFrame /\ queue = <<>>
    BY <1>1, <2>2 DEF PhaseInv
  <2>4. /\ accepted \in Seq(Frames) /\ finished \in Seq(Frames)
        /\ Len(accepted) \in Nat /\ Len(finished) \in Nat
    BY <1>1, LenProperties DEF TypeInv, TypeOK
  <2>5. /\ Len(accepted) = Len(finished)
        /\ \A i \in 1 .. Len(finished) : finished[i] = accepted[i]
    BY <1>1, <2>3, <2>4 DEF OrderInv, Held
  <2>. QED  BY <2>4, <2>5, SeqEqual
<1>2. TypeInv /\ OrderInv /\ PhaseInv /\ JoinInv /\ [Next]_vars =>
        \A c \in Clients :
           (pc[c] = "joining" /\ outcome'[c] = "returned") => finished = accepted
  BY <1>1
<1>. QED  BY <1>2, TypeInvariance, AccountInvariance, CloseInvariance, PTL
          DEF Spec, CloseMeansDrained

-----------------------------------------------------------------------------
(* The published statistics.  They are written in three places, two of     *)
(* them in a critical section of their own.                                *)

LEMMA OccupancyFromAccept ==
  ASSUME TypeInv, TypeInv', PublishedOccupancy, NEW c \in Clients, NEW f \in Frames,
         Admit(c, f), ~error, ~stopping
  PROVE  PublishedOccupancy'
<1>1. /\ peak'.bytes = Larger(peak.bytes, queuedBytes')
      /\ peak'.frames = Larger(peak.frames, Len(queue'))
  BY DEF Admit
<1>2. /\ stats'.cpb = queuedBytes' /\ stats'.peakCpb = peak'.bytes
      /\ stats'.queued = Len(queue') /\ stats'.peakQueued = peak'.frames
  <2>1. stats \in Stats
    BY DEF TypeInv, TypeOK, Stats
  <2>2. stats' = [stats EXCEPT !.cpb = queuedBytes', !.peakCpb = peak'.bytes,
                               !.queued = Len(queue'), !.peakQueued = peak'.frames]
    BY DEF Admit, PublishOccupancy
  <2>. QED  BY <2>1, <2>2 DEF Stats
<1>3. /\ queuedBytes' \in Nat /\ Len(queue') \in Nat
      /\ peak.bytes \in Nat /\ peak.frames \in Nat
  BY LenProperties DEF TypeInv, TypeOK
<1>. QED  BY <1>1, <1>2, <1>3 DEF PublishedOccupancy, Larger

LEMMA OccupancyWorkerStep ==
  ASSUME TypeInv, PublishedOccupancy, WorkerStep \/ WorkerFail \/ SpuriousWake
  PROVE  PublishedOccupancy'
<1>0. /\ stats \in Stats /\ queue \in Seq(Frames) /\ Len(queue) \in Nat
      /\ queuedBytes \in Nat /\ peak \in [bytes : Nat, frames : Nat]
  BY LenProperties DEF TypeInv, TypeOK, Stats
<1>1. CASE WorkerPop
  <2>1. /\ queue # <<>> /\ queue' = Tail(queue) /\ wpc = "dequeue"
        /\ UNCHANGED <<queuedBytes, peak>>
        /\ stats' = [stats EXCEPT !.queued = Len(queue')]
    BY <1>1 DEF WorkerPop
  <2>2. Len(queue') = Len(queue) - 1 /\ Len(queue') \in Nat
    BY <1>0, <2>1
  <2>3. /\ stats'.cpb = stats.cpb /\ stats'.peakCpb = stats.peakCpb
        /\ stats'.queued = Len(queue') /\ stats'.peakQueued = stats.peakQueued
    BY <1>0, <2>1 DEF Stats
  <2>. QED  BY <1>0, <2>1, <2>2, <2>3 DEF PublishedOccupancy, Stats
<1>2. CASE ReleaseBytes
  <2>1. /\ queuedBytes' = Released(current) /\ wpc' = "publish"
        /\ UNCHANGED <<queue, peak, stats>>
    BY <1>2 DEF ReleaseBytes
  <2>2. Bytes[current] \in Nat
    BY <1>2, ConstantsAssumption DEF ReleaseBytes, TypeInv, InHand, ConstantsAssumption
  <2>3. queuedBytes' <= queuedBytes /\ queuedBytes' \in Nat
    BY <1>0, <2>1, <2>2 DEF Released
  <2>. QED  BY <1>0, <2>1, <2>3 DEF PublishedOccupancy, Stats
<1>3. CASE PublishFrame \/ PublishLast
  <2>1. Publish /\ UNCHANGED <<queue, queuedBytes, peak>>
    BY <1>3 DEF PublishFrame, PublishLast
  <2>. QED  BY <1>0, <2>1 DEF PublishedOccupancy, Publish, Stats
<1>4. CASE WorkerFail
  BY <1>4 DEF WorkerFail, MayThrow, PublishedOccupancy
<1>5. CASE SpuriousWake
  BY <1>5 DEF SpuriousWake, PublishedOccupancy, shared, worker
<1>6. CASE \/ WorkerStart \/ WorkerWait \/ WorkerBreak \/ WorkerExit
           \/ CountReport \/ SendReport \/ SendPacket
  <2>1. wpc # "publish" /\ UNCHANGED <<queue, queuedBytes, peak, stats>>
    BY <1>6 DEF WorkerStart, WorkerWait, WorkerBreak, WorkerExit, CountReport, SendReport,
                SendPacket, shared
  <2>. QED  BY <2>1 DEF PublishedOccupancy
<1>. QED  BY <1>1, <1>2, <1>3, <1>4, <1>5, <1>6 DEF WorkerStep

LEMMA OccupancyStep ==
  ASSUME TypeInv, PublishedOccupancy, [Next]_vars
  PROVE  PublishedOccupancy'
<1>0. TypeInv'
  BY StepTypeInv
<1>1. ASSUME NEW c \in Clients, Enqueue(c) \/ Resume(c) PROVE PublishedOccupancy'
  <2>1. PICK f \in Frames : Admit(c, f) \/ Block(c, f)
    BY <1>1 DEF Enqueue, Resume, TypeInv, InHand
  <2>2. CASE Admit(c, f) /\ (error \/ stopping)
    BY <2>2 DEF Admit, PublishedOccupancy, shared
  <2>3. CASE Admit(c, f) /\ ~error /\ ~stopping
    BY <1>0, <2>3, OccupancyFromAccept
  <2>4. CASE Block(c, f)
    BY <2>4 DEF Block, PublishedOccupancy, shared, worker
  <2>. QED  BY <2>1, <2>2, <2>3, <2>4
<1>2. ASSUME NEW c \in Clients,
             CloseFirst(c) \/ CloseAgain(c) \/ ReadStats(c) \/ CloseJoined(c)
      PROVE  PublishedOccupancy'
  <2>1. CASE CloseFirst(c)
    BY <2>1 DEF CloseFirst, NotifyReady, PublishedOccupancy
  <2>2. CASE CloseAgain(c) \/ ReadStats(c) \/ CloseJoined(c)
    BY <2>2 DEF CloseAgain, ReadStats, CloseJoined, PublishedOccupancy, shared, worker
  <2>. QED  BY <1>2, <2>1, <2>2
<1>3. CASE UNCHANGED vars
  BY <1>3 DEF PublishedOccupancy, vars, shared, worker
<1>. QED  BY <1>1, <1>2, <1>3, OccupancyWorkerStep DEF Next, ClientCall

\* The statistics a caller reads never understate what is held, know the depth
\* of the queue exactly, and are behind the account only between the two
\* critical sections that end a frame (frame_transmitter.cpp, update_stats).
THEOREM PublishedOccupancyHolds == Spec => []PublishedOccupancy
<1>1. Init => PublishedOccupancy
  BY DEF Init, PublishedOccupancy
<1>2. TypeInv /\ PublishedOccupancy /\ [Next]_vars => PublishedOccupancy'
  BY OccupancyStep
<1>. QED  BY <1>1, <1>2, TypeInvariance, PTL DEF Spec

-----------------------------------------------------------------------------
(* No wake-up is lost.  The worker wakes one caller for every slot it      *)
(* frees and a caller that calls enqueue itself may take a slot before the *)
(* woken one comes for it: what holds throughout is that the free slots    *)
(* never outnumber the woken callers while anyone sleeps.                  *)

WokenClients == {c \in Clients : pc[c] = "woken"}

Asleep == \E c \in Clients : pc[c] = "waiting"

\* NoLostWakeup, its two halves named.
WorkerAwake == wpc = "waiting" => queue = <<>> /\ ~stopping

CallersAwake ==
    Asleep => /\ ~stopping /\ ~error
              /\ MaxQueuedFrames - Len(queue) <= Cardinality(WokenClients)

LEMMA WokenFinite ==
  ASSUME TypeInv
  PROVE  IsFiniteSet(WokenClients) /\ Cardinality(WokenClients) \in Nat
<1>1. IsFiniteSet(Clients) /\ WokenClients \subseteq Clients
  BY ConstantsAssumption DEF ConstantsAssumption, WokenClients
<1>. QED  BY <1>1, FS_Subset, FS_CardinalityType

\* A caller that wakes adds one to the callers that are awake.
LEMMA OneMoreWoken ==
  ASSUME TypeInv, NEW c \in Clients, pc[c] = "waiting", pc' = [pc EXCEPT ![c] = "woken"]
  PROVE  Cardinality(WokenClients') = Cardinality(WokenClients) + 1
<1>1. c \notin WokenClients
  BY DEF WokenClients
<1>2. WokenClients' = WokenClients \cup {c}
  BY ZenonT(60) DEF WokenClients, TypeInv, TypeOK
<1>. QED  BY <1>1, <1>2, WokenFinite, FS_AddElement

\* A caller that was awake and no longer is takes one away.
LEMMA OneLessWoken ==
  ASSUME TypeInv, NEW c \in Clients, pc[c] = "woken", pc' = [pc EXCEPT ![c] = "idle"]
  PROVE  Cardinality(WokenClients') = Cardinality(WokenClients) - 1
<1>1. c \in WokenClients
  BY DEF WokenClients
<1>2. WokenClients' = WokenClients \ {c}
  BY DEF WokenClients, TypeInv, TypeOK
<1>. QED  BY <1>1, <1>2, WokenFinite, FS_RemoveElement

LEMMA SameWoken ==
  ASSUME TypeInv, NEW c \in Clients, pc[c] # "woken", NEW p \in ClientPcs \ {"woken"},
         pc' = [pc EXCEPT ![c] = p]
  PROVE  WokenClients' = WokenClients
BY DEF WokenClients, TypeInv, TypeOK

-----------------------------------------------------------------------------
LEMMA WorkerAwakeStep ==
  ASSUME WorkerAwake, [Next]_vars
  PROVE  WorkerAwake'
<1>1. ASSUME NEW c \in Clients, Enqueue(c) \/ Resume(c) PROVE WorkerAwake'
  <2>1. PICK f : Admit(c, f) \/ Block(c, f)
    BY <1>1 DEF Enqueue, Resume
  <2>. QED  BY <2>1 DEF Admit, Block, NotifyReady, WorkerAwake, shared, worker
<1>2. ASSUME NEW c \in Clients,
             CloseFirst(c) \/ CloseAgain(c) \/ ReadStats(c) \/ CloseJoined(c)
      PROVE  WorkerAwake'
  BY <1>2 DEF CloseFirst, CloseAgain, ReadStats, CloseJoined, NotifyReady, WorkerAwake,
              shared, worker
<1>3. CASE WorkerWait
  BY <1>3 DEF WorkerWait, WorkerAwake, shared
<1>4. CASE \/ WorkerStart \/ WorkerPop \/ WorkerBreak \/ CountReport \/ SendReport \/ SendPacket
           \/ ReleaseBytes \/ PublishFrame \/ PublishLast \/ WorkerExit \/ WorkerFail
  <2>1. wpc' # "waiting"
    BY <1>4 DEF WorkerStart, WorkerPop, WorkerBreak, CountReport, SendReport, SendPacket,
                ReleaseBytes, PublishFrame, PublishLast, WorkerExit, WorkerFail
  <2>. QED  BY <2>1 DEF WorkerAwake
<1>5. CASE SpuriousWake \/ UNCHANGED vars
  BY <1>5 DEF SpuriousWake, vars, shared, worker, WorkerAwake
<1>. QED  BY <1>1, <1>2, <1>3, <1>4, <1>5 DEF Next, ClientCall, WorkerStep

LEMMA CallersAwakeFromEnqueue ==
  ASSUME TypeInv, CallersAwake, NEW c \in Clients, Enqueue(c) \/ Resume(c)
  PROVE  CallersAwake'
<1>0. /\ pc \in [Clients -> ClientPcs] /\ pc[c] \in {"idle", "woken"}
      /\ Len(queue) \in Nat /\ queue \in Seq(Frames) /\ MaxQueuedFrames \in Nat
      /\ Cardinality(WokenClients) \in Nat
  BY ConstantsAssumption, LenProperties, WokenFinite
  DEF TypeInv, TypeOK, Enqueue, Resume, ConstantsAssumption
<1>1. PICK f \in Frames : Admit(c, f) \/ Block(c, f)
  BY DEF Enqueue, Resume, TypeInv, InHand
<1>2. CASE Admit(c, f)
  <2>1. pc' = [pc EXCEPT ![c] = "idle"]
    BY <1>2 DEF Admit
  <2>2. Asleep' => Asleep
    BY <1>0, <2>1 DEF Asleep
  <2>3. CASE error \/ stopping
    BY <2>2, <2>3 DEF CallersAwake
  <2>4. CASE ~error /\ ~stopping
    <3>1. queue' = Append(queue, f) /\ UNCHANGED <<stopping, error>>
      BY <1>2, <2>4 DEF Admit
    <3>2. Len(queue') = Len(queue) + 1
      BY <1>0, <3>1
    <3>3. CASE pc[c] = "woken"
      <4>1. Cardinality(WokenClients') = Cardinality(WokenClients) - 1
        BY <2>1, <3>3, OneLessWoken
      <4>. QED  BY <1>0, <2>2, <3>1, <3>2, <4>1 DEF CallersAwake
    <3>4. CASE pc[c] # "woken"
      <4>1. WokenClients' = WokenClients
        BY <2>1, <3>4, SameWoken DEF ClientPcs
      <4>. QED  BY <1>0, <2>2, <3>1, <3>2, <4>1 DEF CallersAwake
    <3>. QED  BY <3>3, <3>4
  <2>. QED  BY <2>3, <2>4
<1>3. CASE Block(c, f)
  <2>1. ~stopping /\ ~error /\ Len(queue) >= MaxQueuedFrames /\ UNCHANGED <<stopping, error, queue>>
    BY <1>0, <1>3 DEF Block, MayProceed, HasSpace, shared
  <2>2. Cardinality(WokenClients') \in Nat
    BY ConstantsAssumption, FS_Subset, FS_CardinalityType DEF ConstantsAssumption, WokenClients
  <2>. QED  BY <1>0, <2>1, <2>2 DEF CallersAwake
<1>. QED  BY <1>1, <1>2, <1>3

LEMMA CallersAwakeStep ==
  ASSUME TypeInv, CallersAwake, [Next]_vars
  PROVE  CallersAwake'
<1>0. /\ pc \in [Clients -> ClientPcs] /\ TypeInv'
      /\ Len(queue) \in Nat /\ queue \in Seq(Frames) /\ MaxQueuedFrames \in Nat
      /\ Cardinality(WokenClients) \in Nat
  BY ConstantsAssumption, LenProperties, WokenFinite, StepTypeInv
  DEF TypeInv, TypeOK, ConstantsAssumption
<1>1. ASSUME NEW c \in Clients, Enqueue(c) \/ Resume(c) PROVE CallersAwake'
  BY <1>0, <1>1, CallersAwakeFromEnqueue
<1>2. ASSUME NEW c \in Clients, CloseFirst(c) PROVE CallersAwake'
  <2>1. ~Asleep'
    BY <1>2 DEF CloseFirst, Woken, Asleep
  <2>. QED  BY <2>1 DEF CallersAwake
<1>3. ASSUME NEW c \in Clients, CloseAgain(c) \/ ReadStats(c) \/ CloseJoined(c)
      PROVE  CallersAwake'
  <2>1. /\ pc' = [pc EXCEPT ![c] = "idle"] /\ pc[c] \in {"idle", "joining"}
        /\ UNCHANGED <<queue, stopping, error>>
    BY <1>3 DEF CloseAgain, ReadStats, CloseJoined, Returns, shared
  <2>2. WokenClients' = WokenClients
    BY <2>1, SameWoken DEF ClientPcs
  <2>3. Asleep' => Asleep
    BY <1>0, <2>1 DEF Asleep
  <2>. QED  BY <2>1, <2>2, <2>3 DEF CallersAwake
<1>4. CASE WorkerPop
  <2>1. queue # <<>> /\ queue' = Tail(queue) /\ UNCHANGED <<stopping, error>> /\ NotifyOneSpace
    BY <1>4 DEF WorkerPop
  <2>2. Len(queue') = Len(queue) - 1
    BY <1>0, <2>1
  <2>3. CASE UNCHANGED pc /\ ~Asleep
    BY <2>3 DEF CallersAwake, Asleep
  <2>4. ASSUME NEW c \in Clients, pc[c] = "waiting", pc' = [pc EXCEPT ![c] = "woken"]
        PROVE  CallersAwake'
    <3>1. Cardinality(WokenClients') = Cardinality(WokenClients) + 1 /\ Asleep
      BY <2>4, OneMoreWoken DEF Asleep
    <3>. QED  BY <1>0, <2>1, <2>2, <3>1 DEF CallersAwake
  <2>. QED  BY <2>1, <2>3, <2>4 DEF NotifyOneSpace, Asleep
<1>5. CASE WorkerFail
  <2>1. ~Asleep'
    BY <1>5 DEF WorkerFail, NotifyAllSpace, Woken, Asleep
  <2>. QED  BY <2>1 DEF CallersAwake
<1>6. CASE SpuriousWake
  <2>1. UNCHANGED <<queue, stopping, error>>
    BY <1>6 DEF SpuriousWake, shared
  <2>2. CASE UNCHANGED pc
    BY <2>1, <2>2 DEF CallersAwake, Asleep, WokenClients
  <2>3. ASSUME NEW c \in Clients, pc[c] = "waiting", pc' = [pc EXCEPT ![c] = "woken"]
        PROVE  CallersAwake'
    <3>1. Cardinality(WokenClients') = Cardinality(WokenClients) + 1 /\ Asleep
      BY <2>3, OneMoreWoken DEF Asleep
    <3>. QED  BY <1>0, <2>1, <3>1 DEF CallersAwake
  <2>. QED  BY <1>6, <2>2, <2>3 DEF SpuriousWake, clients
<1>7. CASE \/ WorkerStart \/ WorkerWait \/ WorkerBreak \/ CountReport \/ SendReport \/ SendPacket
           \/ ReleaseBytes \/ PublishFrame \/ PublishLast \/ WorkerExit \/ UNCHANGED vars
  <2>1. UNCHANGED <<pc, queue, stopping, error>>
    BY <1>7 DEF WorkerStart, WorkerWait, WorkerBreak, CountReport, SendReport, SendPacket,
                ReleaseBytes, PublishFrame, PublishLast, WorkerExit, vars, clients, shared
  <2>. QED  BY <2>1 DEF CallersAwake, Asleep, WokenClients
<1>. QED  BY <1>1, <1>2, <1>3, <1>4, <1>5, <1>6, <1>7 DEF Next, ClientCall, WorkerStep

\* The worker never sleeps while there is work for it, no caller sleeps once
\* the transmitter stops, and every free slot has a woken caller coming for it
\* while others sleep (frame_transmitter.cpp, the waits on ready and space).
THEOREM NoLostWakeupHolds == Spec => []NoLostWakeup
<1>1. Init => WorkerAwake /\ CallersAwake
  BY DEF Init, WorkerAwake, CallersAwake, Asleep
<1>2. TypeInv /\ (WorkerAwake /\ CallersAwake) /\ [Next]_vars => (WorkerAwake /\ CallersAwake)'
  BY WorkerAwakeStep, CallersAwakeStep
<1>3. WorkerAwake /\ CallersAwake => NoLostWakeup
  BY DEF WorkerAwake, CallersAwake, Asleep, WokenClients, NoLostWakeup
<1>. QED  BY <1>1, <1>2, <1>3, TypeInvariance, PTL DEF Spec

-----------------------------------------------------------------------------
(* No frame is in two places: a caller hands a frame over only once, so    *)
(* the frames accepted and those in the hands of callers are all distinct. *)

InEnqueue(c) == pc[c] \in {"waiting", "woken"}

Fresh(f) == \A i \in 1 .. Len(accepted) : accepted[i] # f

UniqueInv ==
    /\ \A i \in 1 .. Len(accepted) : accepted[i] \in offered
    /\ \A c \in Clients : InEnqueue(c) => holding[c] \in offered /\ Fresh(holding[c])
    /\ \A c, d \in Clients :
          InEnqueue(c) /\ InEnqueue(d) /\ holding[c] = holding[d] => c = d

\* A step that accepts nothing and brings no frame into a caller's hands.
LEMMA UniqueQuiet ==
  ASSUME UniqueInv, UNCHANGED accepted, offered \subseteq offered',
         \A c \in Clients : InEnqueue(c)' => InEnqueue(c) /\ holding'[c] = holding[c]
  PROVE  UniqueInv'
BY DEF UniqueInv, Fresh

\* What a caller of enqueue does to the frames: f is the frame it brings.
LEMMA UniqueEnqueue ==
  ASSUME TypeInv, UniqueInv, NEW c \in Clients, NEW f \in Frames,
         Admit(c, f) \/ Block(c, f), offered' = offered \cup {f}, Fresh(f),
         \A d \in Clients \ {c} : InEnqueue(d) => holding[d] # f
  PROVE  UniqueInv'
<1>0. /\ pc \in [Clients -> ClientPcs] /\ holding \in [Clients -> Frames \cup {NoFrame}]
      /\ accepted \in Seq(Frames) /\ Len(accepted) \in Nat
  BY LenProperties DEF TypeInv, TypeOK
<1>1. CASE Admit(c, f) /\ (error \/ stopping)
  <2>1. /\ holding' = [holding EXCEPT ![c] = NoFrame]
        /\ pc' = [pc EXCEPT ![c] = "idle"] /\ accepted' = accepted
    BY <1>1 DEF Admit
  <2>2. \A d \in Clients : InEnqueue(d)' => InEnqueue(d) /\ holding'[d] = holding[d]
    BY <1>0, <2>1 DEF InEnqueue
  <2>. QED  BY <2>1, <2>2, UniqueQuiet
<1>2. CASE Admit(c, f) /\ ~error /\ ~stopping
  <2>1. /\ holding' = [holding EXCEPT ![c] = NoFrame]
        /\ pc' = [pc EXCEPT ![c] = "idle"] /\ accepted' = Append(accepted, f)
    BY <1>2 DEF Admit
  <2>2. \A d \in Clients :
           InEnqueue(d)' => d # c /\ InEnqueue(d) /\ holding'[d] = holding[d]
    BY <1>0, <2>1 DEF InEnqueue
  <2>3. /\ Len(accepted') = Len(accepted) + 1
        /\ accepted'[Len(accepted) + 1] = f
        /\ \A i \in 1 .. Len(accepted) : accepted'[i] = accepted[i]
    BY <1>0, <2>1
  <2>4. ASSUME NEW i \in 1 .. Len(accepted')
        PROVE  accepted'[i] = f \/ \E j \in 1 .. Len(accepted) : accepted'[i] = accepted[j]
    BY <1>0, <2>3
  <2>5. \A i \in 1 .. Len(accepted') : accepted'[i] \in offered'
    BY <2>4 DEF UniqueInv
  <2>6. ASSUME NEW d \in Clients, InEnqueue(d)' PROVE holding'[d] \in offered' /\ Fresh(holding[d])'
    <3>1. holding'[d] = holding[d] /\ holding[d] \in offered /\ holding[d] # f /\ Fresh(holding[d])
      BY <2>2, <2>6 DEF UniqueInv
    <3>. QED  BY <2>4, <3>1 DEF Fresh
  <2>7. ASSUME NEW d \in Clients, NEW e \in Clients, InEnqueue(d)', InEnqueue(e)',
               holding'[d] = holding'[e]
        PROVE  d = e
    BY <2>2, <2>7 DEF UniqueInv
  <2>. QED  BY <2>5, <2>6, <2>7 DEF UniqueInv
<1>3. CASE Block(c, f)
  <2>1. /\ holding' = [holding EXCEPT ![c] = f]
        /\ pc' = [pc EXCEPT ![c] = "waiting"] /\ accepted' = accepted
    BY <1>3 DEF Block
  <2>2. \A d \in Clients : InEnqueue(d)' =>
           (d = c /\ holding'[d] = f) \/ (d # c /\ InEnqueue(d) /\ holding'[d] = holding[d])
    BY <1>0, <2>1 DEF InEnqueue
  <2>3. \A i \in 1 .. Len(accepted') : accepted'[i] \in offered'
    BY <2>1 DEF UniqueInv
  <2>4. ASSUME NEW d \in Clients, InEnqueue(d)' PROVE holding'[d] \in offered' /\ Fresh(holding[d])'
    BY <2>1, <2>2, <2>4 DEF UniqueInv, Fresh
  <2>5. ASSUME NEW d \in Clients, NEW e \in Clients, InEnqueue(d)', InEnqueue(e)',
               holding'[d] = holding'[e]
        PROVE  d = e
    BY <2>2, <2>5 DEF UniqueInv
  <2>. QED  BY <2>3, <2>4, <2>5 DEF UniqueInv
<1>. QED  BY <1>1, <1>2, <1>3

\* The frame a caller brings to enqueue's critical section has not been
\* accepted and is in nobody else's hands.
LEMMA BroughtFrame ==
  ASSUME TypeInv, UniqueInv, NEW c \in Clients, Enqueue(c) \/ Resume(c)
  PROVE  \E f \in Frames :
            /\ Admit(c, f) \/ Block(c, f)
            /\ offered' = offered \cup {f}
            /\ Fresh(f)
            /\ \A d \in Clients \ {c} : InEnqueue(d) => holding[d] # f
<1>1. CASE Enqueue(c)
  <2>1. PICK f \in Frames \ offered :
           offered' = offered \cup {f} /\ (Admit(c, f) \/ Block(c, f))
    BY <1>1 DEF Enqueue
  <2>. QED  BY <2>1 DEF UniqueInv, Fresh
<1>2. CASE Resume(c)
  <2>1. /\ Admit(c, holding[c]) \/ Block(c, holding[c])
        /\ holding[c] \in Frames /\ offered' = offered /\ InEnqueue(c)
    BY <1>2 DEF Resume, TypeInv, InHand, InEnqueue
  <2>. QED  BY <2>1 DEF UniqueInv
<1>. QED  BY <1>1, <1>2

LEMMA UniqueStep ==
  ASSUME TypeInv, UniqueInv, [Next]_vars
  PROVE  UniqueInv'
<1>0. pc \in [Clients -> ClientPcs] /\ holding \in [Clients -> Frames \cup {NoFrame}]
  BY DEF TypeInv, TypeOK
<1>1. ASSUME NEW c \in Clients, Enqueue(c) \/ Resume(c) PROVE UniqueInv'
  BY <1>1, BroughtFrame, UniqueEnqueue
<1>2. ASSUME NEW c \in Clients,
             CloseFirst(c) \/ CloseAgain(c) \/ ReadStats(c) \/ CloseJoined(c)
      PROVE  UniqueInv'
  <2>1. UNCHANGED <<accepted, offered, holding>>
    BY <1>2 DEF CloseFirst, CloseAgain, ReadStats, CloseJoined, history
  <2>2. \A d \in Clients : InEnqueue(d)' => InEnqueue(d)
    BY <1>0, <1>2 DEF CloseFirst, CloseAgain, ReadStats, CloseJoined, Returns, Woken, InEnqueue
  <2>. QED  BY <2>1, <2>2, UniqueQuiet
<1>3. CASE WorkerStep \/ WorkerFail \/ SpuriousWake \/ UNCHANGED vars
  <2>1. UNCHANGED <<accepted, offered, holding>>
    BY <1>3 DEF WorkerStep, WorkerStart, WorkerWait, WorkerPop, WorkerBreak, CountReport,
                SendReport, SendPacket, ReleaseBytes, PublishFrame, PublishLast, WorkerExit,
                WorkerFail, SpuriousWake, vars, clients, history
  <2>2. \A d \in Clients : InEnqueue(d)' => InEnqueue(d)
    <3>1. CASE WorkerPop \/ SpuriousWake
      <4>1. pc' = pc \/ \E c \in Clients : pc[c] = "waiting" /\ pc' = [pc EXCEPT ![c] = "woken"]
        BY <3>1 DEF WorkerPop, SpuriousWake, NotifyOneSpace, clients
      <4>. QED  BY <1>0, <4>1 DEF InEnqueue
    <3>2. CASE WorkerFail
      BY <1>0, <3>2 DEF WorkerFail, NotifyAllSpace, Woken, InEnqueue
    <3>3. CASE \/ WorkerStart \/ WorkerWait \/ WorkerBreak \/ CountReport \/ SendReport
               \/ SendPacket \/ ReleaseBytes \/ PublishFrame \/ PublishLast \/ WorkerExit
               \/ UNCHANGED vars
      <4>1. pc' = pc
        BY <3>3 DEF WorkerStart, WorkerWait, WorkerBreak, CountReport, SendReport, SendPacket,
                    ReleaseBytes, PublishFrame, PublishLast, WorkerExit, vars, clients
      <4>. QED  BY <4>1 DEF InEnqueue
    <3>. QED  BY <1>3, <3>1, <3>2, <3>3 DEF WorkerStep
  <2>. QED  BY <2>1, <2>2, UniqueQuiet
<1>. QED  BY <1>1, <1>2, <1>3 DEF Next, ClientCall

THEOREM UniqueInvariance == Spec => []UniqueInv
<1>1. Init => UniqueInv
  BY DEF Init, UniqueInv, InEnqueue, Fresh
<1>2. TypeInv /\ UniqueInv /\ [Next]_vars => UniqueInv'
  BY UniqueStep
<1>. QED  BY <1>1, <1>2, TypeInvariance, PTL DEF Spec

-----------------------------------------------------------------------------
(* The refinement *)

LEMMA HandoffFromEnqueue ==
  ASSUME TypeInv, OrderInv, PhaseInv, UniqueInv, NEW c \in Clients, Enqueue(c) \/ Resume(c)
  PROVE  [Handoff!Next]_(Handoff!vars)
<1>1. PICK f \in Frames : (Admit(c, f) \/ Block(c, f)) /\ Fresh(f)
  BY BroughtFrame
<1>2. CASE Admit(c, f) /\ ~error /\ ~stopping
  <2>1. /\ Len(queue) < MaxQueuedFrames /\ accepted' = Append(accepted, f)
        /\ UNCHANGED <<stopping, error, finished>>
        /\ wpc' = wpc \/ (wpc = "waiting" /\ wpc' = "dequeue")
    BY <1>2 DEF Admit, MayProceed, HasSpace, NotifyReady
  <2>2. HandoffStatus = "open" /\ HandoffStatus' = "open"
    BY <1>2, <2>1 DEF HandoffStatus, PhaseInv
  <2>3. Len(accepted) - Len(finished) < MaxQueuedFrames + 1
    <3>1. /\ Len(queue) \in Nat /\ Len(finished) \in Nat /\ Len(accepted) \in Nat
          /\ MaxQueuedFrames \in Nat
      BY LenProperties, ConstantsAssumption DEF TypeInv, TypeOK, ConstantsAssumption
    <3>. QED  BY <2>1, <3>1 DEF OrderInv, Held
  <2>4. \A i \in DOMAIN accepted : accepted[i] # f
    BY <1>1, SMTT(60) DEF Fresh, TypeInv, TypeOK
  <2>. QED  BY <2>1, <2>2, <2>3, <2>4 DEF Handoff!Next, Handoff!Accept
<1>3. CASE (Admit(c, f) /\ (error \/ stopping)) \/ Block(c, f)
  BY <1>3 DEF Admit, Block, Handoff!vars, HandoffStatus, shared, worker
<1>. QED  BY <1>1, <1>2, <1>3

LEMMA HandoffFromWorker ==
  ASSUME TypeInv, OrderInv, PhaseInv, WorkerStep \/ WorkerFail \/ SpuriousWake
  PROVE  [Handoff!Next]_(Handoff!vars)
<1>1. CASE ReleaseBytes
  <2>1. /\ wpc = "packets" /\ wpc' = "publish" /\ finished' = Append(finished, current)
        /\ UNCHANGED <<accepted, stopping, error>>
    BY <1>1 DEF ReleaseBytes
  <2>2. ~error /\ current # NoFrame
    BY <2>1, ConstantsAssumption DEF PhaseInv, TypeInv, InHand, ConstantsAssumption
  <2>3. HandoffStatus \in {"open", "closing"} /\ HandoffStatus' = HandoffStatus
    BY <2>1, <2>2 DEF HandoffStatus
  <2>4. Len(finished) < Len(accepted) /\ accepted[Len(finished) + 1] = current
    <3>1. Len(queue) \in Nat /\ Len(finished) \in Nat /\ Len(accepted) \in Nat
      BY LenProperties DEF TypeInv, TypeOK
    <3>. QED  BY <2>2, <3>1 DEF OrderInv, Held
  <2>. QED  BY <2>1, <2>3, <2>4 DEF Handoff!Next, Handoff!Deliver
<1>2. CASE WorkerExit
  <2>1. /\ wpc = "pcap" /\ wpc' = "exited"
        /\ UNCHANGED <<accepted, finished, stopping, error>>
    BY <1>2 DEF WorkerExit, shared, history
  <2>2. ~error /\ stopping /\ queue = <<>> /\ current = NoFrame
    BY <2>1 DEF PhaseInv, TypeInv, InHand
  <2>3. HandoffStatus = "closing" /\ HandoffStatus' = "drained"
    BY <2>1, <2>2 DEF HandoffStatus
  <2>4. finished = accepted
    <3>1. /\ accepted \in Seq(Frames) /\ finished \in Seq(Frames)
          /\ Len(accepted) \in Nat /\ Len(finished) \in Nat
      BY LenProperties DEF TypeInv, TypeOK
    <3>2. /\ Len(accepted) = Len(finished)
          /\ \A i \in 1 .. Len(finished) : finished[i] = accepted[i]
      BY <2>2, <3>1 DEF OrderInv, Held
    <3>. QED  BY <3>1, <3>2, SeqEqual
  <2>. QED  BY <2>1, <2>3, <2>4 DEF Handoff!Next, Handoff!Drained
<1>3. CASE WorkerFail
  <2>1. wpc # "exited" /\ ~error /\ error' = TRUE /\ UNCHANGED <<accepted, finished>>
    BY <1>3 DEF WorkerFail, MayThrow, PhaseInv, history
  <2>2. HandoffStatus \in {"open", "closing"} /\ HandoffStatus' = "failed"
    BY <2>1 DEF HandoffStatus
  <2>. QED  BY <2>1, <2>2 DEF Handoff!Next, Handoff!Fail
<1>4. CASE \/ WorkerStart \/ WorkerWait \/ WorkerPop \/ WorkerBreak \/ CountReport
           \/ SendReport \/ SendPacket \/ PublishFrame \/ PublishLast \/ SpuriousWake
  <2>1. UNCHANGED <<accepted, finished, stopping, error>>
    BY <1>4 DEF WorkerStart, WorkerWait, WorkerPop, WorkerBreak, CountReport, SendReport,
                SendPacket, PublishFrame, PublishLast, SpuriousWake, shared, history
  <2>2. wpc' = wpc \/ (wpc # "exited" /\ wpc' # "exited")
    BY <1>4 DEF WorkerStart, WorkerWait, WorkerPop, WorkerBreak, CountReport, SendReport,
                SendPacket, PublishFrame, PublishLast, SpuriousWake, worker
  <2>. QED  BY <2>1, <2>2 DEF Handoff!vars, HandoffStatus
<1>. QED  BY <1>1, <1>2, <1>3, <1>4 DEF WorkerStep

LEMMA HandoffFromCall ==
  ASSUME PhaseInv, NEW c \in Clients,
         CloseFirst(c) \/ CloseAgain(c) \/ ReadStats(c) \/ CloseJoined(c)
  PROVE  [Handoff!Next]_(Handoff!vars)
<1>1. CASE CloseFirst(c)
  <2>1. /\ stopping' = TRUE /\ UNCHANGED <<error, accepted, finished>>
        /\ wpc' = wpc \/ (wpc = "waiting" /\ wpc' = "dequeue")
    BY <1>1 DEF CloseFirst, NotifyReady, history
  <2>2. CASE stopping
    BY <2>1, <2>2 DEF Handoff!vars, HandoffStatus
  <2>3. CASE ~stopping
    <3>1. wpc # "exited" /\ ~error
      BY <2>3 DEF PhaseInv
    <3>2. HandoffStatus = "open" /\ HandoffStatus' = "closing"
      BY <2>1, <2>3, <3>1 DEF HandoffStatus
    <3>. QED  BY <2>1, <3>2 DEF Handoff!Next, Handoff!Close
  <2>. QED  BY <2>2, <2>3
<1>2. CASE CloseAgain(c) \/ ReadStats(c) \/ CloseJoined(c)
  BY <1>2 DEF CloseAgain, ReadStats, CloseJoined, Handoff!vars, HandoffStatus,
              shared, worker, history
<1>. QED  BY <1>1, <1>2

\* The transmitter delivers the accepted frames in order, each once, holds at
\* most one more than its queue, accepts nothing after a close or a failure and
\* drains before it ends normally (frame_transmitter.cpp, the whole class).
THEOREM HandoffRefinement == Spec => ImplementsHandoff
<1>1. Init => Handoff!Init
  BY DEF Init, Handoff!Init, HandoffStatus
<1>2. TypeInv /\ OrderInv /\ PhaseInv /\ UniqueInv /\ [Next]_vars
        => [Handoff!Next]_(Handoff!vars)
  <2>1. CASE UNCHANGED vars
    BY <2>1 DEF vars, shared, worker, history, Handoff!vars, HandoffStatus
  <2>. QED  BY <2>1, HandoffFromEnqueue, HandoffFromWorker, HandoffFromCall DEF Next, ClientCall
<1>. QED  BY <1>1, <1>2, TypeInvariance, AccountInvariance, CloseInvariance, UniqueInvariance,
             PTL DEF Spec, ImplementsHandoff, Handoff!Spec

-----------------------------------------------------------------------------
(* What is on the wire.  That a frame has one report and all its packets   *)
(* needs that no frame is accepted twice.                                  *)

Distinct == \A i, j \in 1 .. Len(accepted) : accepted[i] = accepted[j] => i = j

LEMMA DistinctStep ==
  ASSUME TypeInv, UniqueInv, Distinct, [Next]_vars
  PROVE  Distinct'
<1>1. ASSUME NEW c \in Clients, Enqueue(c) \/ Resume(c) PROVE Distinct'
  <2>1. PICK f \in Frames : (Admit(c, f) \/ Block(c, f)) /\ Fresh(f)
    BY <1>1, BroughtFrame
  <2>2. CASE accepted' = Append(accepted, f)
    <3>1. /\ Len(accepted) \in Nat /\ Len(accepted') = Len(accepted) + 1
          /\ accepted'[Len(accepted) + 1] = f
          /\ \A i \in 1 .. Len(accepted) : accepted'[i] = accepted[i]
      BY <2>2, AppendProperties, LenProperties DEF TypeInv, TypeOK
    <3>. QED  BY <2>1, <3>1 DEF Fresh, Distinct
  <2>3. CASE accepted' = accepted
    BY <2>3 DEF Distinct
  <2>. QED  BY <2>1, <2>2, <2>3 DEF Admit, Block
<1>2. ASSUME NEW c \in Clients,
             CloseFirst(c) \/ CloseAgain(c) \/ ReadStats(c) \/ CloseJoined(c)
      PROVE  Distinct'
  BY <1>2 DEF CloseFirst, CloseAgain, ReadStats, CloseJoined, history, Distinct
<1>3. CASE WorkerStep \/ WorkerFail \/ SpuriousWake \/ UNCHANGED vars
  BY <1>3 DEF WorkerStep, WorkerStart, WorkerWait, WorkerPop, WorkerBreak, CountReport,
              SendReport, SendPacket, ReleaseBytes, PublishFrame, PublishLast, WorkerExit,
              WorkerFail, SpuriousWake, vars, history, Distinct
<1>. QED  BY <1>1, <1>2, <1>3 DEF Next, ClientCall

\* What a step may do to the wire and to the frame in the worker's hands.
TakesFrame ==
    /\ wpc = "dequeue" /\ wpc' = "prepare" /\ queue # <<>>
    /\ current' = Head(queue) /\ sent' = 0
    /\ UNCHANGED <<wire, counts, finished>>

PutsReport ==
    /\ wpc = "prepare" /\ wpc' = "report"
    /\ wire' = Append(wire, [kind |-> "sr", frame |-> current, count |-> counts.packets])
    /\ UNCHANGED <<counts, sent, current, finished>>

PutsPacket ==
    /\ wpc = "packets" /\ wpc' = "packets" /\ sent < Packets[current]
    /\ sent' = sent + 1
    /\ wire' = Append(wire, [kind |-> "rtp", frame |-> current, count |-> sent + 1])
    /\ counts'.packets = counts.packets + 1
    /\ UNCHANGED <<current, finished>>

FinishesFrame ==
    /\ wpc = "packets" /\ wpc' = "publish" /\ sent = Packets[current]
    /\ finished' = Append(finished, current) /\ current' = NoFrame
    /\ counts'.packets = counts.packets
    /\ UNCHANGED <<wire, sent>>

LeavesWire ==
    /\ \/ wpc' = wpc
       \/ wpc = "report" /\ wpc' = "packets"
       \/ wpc' \notin {"prepare", "report", "packets"}
    /\ counts'.packets = counts.packets
    /\ UNCHANGED <<wire, sent, current, finished>>

LEMMA WireSteps ==
  ASSUME TypeInv, [Next]_vars
  PROVE  TakesFrame \/ PutsReport \/ PutsPacket \/ FinishesFrame \/ LeavesWire
<1>0. counts \in [frames : Nat, packets : Nat, reports : Nat]
  BY DEF TypeInv, TypeOK
<1>1. CASE WorkerPop
  BY <1>1 DEF WorkerPop, Front, history, TakesFrame
<1>2. CASE SendReport
  BY <1>2 DEF SendReport, PutsReport
<1>3. CASE SendPacket
  BY <1>0, <1>3 DEF SendPacket, PutsPacket
<1>4. CASE ReleaseBytes
  BY <1>0, <1>4 DEF ReleaseBytes, FinishesFrame
<1>5. CASE CountReport
  BY <1>0, <1>5 DEF CountReport, history, LeavesWire
<1>6. CASE \/ WorkerStart \/ WorkerWait \/ WorkerBreak \/ PublishFrame \/ PublishLast
           \/ WorkerExit \/ WorkerFail \/ SpuriousWake \/ UNCHANGED vars
  BY <1>6 DEF WorkerStart, WorkerWait, WorkerBreak, PublishFrame, PublishLast, WorkerExit,
              WorkerFail, SpuriousWake, vars, worker, history, LeavesWire
<1>7. ASSUME NEW c \in Clients, Enqueue(c) \/ Resume(c) PROVE LeavesWire
  <2>1. PICK f : Admit(c, f) \/ Block(c, f)
    BY <1>7 DEF Enqueue, Resume
  <2>. QED  BY <2>1 DEF Admit, Block, NotifyReady, worker, LeavesWire
<1>8. ASSUME NEW c \in Clients,
             CloseFirst(c) \/ CloseAgain(c) \/ ReadStats(c) \/ CloseJoined(c)
      PROVE  LeavesWire
  BY <1>8 DEF CloseFirst, CloseAgain, ReadStats, CloseJoined, NotifyReady, worker, history,
              LeavesWire
<1>. QED  BY <1>1, <1>2, <1>3, <1>4, <1>5, <1>6, <1>7, <1>8 DEF Next, WorkerStep, ClientCall

\* The places on a wire of a frame's datagrams of one kind.
Places(w, kind, f) == {i \in DOMAIN w : w[i].kind = kind /\ w[i].frame = f}
Rtps(w, n) == {j \in 1 .. n : w[j].kind = "rtp"}

LEMMA FiniteInterval == ASSUME NEW n \in Nat PROVE IsFiniteSet(1 .. n)
<1>1. 1 \in Int /\ n \in Int
  OBVIOUS
<1>. QED  BY <1>1, FS_Interval

LEMMA AppendedPlaces ==
  ASSUME NEW w \in Seq(Datagrams), NEW d \in Datagrams, NEW kind, NEW f
  PROVE  /\ Cardinality(Places(w, kind, f)) \in Nat
         /\ Cardinality(Places(Append(w, d), kind, f)) =
              Cardinality(Places(w, kind, f)) + (IF d.kind = kind /\ d.frame = f THEN 1 ELSE 0)
<1> DEFINE v == Append(w, d)
<1>1. /\ Len(w) \in Nat /\ DOMAIN w = 1 .. Len(w)
      /\ v \in Seq(Datagrams) /\ Len(v) = Len(w) + 1 /\ DOMAIN v = 1 .. Len(w) + 1
      /\ \A i \in 1 .. Len(w) : v[i] = w[i]
      /\ v[Len(w) + 1] = d
  BY AppendProperties, LenProperties
<1> HIDE DEF v
<1>2. /\ IsFiniteSet(Places(w, kind, f)) /\ Len(w) + 1 \notin Places(w, kind, f)
      /\ Cardinality(Places(w, kind, f)) \in Nat
  <2>1. Places(w, kind, f) \in SUBSET (1 .. Len(w)) /\ Len(w) + 1 \notin 1 .. Len(w)
    BY <1>1 DEF Places
  <2>2. IsFiniteSet(1 .. Len(w))
    BY <1>1, FiniteInterval
  <2>3. IsFiniteSet(Places(w, kind, f))
    BY <2>1, <2>2, FS_Subset
  <2>. QED  BY <2>1, <2>3, FS_CardinalityType
<1>3. CASE d.kind = kind /\ d.frame = f
  <2>1. Places(v, kind, f) = Places(w, kind, f) \cup {Len(w) + 1}
    BY <1>1, <1>3 DEF Places
  <2>2. Cardinality(Places(w, kind, f) \cup {Len(w) + 1}) = Cardinality(Places(w, kind, f)) + 1
    BY <1>2, FS_AddElement
  <2>. QED  BY <1>2, <1>3, <2>1, <2>2 DEF v
<1>4. CASE ~(d.kind = kind /\ d.frame = f)
  <2>1. Places(v, kind, f) = Places(w, kind, f)
    BY <1>1, <1>4 DEF Places
  <2>. QED  BY <1>2, <1>4, <2>1 DEF v
<1>. QED  BY <1>2, <1>3, <1>4

LEMMA AppendedRtps ==
  ASSUME NEW w \in Seq(Datagrams), NEW d \in Datagrams
  PROVE  /\ Cardinality(Rtps(w, Len(w))) \in Nat
         /\ \A n \in 0 .. Len(w) : Rtps(Append(w, d), n) = Rtps(w, n)
         /\ Cardinality(Rtps(Append(w, d), Len(w) + 1)) =
              Cardinality(Rtps(w, Len(w))) + (IF d.kind = "rtp" THEN 1 ELSE 0)
<1> DEFINE v == Append(w, d)
<1>1. /\ Len(w) \in Nat
      /\ \A i \in 1 .. Len(w) : v[i] = w[i]
      /\ v[Len(w) + 1] = d
  BY AppendProperties, LenProperties
<1> HIDE DEF v
<1>2. /\ IsFiniteSet(Rtps(w, Len(w))) /\ Len(w) + 1 \notin Rtps(w, Len(w))
      /\ Cardinality(Rtps(w, Len(w))) \in Nat
  <2>1. Rtps(w, Len(w)) \in SUBSET (1 .. Len(w)) /\ Len(w) + 1 \notin 1 .. Len(w)
    BY <1>1 DEF Rtps
  <2>2. IsFiniteSet(1 .. Len(w))
    BY <1>1, FiniteInterval
  <2>3. IsFiniteSet(Rtps(w, Len(w)))
    BY <2>1, <2>2, FS_Subset
  <2>. QED  BY <2>1, <2>3, FS_CardinalityType
<1>3. \A n \in 0 .. Len(w) : Rtps(v, n) = Rtps(w, n)
  BY <1>1 DEF Rtps
<1>4. CASE d.kind = "rtp"
  <2>1. Rtps(v, Len(w) + 1) = Rtps(w, Len(w)) \cup {Len(w) + 1}
    BY <1>1, <1>4 DEF Rtps
  <2>. QED  BY <1>2, <1>3, <1>4, <2>1, FS_AddElement DEF v
<1>5. CASE d.kind # "rtp"
  <2>1. Rtps(v, Len(w) + 1) = Rtps(w, Len(w))
    BY <1>1, <1>5 DEF Rtps
  <2>. QED  BY <1>2, <1>3, <1>5, <2>1 DEF v
<1>. QED  BY <1>2, <1>4, <1>5

\* The worker's counter is the number of packets on the wire.
CountInv ==
    /\ counts.packets = Cardinality(Rtps(wire, Len(wire)))
    /\ ReportCountsMatchWire

LEMMA CountStep ==
  ASSUME TypeInv, CountInv, [Next]_vars
  PROVE  CountInv'
<1>0. wire \in Seq(Datagrams) /\ Len(wire) \in Nat /\ DOMAIN wire = 1 .. Len(wire)
  BY LenProperties DEF TypeInv, TypeOK, Datagrams
<1>1. CASE UNCHANGED wire /\ counts'.packets = counts.packets
  BY <1>1 DEF CountInv, ReportCountsMatchWire, RtpBefore
<1>2. ASSUME NEW d \in Datagrams, wire' = Append(wire, d),
             d.kind = "sr" => d.count = counts.packets,
             counts'.packets = counts.packets + (IF d.kind = "rtp" THEN 1 ELSE 0)
      PROVE  CountInv'
  <2>1. /\ Len(wire') = Len(wire) + 1 /\ DOMAIN wire' = 1 .. Len(wire) + 1
        /\ \A i \in 1 .. Len(wire) : wire'[i] = wire[i]
        /\ wire'[Len(wire) + 1] = d
    BY <1>0, <1>2, AppendProperties, LenProperties
  <2>2. /\ Cardinality(Rtps(wire', Len(wire) + 1)) =
             Cardinality(Rtps(wire, Len(wire))) + (IF d.kind = "rtp" THEN 1 ELSE 0)
        /\ \A n \in 0 .. Len(wire) : Rtps(wire', n) = Rtps(wire, n)
    BY <1>0, <1>2, AppendedRtps
  <2>3. counts'.packets = Cardinality(Rtps(wire', Len(wire')))
    BY <1>2, <2>1, <2>2 DEF CountInv
  <2>4. ASSUME NEW i \in DOMAIN wire', wire'[i].kind = "sr"
        PROVE  wire'[i].count = Cardinality(Rtps(wire', i - 1))
    <3>1. CASE i = Len(wire) + 1
      BY <1>0, <1>2, <2>1, <2>2, <2>4, <3>1 DEF CountInv
    <3>2. CASE i \in 1 .. Len(wire)
      <4>1. Rtps(wire', i - 1) = Rtps(wire, i - 1)
        BY <1>0, <2>2, <3>2
      <4>2. wire[i].count = Cardinality(Rtps(wire, i - 1))
        BY <1>0, <2>1, <2>4, <3>2 DEF CountInv, ReportCountsMatchWire, RtpBefore, Rtps
      <4>. QED  BY <2>1, <3>2, <4>1, <4>2
    <3>. QED  BY <1>0, <2>1, <3>1, <3>2
  <2>. QED  BY <2>3, <2>4 DEF CountInv, ReportCountsMatchWire, RtpBefore, Rtps
<1>3. CASE PutsReport
  <2> DEFINE d == [kind |-> "sr", frame |-> current, count |-> counts.packets]
  <2>1. d \in Datagrams /\ counts.packets \in Nat
    BY <1>3 DEF PutsReport, TypeInv, TypeOK, InHand, Datagrams
  <2>2. wire' = Append(wire, d) /\ counts' = counts
    BY <1>3 DEF PutsReport
  <2>3. counts'.packets = counts.packets + (IF d.kind = "rtp" THEN 1 ELSE 0)
    BY <2>1, <2>2
  <2>. QED  BY <1>2, <2>1, <2>2, <2>3
<1>4. CASE PutsPacket
  <2> DEFINE d == [kind |-> "rtp", frame |-> current, count |-> sent + 1]
  <2>1. d \in Datagrams
    BY <1>4 DEF PutsPacket, TypeInv, TypeOK, InHand, Datagrams
  <2>2. wire' = Append(wire, d) /\ counts'.packets = counts.packets + 1
    BY <1>4 DEF PutsPacket
  <2>. QED  BY <1>2, <2>1, <2>2
<1>. QED  BY <1>1, <1>3, <1>4, WireSteps DEF TakesFrame, FinishesFrame, LeavesWire

\* A sender report states exactly the packets sent before it
\* (frame_transmitter.cpp, the packet count of the report).
THEOREM ReportCountsMatchWireHolds == Spec => []ReportCountsMatchWire
<1>1. Init => CountInv
  <2> SUFFICES ASSUME Init PROVE CountInv
    OBVIOUS
  <2>1. Rtps(wire, Len(wire)) = {} /\ DOMAIN wire = {} /\ counts.packets = 0
    BY EmptySeq DEF Init, Rtps
  <2>. QED  BY <2>1, FS_EmptySet DEF CountInv, ReportCountsMatchWire
<1>2. TypeInv /\ CountInv /\ [Next]_vars => CountInv'
  BY CountStep
<1>3. CountInv => ReportCountsMatchWire
  BY DEF CountInv
<1>. QED  BY <1>1, <1>2, <1>3, TypeInvariance, PTL DEF Spec

-----------------------------------------------------------------------------
\* The datagrams of a frame follow each other, and the last one on the wire is
\* where the worker is.
Follows(w, i) ==
    w[i].kind = "rtp" =>
       /\ i > 1
       /\ w[i - 1].frame = w[i].frame
       /\ \/ w[i].count = 1 /\ w[i - 1].kind = "sr"
          \/ w[i - 1].kind = "rtp" /\ w[i].count = w[i - 1].count + 1

LastIs(kind, f) == Len(wire) > 0 /\ wire[Len(wire)].kind = kind /\ wire[Len(wire)].frame = f

LeadInv ==
    /\ \A i \in DOMAIN wire : Follows(wire, i)
    /\ wpc \in {"prepare", "report"} => sent = 0
    /\ wpc \in {"report", "packets"} =>
          IF sent = 0 THEN LastIs("sr", current)
          ELSE LastIs("rtp", current) /\ wire[Len(wire)].count = sent

LEMMA LeadStep ==
  ASSUME TypeInv, LeadInv, [Next]_vars
  PROVE  LeadInv'
<1>0. /\ wire \in Seq(Datagrams) /\ Len(wire) \in Nat /\ DOMAIN wire = 1 .. Len(wire)
      /\ sent \in Nat
  BY LenProperties DEF TypeInv, TypeOK, Datagrams
<1>1. CASE LeavesWire \/ FinishesFrame \/ TakesFrame
  <2>1. \A i \in DOMAIN wire' : Follows(wire', i)
    BY <1>1 DEF LeadInv, LeavesWire, FinishesFrame, TakesFrame
  <2>. QED  BY <1>1, <2>1 DEF LeadInv, LastIs, LeavesWire, FinishesFrame, TakesFrame
<1>2. ASSUME NEW d \in Datagrams, wire' = Append(wire, d),
             d.kind = "rtp" => /\ Len(wire) > 0 /\ wire[Len(wire)].frame = d.frame
                               /\ \/ d.count = 1 /\ wire[Len(wire)].kind = "sr"
                                  \/ /\ wire[Len(wire)].kind = "rtp"
                                     /\ d.count = wire[Len(wire)].count + 1
      PROVE  /\ \A i \in DOMAIN wire' : Follows(wire', i)
             /\ Len(wire') > 0 /\ wire'[Len(wire')] = d
  <2>1. /\ Len(wire') = Len(wire) + 1 /\ DOMAIN wire' = 1 .. Len(wire) + 1
        /\ \A i \in 1 .. Len(wire) : wire'[i] = wire[i]
        /\ wire'[Len(wire) + 1] = d
    BY <1>0, <1>2, AppendProperties, LenProperties
  <2>2. ASSUME NEW i \in 1 .. Len(wire) PROVE Follows(wire', i)
    <3>1. Follows(wire, i) /\ wire'[i] = wire[i]
      BY <1>0, <2>1 DEF LeadInv
    <3>2. i > 1 => wire'[i - 1] = wire[i - 1]
      BY <1>0, <2>1
    <3>. QED  BY <3>1, <3>2 DEF Follows
  <2>3. Follows(wire', Len(wire) + 1)
    <3>1. Len(wire) > 0 => wire'[Len(wire) + 1 - 1] = wire[Len(wire)]
      BY <1>0, <2>1
    <3>2. Len(wire) > 0 => Len(wire) + 1 > 1
      BY <1>0
    <3>. QED  BY <1>2, <2>1, <3>1, <3>2 DEF Follows
  <2>. QED  BY <1>0, <2>1, <2>2, <2>3
<1>3. CASE PutsReport
  <2> DEFINE d == [kind |-> "sr", frame |-> current, count |-> counts.packets]
  <2>1. d \in Datagrams
    BY <1>3 DEF PutsReport, TypeInv, TypeOK, InHand, Datagrams
  <2>2. wire' = Append(wire, d) /\ d.kind = "sr" /\ d.frame = current
    BY <1>3 DEF PutsReport
  <2>3. /\ \A i \in DOMAIN wire' : Follows(wire', i)
        /\ Len(wire') > 0 /\ wire'[Len(wire')] = d
    <3> HIDE DEF d
    <3>. QED  BY <1>2, <2>1, <2>2
  <2>. QED  BY <1>3, <2>3 DEF PutsReport, LeadInv, LastIs
<1>4. CASE PutsPacket
  <2> DEFINE d == [kind |-> "rtp", frame |-> current, count |-> sent + 1]
  <2>1. d \in Datagrams
    BY <1>4 DEF PutsPacket, TypeInv, TypeOK, InHand, Datagrams
  <2>2. wire' = Append(wire, d) /\ d.kind = "rtp" /\ d.frame = current /\ d.count = sent + 1
    BY <1>4 DEF PutsPacket
  <2>3. /\ Len(wire) > 0 /\ wire[Len(wire)].frame = current
        /\ \/ sent = 0 /\ wire[Len(wire)].kind = "sr"
           \/ wire[Len(wire)].kind = "rtp" /\ wire[Len(wire)].count = sent
    BY <1>4 DEF PutsPacket, LeadInv, LastIs
  <2>4. /\ \A i \in DOMAIN wire' : Follows(wire', i)
        /\ Len(wire') > 0 /\ wire'[Len(wire')] = d
    <3> HIDE DEF d
    <3>1. sent = 0 => d.count = 1
      BY <2>2
    <3>. QED  BY <1>2, <2>1, <2>2, <2>3, <3>1
  <2>. QED  BY <1>0, <1>4, <2>4 DEF PutsPacket, LeadInv, LastIs
<1>. QED  BY <1>1, <1>3, <1>4, WireSteps

\* Every datagram belongs to a finished frame or to the one in hand, and each of
\* these has the datagrams the worker has sent for it.
Among(s, f) == \E k \in 1 .. Len(s) : s[k] = f

TallyInv ==
    /\ \A i \in DOMAIN wire : wire[i].frame = current \/ Among(finished, wire[i].frame)
    /\ wpc = "prepare" => \A i \in DOMAIN wire : wire[i].frame # current
    /\ wpc \in {"report", "packets"} =>
          /\ Cardinality(Places(wire, "sr", current)) = 1
          /\ Cardinality(Places(wire, "rtp", current)) = sent
    /\ \A k \in 1 .. Len(finished) :
          /\ Cardinality(Places(wire, "sr", finished[k])) = 1
          /\ Cardinality(Places(wire, "rtp", finished[k])) = Packets[finished[k]]

\* The frame at hand, or at the head of the queue, is not a finished one.
LEMMA NotFinished ==
  ASSUME TypeInv, OrderInv, Distinct
  PROVE  /\ current # NoFrame => ~Among(finished, current)
         /\ queue # <<>> => ~Among(finished, Head(queue)) /\ Head(queue) \in Frames
<1>0. /\ Len(accepted) \in Nat /\ Len(finished) \in Nat /\ Len(queue) \in Nat
      /\ queue \in Seq(Frames) /\ Held \in {0, 1}
  BY LenProperties DEF TypeInv, TypeOK, Held
<1>1. ASSUME NEW n \in Len(finished) + 1 .. Len(accepted) PROVE ~Among(finished, accepted[n])
  <2>1. n \in 1 .. Len(accepted) /\ \A k \in 1 .. Len(finished) : k \in 1 .. Len(accepted) /\ k # n
    BY <1>0
  <2>. QED  BY <2>1 DEF Among, OrderInv, Distinct
<1>2. current # NoFrame => ~Among(finished, current)
  BY <1>0, <1>1 DEF OrderInv, Held
<1>3. ASSUME queue # <<>> PROVE ~Among(finished, Head(queue)) /\ Head(queue) \in Frames
  <2>1. /\ Len(queue) >= 1 /\ Head(queue) = queue[1] /\ Head(queue) \in Frames
    BY <1>0, <1>3, EmptySeq, HeadTailProperties
  <2>2. Head(queue) = accepted[Len(finished) + Held + 1]
    BY <1>0, <2>1 DEF OrderInv
  <2>3. Len(finished) + Held + 1 \in Len(finished) + 1 .. Len(accepted)
    BY <1>0, <2>1 DEF OrderInv
  <2>. QED  BY <1>1, <2>1, <2>2, <2>3
<1>. QED  BY <1>2, <1>3

LEMMA TallyStep ==
  ASSUME TypeInv, OrderInv, Distinct, TallyInv, LeadInv, [Next]_vars
  PROVE  TallyInv'
<1>0. /\ wire \in Seq(Datagrams) /\ Len(wire) \in Nat /\ DOMAIN wire = 1 .. Len(wire)
      /\ sent \in Nat /\ NoFrame \notin Frames
      /\ finished \in Seq(Frames) /\ Len(finished) \in Nat
  BY ConstantsAssumption, LenProperties DEF TypeInv, TypeOK, Datagrams, ConstantsAssumption
<1>1. CASE LeavesWire
  <2>1. /\ UNCHANGED <<wire, sent, current, finished>>
        /\ wpc' = "prepare" => wpc = "prepare"
        /\ wpc' \in {"report", "packets"} => wpc \in {"report", "packets"}
    BY <1>1 DEF LeavesWire
  <2>. QED  BY <2>1 DEF TallyInv, Among
<1>2. CASE TakesFrame
  <2>1. /\ wpc' = "prepare" /\ current' = Head(queue) /\ queue # <<>>
        /\ UNCHANGED <<wire, finished>>
    BY <1>2 DEF TakesFrame
  <2>2. \A i \in DOMAIN wire : wire[i].frame \in Frames
    <3>1. \A i \in DOMAIN wire : wire[i] \in Datagrams
      BY <1>0, ElementOfSeq
    <3>. QED  BY <3>1 DEF Datagrams
  <2>3. current = NoFrame
    BY <1>2 DEF TakesFrame, TypeInv, InHand
  <2>4. \A i \in DOMAIN wire : Among(finished, wire[i].frame)
    BY <1>0, <2>2, <2>3 DEF TallyInv
  <2>5. \A i \in DOMAIN wire : wire[i].frame # Head(queue)
    BY <2>1, <2>4, NotFinished
  <2>. QED  BY <2>1, <2>4, <2>5 DEF TallyInv, Among
<1>3. CASE FinishesFrame
  <2>1. /\ wpc = "packets" /\ wpc' = "publish" /\ sent = Packets[current]
        /\ finished' = Append(finished, current) /\ UNCHANGED wire
        /\ current \in Frames
    BY <1>3 DEF FinishesFrame, TypeInv, InHand
  <2>2. /\ Len(finished') = Len(finished) + 1
        /\ \A k \in 1 .. Len(finished) : finished'[k] = finished[k]
        /\ finished'[Len(finished) + 1] = current
    BY <1>0, <2>1, AppendProperties
  <2>3. \A f : Among(finished, f) \/ f = current => Among(finished', f)
    BY <1>0, <2>2 DEF Among
  <2>4. \A i \in DOMAIN wire' : Among(finished', wire'[i].frame)
    BY <2>1, <2>3 DEF TallyInv
  <2>5. ASSUME NEW k \in 1 .. Len(finished')
        PROVE  /\ Cardinality(Places(wire', "sr", finished'[k])) = 1
               /\ Cardinality(Places(wire', "rtp", finished'[k])) = Packets[finished'[k]]
    <3>1. CASE k = Len(finished) + 1
      BY <2>1, <2>2, <3>1 DEF TallyInv
    <3>2. CASE k \in 1 .. Len(finished)
      BY <2>1, <2>2, <3>2 DEF TallyInv
    <3>. QED  BY <1>0, <2>2, <3>1, <3>2
  <2>. QED  BY <2>1, <2>4, <2>5 DEF TallyInv
<1>4. ASSUME NEW d \in Datagrams, wire' = Append(wire, d), d.frame = current,
             current # NoFrame, UNCHANGED <<current, finished>>
      PROVE  /\ \A i \in DOMAIN wire' :
                   wire'[i].frame = current' \/ Among(finished', wire'[i].frame)
             /\ \A k \in 1 .. Len(finished') :
                   /\ Cardinality(Places(wire', "sr", finished'[k])) = 1
                   /\ Cardinality(Places(wire', "rtp", finished'[k])) = Packets[finished'[k]]
  <2>1. /\ DOMAIN wire' = 1 .. Len(wire) + 1
        /\ \A i \in 1 .. Len(wire) : wire'[i] = wire[i]
        /\ wire'[Len(wire) + 1] = d
    BY <1>0, <1>4, AppendProperties, LenProperties
  <2>2. ASSUME NEW i \in DOMAIN wire'
        PROVE  wire'[i].frame = current \/ Among(finished, wire'[i].frame)
    <3>1. CASE i = Len(wire) + 1
      BY <1>4, <2>1, <3>1
    <3>2. CASE i \in 1 .. Len(wire)
      BY <1>0, <2>1, <3>2 DEF TallyInv
    <3>. QED  BY <1>0, <2>1, <3>1, <3>2
  <2>3. ASSUME NEW k \in 1 .. Len(finished), NEW kind
        PROVE  Cardinality(Places(wire', kind, finished[k])) =
                 Cardinality(Places(wire, kind, finished[k]))
    <3>1. finished[k] # current
      BY <1>4, NotFinished DEF Among
    <3>2. /\ Cardinality(Places(wire, kind, finished[k])) \in Nat
          /\ Cardinality(Places(wire', kind, finished[k])) =
               Cardinality(Places(wire, kind, finished[k])) + 0
      BY <1>0, <1>4, <3>1, AppendedPlaces
    <3>. QED  BY <3>2
  <2>. QED  BY <1>4, <2>2, <2>3, ZenonT(60) DEF TallyInv, Among
<1>5. CASE PutsReport
  <2> DEFINE d == [kind |-> "sr", frame |-> current, count |-> counts.packets]
  <2>1. /\ d \in Datagrams /\ current \in Frames /\ d.kind = "sr" /\ d.frame = current
        /\ wire' = Append(wire, d) /\ UNCHANGED <<current, finished, sent>>
        /\ wpc = "prepare" /\ wpc' = "report" /\ sent = 0
    BY <1>5 DEF PutsReport, TypeInv, TypeOK, InHand, Datagrams, LeadInv
  <2> HIDE DEF d
  <2>2. Places(wire, "sr", current) = {} /\ Places(wire, "rtp", current) = {}
    BY <2>1 DEF TallyInv, Places
  <2>3. /\ Cardinality(Places(wire', "sr", current)) = 0 + 1
        /\ Cardinality(Places(wire', "rtp", current)) = 0 + 0
    <3>1. /\ Cardinality(Places(wire', "sr", current)) = Cardinality(Places(wire, "sr", current)) + 1
          /\ Cardinality(Places(wire', "rtp", current)) = Cardinality(Places(wire, "rtp", current)) + 0
      BY <1>0, <2>1, AppendedPlaces
    <3>. QED  BY <2>2, <3>1, FS_EmptySet
  <2>. QED  BY <1>0, <1>4, <2>1, <2>3 DEF TallyInv
<1>6. CASE PutsPacket
  <2> DEFINE d == [kind |-> "rtp", frame |-> current, count |-> sent + 1]
  <2>1. /\ d \in Datagrams /\ current \in Frames /\ d.kind = "rtp" /\ d.frame = current
        /\ wire' = Append(wire, d) /\ UNCHANGED <<current, finished>> /\ sent' = sent + 1
        /\ wpc = "packets" /\ wpc' = "packets"
    BY <1>6 DEF PutsPacket, TypeInv, TypeOK, InHand, Datagrams
  <2> HIDE DEF d
  <2>2. /\ Cardinality(Places(wire', "sr", current)) = 1 + 0
        /\ Cardinality(Places(wire', "rtp", current)) = sent + 1
    BY <1>0, <2>1, AppendedPlaces DEF TallyInv
  <2>. QED  BY <1>0, <1>4, <2>1, <2>2 DEF TallyInv
<1>. QED  BY <1>1, <1>2, <1>3, <1>5, <1>6, WireSteps

\* A frame goes on the wire as its report and then its packets in order, and a
\* frame counted as sent has exactly one report and all of its packets
\* (frame_transmitter.cpp, the worker's loop).
THEOREM ReportLeadsItsFrameHolds == Spec => []ReportLeadsItsFrame
<1>1. Init => Distinct /\ LeadInv /\ TallyInv
  <2> SUFFICES ASSUME Init PROVE Distinct /\ LeadInv /\ TallyInv
    OBVIOUS
  <2>1. DOMAIN wire = {} /\ Len(finished) = 0 /\ Len(accepted) = 0 /\ wpc = "starting"
    BY EmptySeq DEF Init
  <2>. QED  BY <2>1 DEF Distinct, LeadInv, TallyInv
<1>2. TypeInv /\ UniqueInv /\ OrderInv /\ (Distinct /\ LeadInv /\ TallyInv) /\ [Next]_vars
        => (Distinct /\ LeadInv /\ TallyInv)'
  BY DistinctStep, LeadStep, TallyStep
<1>3. TypeInv /\ LeadInv /\ TallyInv => ReportLeadsItsFrame
  <2> SUFFICES ASSUME TypeInv, LeadInv, TallyInv PROVE ReportLeadsItsFrame
    OBVIOUS
  <2>1. DOMAIN finished = 1 .. Len(finished)
    BY LenProperties DEF TypeInv, TypeOK
  <2>. QED  BY <2>1 DEF LeadInv, Follows, TallyInv, Places, ReportLeadsItsFrame
<1>. QED  BY <1>1, <1>2, <1>3, TypeInvariance, AccountInvariance, UniqueInvariance, PTL DEF Spec
=============================================================================
