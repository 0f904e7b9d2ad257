------------------------- MODULE CaptureWriterProofs -------------------------
(***************************************************************************)
(* The capture loses nothing silently, and a close that returns normally   *)
(* means a complete capture, for every queue limit, stream buffer and      *)
(* number of datagrams.  Both follow from one inductive invariant: where   *)
(* every accepted datagram is (Flow), that they are numbered without gaps  *)
(* while none was dropped (Numbered), what the thread and the producer     *)
(* have agreed on when they end (Agreed), and what a normal end leaves in  *)
(* the file (Complete).                                                    *)
(***************************************************************************)
EXTENDS CaptureWriter, SequenceTheorems, TLAPS

Datagrams == Nat \ {0}

TypeOK ==
    /\ entries \in Seq(Datagrams) /\ buffer \in Seq(Datagrams)
    /\ file \in Seq(Datagrams) /\ captured \in Seq(Datagrams)
    /\ stopping \in BOOLEAN /\ error \in BOOLEAN
    /\ dropped \in Nat /\ sent \in Nat /\ entry \in Nat
    /\ wpc \in {"dequeue", "waiting", "write", "catch", "exited"}
    /\ ppc \in {"send", "capture", "close", "unwind", "closing", "unwinding", "destroy", "gone"}
    /\ outcome \in {"none", "returned", "threw"}

Bounded ==
    /\ Len(entries) <= MaxQueuedPackets
    /\ Len(buffer) <= BufferPackets

Counted ==
    /\ ppc = "capture" => sent = Len(captured) + dropped + 1
    /\ ppc \in {"send", "close", "closing"} => sent = Len(captured) + dropped

Numbered == dropped = 0 => \A i \in 1 .. Len(captured) : captured[i] = i

Flow ==
    /\ wpc = "write" <=> entry # None
    /\ wpc # "catch" /\ ~error /\ ppc # "gone" => captured = file \o buffer \o InHand \o entries

Agreed ==
    /\ error => wpc = "exited"
    /\ wpc = "exited" => error \/ (entries = <<>> /\ stopping)
    /\ ppc \in {"closing", "unwinding", "destroy", "gone"} => stopping
    /\ ppc \in {"destroy", "gone"} => wpc = "exited"
    /\ outcome # "none" => ppc \in {"destroy", "gone"}
    /\ outcome = "returned" => ~error /\ dropped = 0 /\ sent = Len(captured)

Complete ==
    outcome = "returned" /\ ppc = "gone" =>
        /\ file = Upto(captured, Len(file))
        /\ Len(captured) - Len(file) <= BufferPackets

IInv == TypeOK /\ Bounded /\ Counted /\ Numbered /\ Flow /\ Agreed /\ Complete

-----------------------------------------------------------------------------
\* What is in the thread's hands is a sequence of datagrams, the empty one
\* unless it is about to write.
LEMMA InHandType ==
    ASSUME TypeOK
    PROVE  /\ InHand \in Seq(Datagrams)
           /\ entry = None => InHand = <<>>
           /\ entry # None => InHand = <<entry>>
<1>1. entry # None => entry \in Datagrams
  BY DEF TypeOK, None, Datagrams
<1>2. <<>> \in Seq(Datagrams) /\ (entry \in Datagrams => <<entry>> \in Seq(Datagrams))
  BY EmptySeq
<1> QED
  BY <1>1, <1>2 DEF InHand

\* A sequence followed by its own beginning, cut short: what a write of the
\* stream that fails, or the last one, leaves in the file.
LEMMA CutIsPrefix ==
    ASSUME NEW f \in Seq(Datagrams), NEW b \in Seq(Datagrams), NEW k \in 0 .. Len(b)
    PROVE  /\ f \o Upto(b, k) \in Seq(Datagrams)
           /\ Len(f \o Upto(b, k)) = Len(f) + k
           /\ f \o Upto(b, k) = Upto(f \o b, Len(f) + k)
<1> DEFINE cut == f \o Upto(b, k)
<1> DEFINE all == f \o b
<1>1. /\ Len(f) \in Nat /\ Len(b) \in Nat
      /\ \A i \in 1 .. k : b[i] \in Datagrams
  BY LenProperties, ElementOfSeq
<1>2. /\ Upto(b, k) \in Seq(Datagrams)
      /\ Len(Upto(b, k)) = k
      /\ \A i \in 1 .. k : Upto(b, k)[i] = b[i]
  <2>1. /\ SubSeq(b, 1, k) \in Seq(Datagrams)
        /\ Len(SubSeq(b, 1, k)) = IF 1 <= k THEN k - 1 + 1 ELSE 0
        /\ \A i \in 1 .. k - 1 + 1 : SubSeq(b, 1, k)[i] = b[1 + i - 1]
    BY <1>1, SubSeqProperties
  <2> QED
    BY <1>1, <2>1 DEF Upto
<1>3. /\ cut \in Seq(Datagrams)
      /\ Len(cut) = Len(f) + k
      /\ \A i \in 1 .. Len(f) + k : cut[i] = IF i <= Len(f) THEN f[i] ELSE b[i - Len(f)]
  <2>1. /\ cut \in Seq(Datagrams)
        /\ Len(cut) = Len(f) + k
        /\ \A i \in 1 .. Len(f) + k :
              cut[i] = IF i <= Len(f) THEN f[i] ELSE Upto(b, k)[i - Len(f)]
    <3> DEFINE u == Upto(b, k)
    <3>1. u \in Seq(Datagrams) /\ Len(u) = k
      BY <1>2
    <3> HIDE DEF u
    <3>2. /\ f \o u \in Seq(Datagrams)
          /\ Len(f \o u) = Len(f) + Len(u)
          /\ \A i \in 1 .. Len(f) + Len(u) :
                (f \o u)[i] = IF i <= Len(f) THEN f[i] ELSE u[i - Len(f)]
      BY <3>1, ConcatProperties
    <3> QED
      BY <3>1, <3>2 DEF u
  <2> HIDE DEF cut
  <2> QED
    BY <1>1, <1>2, <2>1
<1>4. /\ all \in Seq(Datagrams)
      /\ Len(all) = Len(f) + Len(b)
      /\ \A i \in 1 .. Len(f) + Len(b) : all[i] = IF i <= Len(f) THEN f[i] ELSE b[i - Len(f)]
  BY ConcatProperties
<1> HIDE DEF cut, all
<1>5. /\ Upto(all, Len(f) + k) \in Seq(Datagrams)
      /\ Len(Upto(all, Len(f) + k)) = Len(f) + k
      /\ \A i \in 1 .. Len(f) + k : Upto(all, Len(f) + k)[i] = all[i]
  <2>1. \A i \in 1 .. Len(f) + k : all[i] \in Datagrams
    BY <1>1, <1>4, ElementOfSeq
  <2>2. /\ SubSeq(all, 1, Len(f) + k) \in Seq(Datagrams)
        /\ Len(SubSeq(all, 1, Len(f) + k)) = IF 1 <= Len(f) + k THEN Len(f) + k - 1 + 1 ELSE 0
        /\ \A i \in 1 .. Len(f) + k - 1 + 1 : SubSeq(all, 1, Len(f) + k)[i] = all[1 + i - 1]
    BY <1>1, <2>1, SubSeqProperties
  <2> QED
    BY <1>1, <2>2 DEF Upto
<1>6. cut = Upto(all, Len(f) + k)
  <2>1. \A i \in 1 .. Len(cut) : cut[i] = Upto(all, Len(f) + k)[i]
    BY <1>1, <1>3, <1>4, <1>5, SMTT(60)
  <2> QED
    BY <1>3, <1>5, <2>1, SeqEqual
<1> QED
  BY <1>3, <1>6 DEF cut, all

-----------------------------------------------------------------------------
LEMMA InitIInv == Init => IInv
<1> SUFFICES ASSUME Init PROVE IInv
  OBVIOUS
<1>1. TypeOK /\ Bounded
  <2>1. <<>> \in Seq(Datagrams) /\ Len(<<>>) = 0
    BY EmptySeq
  <2>2. stopping \in BOOLEAN /\ error \in BOOLEAN
    BY DEF Init
  <2>3. 0 \in Nat /\ 0 <= MaxQueuedPackets /\ 0 <= BufferPackets
    BY CaptureAssumption
  <2>4. TypeOK
    BY <2>1, <2>2, <2>3 DEF Init, TypeOK, None
  <2> QED
    BY <2>1, <2>3, <2>4 DEF Init, Bounded
<1>2. Flow
  <2>1. <<>> = <<>> \o <<>> \o <<>> \o <<>>
    BY EmptySeq, ConcatEmptySeq
  <2> QED
    BY <2>1 DEF Init, Flow, InHand, None
<1>3. Counted /\ Numbered /\ Agreed /\ Complete
  BY EmptySeq DEF Init, Counted, Numbered, Agreed, Complete
<1> QED
  BY <1>1, <1>2, <1>3 DEF IInv

\* The steps that leave every sequence of datagrams alone.
Quiet ==
    \/ SendDatagram \/ ProducerFail \/ EnqueueThrows \/ EnqueueDrops \/ LoopEnds
    \/ CloseBegins \/ WriterWait \/ WriterBreak \/ WriterCatch \/ SpuriousWake

LEMMA QuietKeepsIInv == ASSUME IInv, Quiet PROVE IInv'
<1> USE DEF IInv
<1>1. UNCHANGED <<entries, buffer, file, captured, entry, outcome>>
  BY DEF Quiet, SendDatagram, ProducerFail, EnqueueThrows, EnqueueDrops, LoopEnds, CloseBegins,
         WriterWait, WriterBreak, WriterCatch, SpuriousWake, shared, thread, stream, producer
<1>2. TypeOK'
  <2>1. stopping' \in {stopping, TRUE} /\ error' \in {error, TRUE}
    BY DEF Quiet, SendDatagram, ProducerFail, EnqueueThrows, EnqueueDrops, LoopEnds,
         CloseBegins, WriterWait, WriterBreak, WriterCatch, SpuriousWake,
         shared, thread, stream, producer
  <2>2. sent' \in {sent, sent + 1} /\ dropped' \in {dropped, dropped + 1}
    BY DEF Quiet, SendDatagram, ProducerFail, EnqueueThrows, EnqueueDrops, LoopEnds,
         CloseBegins, WriterWait, WriterBreak, WriterCatch, SpuriousWake,
         Dropped, shared, thread, stream, producer
  <2>3. /\ wpc' \in {"dequeue", "waiting", "write", "catch", "exited"}
        /\ ppc' \in {"send", "capture", "close", "unwind", "closing", "unwinding",
                     "destroy", "gone"}
    BY DEF TypeOK, Quiet, SendDatagram, ProducerFail, EnqueueThrows, EnqueueDrops, LoopEnds,
         CloseBegins, WriterWait, WriterBreak, WriterCatch, SpuriousWake,
         NotifyReady, shared, thread, stream, producer
  <2>4. stopping' \in BOOLEAN /\ error' \in BOOLEAN
    BY <2>1 DEF TypeOK
  <2>5. sent' \in Nat /\ dropped' \in Nat
    BY <2>2 DEF TypeOK
  <2> QED
    BY <1>1, <2>3, <2>4, <2>5 DEF TypeOK
<1>3. Bounded'
  BY <1>1 DEF Bounded
<1>4. Len(captured) \in Nat
  BY LenProperties DEF TypeOK
<1>5. Counted'
  BY <1>1, <1>4 DEF TypeOK, Counted, Quiet, SendDatagram, ProducerFail, EnqueueThrows,
         EnqueueDrops, LoopEnds, CloseBegins, WriterWait, WriterBreak, WriterCatch, SpuriousWake,
         Dropped, shared, thread, stream, producer
<1>6. Numbered'
  BY <1>1 DEF TypeOK, Numbered, Quiet, SendDatagram, ProducerFail, EnqueueThrows,
         EnqueueDrops, LoopEnds, CloseBegins, WriterWait, WriterBreak, WriterCatch, SpuriousWake,
         Dropped, shared, thread, stream, producer
<1>7. Flow'
  <2>1. InHand' = InHand
    BY <1>1 DEF InHand, None
  <2> QED
    BY <1>1, <2>1 DEF TypeOK, Flow, Agreed, Quiet, SendDatagram, ProducerFail, EnqueueThrows,
         EnqueueDrops, LoopEnds, CloseBegins, WriterWait, WriterBreak, WriterCatch, SpuriousWake,
         NotifyReady, None, shared, thread, stream, producer
<1>8. Agreed'
  BY <1>1 DEF TypeOK, Agreed, Quiet, SendDatagram, ProducerFail, EnqueueThrows,
         EnqueueDrops, LoopEnds, CloseBegins, WriterWait, WriterBreak, WriterCatch, SpuriousWake,
         NotifyReady, shared, thread, stream, producer
<1>9. Complete'
  BY <1>1 DEF TypeOK, Complete, Agreed, Upto, Quiet, SendDatagram, ProducerFail, EnqueueThrows,
         EnqueueDrops, LoopEnds, CloseBegins, WriterWait, WriterBreak, WriterCatch, SpuriousWake,
         shared, thread, stream, producer
<1> QED
  BY <1>2, <1>3, <1>5, <1>6, <1>7, <1>8, <1>9

\* The producer appends a datagram to the queue.
LEMMA EnqueueKeepsIInv == ASSUME IInv, EnqueueAccepts PROVE IInv'
<1> USE DEF IInv
<1>1. /\ sent \in Datagrams /\ ppc = "capture" /\ ppc' = "send"
      /\ ~error /\ ~stopping /\ wpc # "exited"
      /\ entries' = Append(entries, sent) /\ captured' = Append(captured, sent)
      /\ UNCHANGED <<stopping, error, dropped, entry, buffer, file, sent, outcome>>
      /\ wpc' = IF wpc = "waiting" THEN "dequeue" ELSE wpc
      /\ Len(captured) \in Nat /\ Len(entries) \in Nat
      /\ Len(entries) < MaxQueuedPackets
      /\ sent = Len(captured) + dropped + 1
      /\ outcome = "none"
  BY LenProperties, CaptureAssumption
  DEF TypeOK, Counted, Agreed, EnqueueAccepts, NotifyReady, Full, stream, Datagrams
<1>2. /\ entries' \in Seq(Datagrams) /\ captured' \in Seq(Datagrams)
      /\ Len(entries') = Len(entries) + 1 /\ Len(captured') = Len(captured) + 1
      /\ \A i \in 1 .. Len(captured) : captured'[i] = captured[i]
      /\ captured'[Len(captured) + 1] = sent
  BY <1>1, AppendProperties DEF TypeOK
<1>3. TypeOK' /\ Bounded' /\ Counted' /\ Agreed' /\ Complete'
  BY <1>1, <1>2, CaptureAssumption DEF TypeOK, Bounded, Counted, Agreed, Complete
<1>4. Numbered'
  BY <1>1, <1>2 DEF TypeOK, Numbered
<1>5. Flow'
  <2>1. InHand' = InHand
    BY <1>1 DEF InHand, None
  <2>2. ASSUME wpc # "catch"
        PROVE  captured' = file \o buffer \o InHand \o entries'
    <3> DEFINE before == file \o buffer \o InHand
    <3>1. before \in Seq(Datagrams) /\ captured = before \o entries
      BY <1>1, <2>2, InHandType, ConcatProperties DEF TypeOK, Flow
    <3>2. /\ captured' = captured \o <<sent>> /\ entries' = entries \o <<sent>>
          /\ <<sent>> \in Seq(Datagrams)
      BY <1>1, AppendIsConcat, SMTT(60) DEF TypeOK
    <3> HIDE DEF before
    <3>3. (before \o entries) \o <<sent>> = before \o (entries \o <<sent>>)
      BY <3>1, <3>2, ConcatAssociative, SMTT(60) DEF TypeOK
    <3>4. captured' = before \o entries'
      BY <3>1, <3>2, <3>3
    <3> QED
      BY <3>4 DEF before
  <2> QED
    BY <1>1, <2>1, <2>2 DEF Flow
<1> QED
  BY <1>3, <1>4, <1>5

\* The thread takes the first datagram of the queue.
LEMMA TakeKeepsIInv == ASSUME IInv, WriterTake PROVE IInv'
<1> USE DEF IInv
<1>1. /\ wpc = "dequeue" /\ wpc' = "write" /\ entries # <<>>
      /\ entry' = Head(entries) /\ entries' = Tail(entries)
      /\ UNCHANGED <<stopping, error, dropped, buffer, file, ppc, sent, outcome, captured>>
  BY DEF WriterTake, Front, stream, producer
<1>2. /\ Head(entries) \in Datagrams /\ Tail(entries) \in Seq(Datagrams)
      /\ Len(Tail(entries)) = Len(entries) - 1 /\ Len(entries) \in Nat
  BY <1>1, HeadTailProperties, LenProperties DEF TypeOK
<1>3. TypeOK' /\ Bounded' /\ Counted' /\ Numbered' /\ Agreed' /\ Complete'
  BY <1>1, <1>2, CaptureAssumption
  DEF TypeOK, Bounded, Counted, Numbered, Agreed, Complete, Upto, Datagrams
<1>4. Flow'
  <2>1. entry = None /\ entry' # None
    BY <1>1, <1>2 DEF Flow, None, Datagrams
  <2>2. InHand = <<>> /\ InHand' = <<Head(entries)>>
    BY <1>1, <2>1 DEF InHand
  <2>3. ASSUME ~error, ppc # "gone"
        PROVE  captured = file \o buffer \o InHand' \o entries'
    <3> DEFINE before == file \o buffer
    <3>1. before \in Seq(Datagrams)
      BY ConcatProperties DEF TypeOK
    <3>2. captured = (before \o <<>>) \o entries
      BY <1>1, <2>2, <2>3 DEF Flow
    <3>3. <<Head(entries)>> \in Seq(Datagrams)
      BY <1>2
    <3> HIDE DEF before
    <3>4. captured = before \o entries
      BY <3>1, <3>2, ConcatEmptySeq
    <3>5. entries = <<Head(entries)>> \o Tail(entries)
      <4> DEFINE joined == <<Head(entries)>> \o Tail(entries)
      <4>1. /\ joined \in Seq(Datagrams) /\ Len(joined) = 1 + Len(Tail(entries))
            /\ \A i \in 1 .. 1 + Len(Tail(entries)) :
                  joined[i] = IF i <= 1 THEN <<Head(entries)>>[i] ELSE Tail(entries)[i - 1]
        BY <1>2, <3>3, ConcatProperties
      <4>2. \A i \in 1 .. Len(Tail(entries)) : Tail(entries)[i] = entries[i + 1]
        BY <1>1, HeadTailProperties DEF TypeOK
      <4>3. <<Head(entries)>>[1] = entries[1]
        BY <1>1 DEF TypeOK
      <4> HIDE DEF joined
      <4>4. \A i \in 1 .. Len(entries) : entries[i] = joined[i]
        BY <1>2, <4>1, <4>2, <4>3
      <4>5. entries = joined
        BY <1>2, <4>1, <4>4, SeqEqual DEF TypeOK
      <4> QED
        BY <4>5 DEF joined
    <3>6. captured = (before \o <<Head(entries)>>) \o Tail(entries)
      BY <1>2, <3>1, <3>3, <3>4, <3>5, ConcatAssociative, SMTT(60)
    <3> QED
      BY <1>1, <2>2, <3>6 DEF before
  <2> QED
    BY <1>1, <2>1, <2>3 DEF Flow
<1> QED
  BY <1>3, <1>4

\* The thread gives the datagram to the stream.
LEMMA WriteKeepsIInv == ASSUME IInv, Write PROVE IInv'
<1> USE DEF IInv
<1>1. /\ wpc = "write" /\ wpc' = "dequeue" /\ entry' = None /\ entry \in Datagrams
      /\ UNCHANGED <<entries, stopping, error, dropped, ppc, sent, outcome, captured>>
      /\ ppc # "gone"
  BY DEF Write, TypeOK, Flow, Agreed, Datagrams, None, shared, producer
<1>2. /\ InHand = <<entry>> /\ InHand' = <<>>
      /\ <<entry>> \in Seq(Datagrams) /\ Len(<<entry>>) = 1
  BY <1>1 DEF Write, InHand, None, Datagrams
<1>3. /\ buffer' \in Seq(Datagrams) /\ file' \in Seq(Datagrams) /\ Len(buffer') <= BufferPackets
      /\ file' \o buffer' = (file \o buffer) \o <<entry>>
  <2>1. CASE /\ Len(buffer) < BufferPackets
             /\ buffer' = Append(buffer, entry) /\ UNCHANGED file
    <3>1. buffer' \in Seq(Datagrams) /\ Len(buffer') = Len(buffer) + 1 /\ Len(buffer) \in Nat
      BY <1>1, <2>1, AppendProperties, LenProperties DEF TypeOK
    <3>2. buffer' = buffer \o <<entry>>
      BY <1>1, <2>1, AppendIsConcat DEF TypeOK
    <3>3. file \o (buffer \o <<entry>>) = (file \o buffer) \o <<entry>>
      BY <1>2, ConcatAssociative, SMTT(60) DEF TypeOK
    <3> QED
      BY <2>1, <3>1, <3>2, <3>3, CaptureAssumption, SMTT(60) DEF TypeOK
  <2>2. CASE file' = file \o buffer /\ buffer' = <<entry>>
    BY <1>2, <2>2, ConcatProperties, CaptureAssumption DEF TypeOK
  <2> QED
    BY <2>1, <2>2 DEF Write
<1>4. TypeOK' /\ Bounded' /\ Counted' /\ Numbered' /\ Agreed' /\ Complete'
  BY <1>1, <1>3 DEF TypeOK, Bounded, Counted, Numbered, Agreed, Complete, None
<1>5. Flow'
  <2>1. file' \o buffer' \in Seq(Datagrams)
    BY <1>3, ConcatProperties
  <2>2. (file' \o buffer') \o <<>> = (file \o buffer) \o <<entry>>
    BY <1>3, <2>1, ConcatEmptySeq
  <2> QED
    BY <1>1, <1>2, <2>2 DEF Flow
<1> QED
  BY <1>4, <1>5

\* The thread's write fails, and takes with it some of what the stream held.
LEMMA FailKeepsIInv == ASSUME IInv, WriteFails PROVE IInv'
<1> USE DEF IInv
<1>1. /\ wpc = "write" /\ wpc' = "catch" /\ entry' = None
      /\ UNCHANGED <<entries, stopping, error, dropped, ppc, sent, outcome, captured>>
      /\ ppc # "gone"
  BY DEF WriteFails, TypeOK, Flow, Agreed, shared, producer
<1>2. buffer' \in Seq(Datagrams) /\ file' \in Seq(Datagrams) /\ Len(buffer') <= BufferPackets
  <2>1. CASE UNCHANGED stream
    BY <2>1 DEF stream, TypeOK, Bounded
  <2>2. CASE /\ \E k \in 0 .. Len(buffer) : file' = file \o Upto(buffer, k)
             /\ buffer' = <<>>
    BY <2>2, CutIsPrefix, EmptySeq, CaptureAssumption DEF TypeOK
  <2> QED
    BY <2>1, <2>2 DEF WriteFails
<1> QED
  BY <1>1, <1>2 DEF TypeOK, Bounded, Counted, Numbered, Flow, Agreed, Complete, None

\* close has joined the thread: a normal return finds everything in the stream.
LEMMA CloseKeepsIInv == ASSUME IInv, CloseEnds PROVE IInv'
<1> USE DEF IInv
<1>1. UNCHANGED <<entries, stopping, error, dropped, wpc, entry, buffer, file, sent, captured>>
  BY DEF CloseEnds, shared, thread, stream
<1>2. TypeOK' /\ Bounded' /\ Counted' /\ Numbered' /\ Complete'
  BY <1>1 DEF CloseEnds, TypeOK, Bounded, Counted, Numbered, Complete
<1>3. Flow'
  BY <1>1 DEF CloseEnds, Flow, InHand, None
<1>4. Agreed'
  BY <1>1 DEF CloseEnds, CloseThrows, TypeOK, Counted, Agreed
<1> QED
  BY <1>2, <1>3, <1>4

\* After a normal return only the stream stands between the file and the
\* whole capture.
LEMMA ReturnedInStream ==
    ASSUME IInv, outcome = "returned", ppc = "destroy"
    PROVE  captured = file \o buffer
<1>1. entry = None /\ entries = <<>> /\ captured = file \o buffer \o InHand \o entries
  BY DEF IInv, Flow, Agreed
<1>2. captured = ((file \o buffer) \o <<>>) \o <<>>
  BY <1>1 DEF InHand
<1>3. file \o buffer \in Seq(Datagrams)
  BY ConcatProperties DEF IInv, TypeOK
<1> QED
  BY <1>2, <1>3, ConcatEmptySeq

\* The stream's destructor writes as much of it as it can.
LEMMA DestroyKeepsIInv == ASSUME IInv, DestroyStream PROVE IInv'
<1>1. /\ ppc = "destroy" /\ ppc' = "gone" /\ buffer' = <<>>
      /\ UNCHANGED <<entries, stopping, error, dropped, wpc, entry, sent, outcome, captured>>
  BY DEF DestroyStream, shared, thread
<1>2. PICK k \in 0 .. Len(buffer) : file' = file \o Upto(buffer, k)
  BY DEF DestroyStream
<1>3. /\ file' \in Seq(Datagrams) /\ Len(file') = Len(file) + k
      /\ file' = Upto(file \o buffer, Len(file) + k)
  BY <1>2, CutIsPrefix DEF IInv, TypeOK
<1>4. TypeOK' /\ Bounded' /\ Counted' /\ Numbered' /\ Flow' /\ Agreed'
  BY <1>1, <1>3, EmptySeq, CaptureAssumption
  DEF IInv, TypeOK, Bounded, Counted, Numbered, Flow, Agreed
<1>5. Complete'
  <2> SUFFICES ASSUME outcome = "returned"
               PROVE  /\ file' = Upto(captured, Len(file'))
                      /\ Len(captured) - Len(file') <= BufferPackets
    BY <1>1 DEF Complete
  <2>1. captured = file \o buffer
    BY <1>1, ReturnedInStream
  <2>2. Len(captured) = Len(file) + Len(buffer) /\ Len(file) \in Nat /\ Len(buffer) \in Nat
    BY <2>1, ConcatProperties, LenProperties DEF IInv, TypeOK
  <2> QED
    BY <1>3, <2>1, <2>2, CaptureAssumption DEF IInv, Bounded
<1> QED
  BY <1>4, <1>5 DEF IInv

LEMMA NextIInv == IInv /\ [Next]_vars => IInv'
<1> SUFFICES ASSUME IInv, [Next]_vars PROVE IInv'
  OBVIOUS
<1>1. CASE Quiet
  BY <1>1, QuietKeepsIInv
<1>2. CASE EnqueueAccepts
  BY <1>2, EnqueueKeepsIInv
<1>3. CASE WriterTake
  BY <1>3, TakeKeepsIInv
<1>4. CASE Write
  BY <1>4, WriteKeepsIInv
<1>5. CASE WriteFails
  BY <1>5, FailKeepsIInv
<1>6. CASE CloseEnds
  BY <1>6, CloseKeepsIInv
<1>7. CASE DestroyStream
  BY <1>7, DestroyKeepsIInv
<1>8. CASE UNCHANGED vars
  BY <1>8, SMTT(60)
     DEF vars, shared, thread, stream, producer, IInv, TypeOK, Bounded, Counted, Numbered,
              Flow, Agreed, Complete, InHand, None, Upto
<1> QED
  BY <1>1, <1>2, <1>3, <1>4, <1>5, <1>6, <1>7, <1>8
  DEF Next, WriterStep, Producing, Ending, Quiet

\* The invariant of the capture, for every value of the constants.
THEOREM CaptureInvariant == Spec => []IInv
  BY InitIInv, NextIInv, PTL DEF Spec

-----------------------------------------------------------------------------
\* AsyncPcapRtpWriter loses no accepted datagram silently, counts every one it
\* refuses, and never queues more than its limit.
THEOREM NothingIsSilentlyLost == Spec => []NothingSilentlyLost
<1>1. IInv => NothingSilentlyLost
  BY DEF IInv, Bounded, Counted, Flow, NothingSilentlyLost
<1> QED
  BY <1>1, CaptureInvariant, PTL

\* A close that returns normally has given everything sent to the stream, and
\* the file is the beginning of it, short of at most a stream's buffer.
THEOREM CleanCloseCompletes == Spec => []CleanCloseIsComplete
<1>1. ASSUME IInv, outcome = "returned"
      PROVE  captured = [i \in 1 .. sent |-> i]
  <2>1. /\ sent = Len(captured)
        /\ \A i \in 1 .. Len(captured) : captured[i] = i
    BY <1>1 DEF IInv, Agreed, Numbered
  <2>2. captured \in [1 .. Len(captured) -> Datagrams]
    BY <1>1, LenProperties DEF IInv, TypeOK
  <2> QED
    BY <2>1, <2>2
<1>2. IInv => CleanCloseIsComplete
  BY <1>1, ReturnedInStream DEF IInv, Agreed, Complete, CleanCloseIsComplete
<1> QED
  BY <1>2, CaptureInvariant, PTL
=============================================================================
