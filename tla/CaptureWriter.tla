---------------------------- MODULE CaptureWriter ----------------------------
(***************************************************************************)
(* The capture of the sent datagrams: the transmitter's worker (here the   *)
(* producer) hands every datagram it has sent to AsyncPcapRtpWriter, whose *)
(* own thread writes them to a buffered file stream.  The queue is bounded *)
(* and drops instead of blocking; an error of the thread is kept for the   *)
(* producer.  Datagrams are numbered in the order they are sent.           *)
(*                                                                         *)
(* A normal end calls close; any exception of the producer, its own or     *)
(* one from enqueue, reaches the destructor, which closes and swallows.    *)
(* The file stream itself is closed last, by a destructor too.             *)
(***************************************************************************)
EXTENDS Naturals, Sequences

CONSTANTS
    MaxQueuedPackets,  \* maximum_queued_packets
    BufferPackets,     \* datagrams the file stream holds before it writes
    MaxDatagrams       \* bound: datagrams sent

ASSUME CaptureAssumption ==
    /\ MaxQueuedPackets \in Nat \ {0}
    /\ BufferPackets \in Nat \ {0}
    /\ MaxDatagrams \in Nat

VARIABLES
    \* State::..., guarded by the mutex
    entries, stopping, error, dropped,
    \* the writer thread
    wpc, entry,
    \* the file stream: what it holds, and what has reached the file
    buffer, file,
    \* the producer
    ppc, sent, outcome,
    \* history: the datagrams accepted by enqueue
    captured

shared   == <<entries, stopping, error, dropped>>
thread   == <<wpc, entry>>
stream   == <<buffer, file>>
producer == <<ppc, sent, outcome>>
vars     == <<shared, thread, stream, producer, captured>>

None == 0

Init ==
    /\ entries = <<>> /\ stopping = FALSE /\ error = FALSE /\ dropped = 0
    /\ wpc = "dequeue" /\ entry = None
    /\ buffer = <<>> /\ file = <<>>
    /\ ppc = "send" /\ sent = 0 /\ outcome = "none"
    /\ captured = <<>>

\* Faulty: the notification is forgotten.
NotifyReady_Forgotten == wpc' = wpc

\* The writer thread is the only one that waits.
NotifyReady == wpc' = IF wpc = "waiting" THEN "dequeue" ELSE wpc

-----------------------------------------------------------------------------
(* The producer *)

SendDatagram ==
    /\ ppc = "send"
    /\ sent < MaxDatagrams
    /\ sent' = sent + 1
    /\ ppc' = "capture"
    /\ UNCHANGED <<shared, thread, stream, outcome, captured>>

\* Anything in the producer's loop other than the capture may throw.
ProducerFail ==
    /\ ppc = "send"
    /\ ppc' = "unwind"
    /\ UNCHANGED <<shared, thread, stream, sent, outcome, captured>>

EnqueueThrows ==
    /\ ppc = "capture"
    /\ error \/ stopping
    /\ ppc' = "unwind"
    /\ UNCHANGED <<shared, thread, stream, sent, outcome, captured>>

Full == Len(entries) >= MaxQueuedPackets

\* Faulty: a drop is not counted.
Dropped_Uncounted == dropped

Dropped == dropped + 1

EnqueueDrops ==
    /\ ppc = "capture"
    /\ ~error /\ ~stopping
    /\ Full
    /\ dropped' = Dropped
    /\ ppc' = "send"
    /\ UNCHANGED <<entries, stopping, error, thread, stream, sent, outcome, captured>>

EnqueueAccepts ==
    /\ ppc = "capture"
    /\ ~error /\ ~stopping
    /\ ~Full
    /\ entries' = Append(entries, sent)
    /\ captured' = Append(captured, sent)
    /\ NotifyReady
    /\ ppc' = "send"
    /\ UNCHANGED <<stopping, error, dropped, entry, stream, sent, outcome>>

LoopEnds ==
    /\ ppc = "send"
    /\ ppc' = "close"
    /\ UNCHANGED <<shared, thread, stream, sent, outcome, captured>>

\* The critical section of close, called by the producer or by the destructor.
CloseBegins ==
    /\ ppc \in {"close", "unwind"}
    /\ stopping' = TRUE
    /\ NotifyReady
    /\ ppc' = IF ppc = "close" THEN "closing" ELSE "unwinding"
    /\ UNCHANGED <<entries, error, dropped, entry, stream, sent, outcome, captured>>

\* What close finds after the join.
CloseThrows == error \/ dropped # 0

CloseEnds ==
    /\ ppc \in {"closing", "unwinding"}
    /\ wpc = "exited"
    /\ outcome' = IF ppc = "closing" /\ ~CloseThrows THEN "returned" ELSE "threw"
    /\ ppc' = "destroy"
    /\ UNCHANGED <<shared, thread, stream, sent, captured>>

Upto(s, k) == SubSeq(s, 1, k)

\* The stream's destructor writes what it holds, and says nothing if it cannot.
DestroyStream ==
    /\ ppc = "destroy"
    /\ \E k \in 0 .. Len(buffer) : file' = file \o Upto(buffer, k)
    /\ buffer' = <<>>
    /\ ppc' = "gone"
    /\ UNCHANGED <<shared, thread, sent, outcome, captured>>

-----------------------------------------------------------------------------
(* The writer thread *)

WriterWait ==
    /\ wpc = "dequeue"
    /\ entries = <<>> /\ ~stopping
    /\ wpc' = "waiting"
    /\ UNCHANGED <<shared, entry, stream, producer, captured>>

Front == Head(entries)

WriterTake ==
    /\ wpc = "dequeue"
    /\ entries # <<>>
    /\ entry' = Front
    /\ entries' = Tail(entries)
    /\ wpc' = "write"
    /\ UNCHANGED <<stopping, error, dropped, stream, producer, captured>>

\* Faulty: a stop does not wait for the queue to drain.
WriterBreak_Early ==
    /\ wpc = "dequeue"
    /\ stopping
    /\ wpc' = "exited"
    /\ UNCHANGED <<shared, entry, stream, producer, captured>>

WriterBreak ==
    /\ wpc = "dequeue"
    /\ entries = <<>> /\ stopping
    /\ wpc' = "exited"
    /\ UNCHANGED <<shared, entry, stream, producer, captured>>

\* The stream holds the record, or first writes what it holds, at the latest
\* when it is full.
Write ==
    /\ wpc = "write"
    /\ \/ /\ Len(buffer) < BufferPackets
          /\ buffer' = Append(buffer, entry)
          /\ UNCHANGED file
       \/ /\ buffer # <<>>
          /\ file' = file \o buffer
          /\ buffer' = <<entry>>
    /\ entry' = None
    /\ wpc' = "dequeue"
    /\ UNCHANGED <<shared, producer, captured>>

\* It throws before it touches the stream, or writing what the stream holds
\* fails somewhere and the rest of it is lost.
WriteFails ==
    /\ wpc = "write"
    /\ \/ UNCHANGED stream
       \/ /\ \E k \in 0 .. Len(buffer) : file' = file \o Upto(buffer, k)
          /\ buffer' = <<>>
    /\ entry' = None
    /\ wpc' = "catch"
    /\ UNCHANGED <<shared, producer, captured>>

WriterCatch ==
    /\ wpc = "catch"
    /\ error' = TRUE /\ stopping' = TRUE
    /\ wpc' = "exited"
    /\ UNCHANGED <<entries, dropped, entry, stream, producer, captured>>

SpuriousWake ==
    /\ wpc = "waiting"
    /\ wpc' = "dequeue"
    /\ UNCHANGED <<shared, entry, stream, producer, captured>>

-----------------------------------------------------------------------------
WriterStep == WriterWait \/ WriterTake \/ WriterBreak \/ Write \/ WriterCatch

Producing == SendDatagram \/ EnqueueThrows \/ EnqueueDrops \/ EnqueueAccepts \/ LoopEnds

Ending == CloseBegins \/ CloseEnds \/ DestroyStream

Next == WriterStep \/ WriteFails \/ SpuriousWake \/ Producing \/ ProducerFail \/ Ending

Spec == Init /\ [][Next]_vars

\* Both threads run; nothing fails or wakes by necessity.
FairSpec == Spec /\ WF_vars(WriterStep) /\ WF_vars(Producing \/ Ending)

-----------------------------------------------------------------------------
InHand == IF entry = None THEN <<>> ELSE <<entry>>

\* Every datagram offered to the capture is accepted or counted as dropped, and
\* an accepted one is in the queue, in the thread's hands, in the stream or in
\* the file, in the order sent, as long as no write has failed; the queue never
\* holds more than its limit.
NothingSilentlyLost ==
    /\ Len(entries) <= MaxQueuedPackets
    /\ ppc \in {"send", "close", "closing"} => sent = Len(captured) + dropped
    /\ wpc # "catch" /\ ~error /\ ppc # "gone" => captured = file \o buffer \o InHand \o entries

\* A close that returns normally means a capture of everything sent: all of it
\* was given to the stream, and what the file may lack in the end is at most
\* what the stream held when its destructor, which cannot report an error, ran.
CleanCloseIsComplete ==
    outcome = "returned" =>
       /\ captured = [i \in 1 .. sent |-> i]
       /\ ppc = "destroy" => file \o buffer = captured
       /\ ppc = "gone" => /\ file = Upto(captured, Len(file))
                          /\ sent - Len(file) <= BufferPackets

\* A producer that ends, normally or not, is never held up by the capture.
CaptureEnds == ppc \in {"close", "unwind"} ~> ppc = "gone"
=============================================================================
