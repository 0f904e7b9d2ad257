------------------------- MODULE DecoderTimesProofs -------------------------
(***************************************************************************)
(* Pictures come out as themselves, and a clean verdict means that they    *)
(* were on the screen in time, for every transform, size of the table and  *)
(* number of access units.                                                 *)
(***************************************************************************)
EXTENDS DecoderTimes, FiniteSetTheorems, TLAPS

\* A transform whose pictures carry no sample time gets the oldest entry of the
\* table for each: the table must then hold an entry for every picture inside.
TableHoldsUnstamped == \A t \in Transforms : ~t.stamped => t.depth <= MaxPending

-----------------------------------------------------------------------------
(* The invariant *)

Pictures  == [sample : Nat, capture : Nat]
Rows      == {RowsAt(stride, height) : stride \in Nat, height \in Nat}
Outputs   == [sample : Nat, capture : Nat, accepted : Nat, rows : Rows]
Presented == [sample : Nat, capture : Nat, at : Nat]

TypesInv ==
    /\ clock \in Nat /\ sample_index \in 0 .. MaxUnits
    /\ pc \in {"input", "input_again", "drain_first"} => sample_index < MaxUnits
    /\ transform \in Transforms
    /\ inside \in Seq(Nat) /\ frames \in Seq(Pictures) /\ frame \in Pictures
    /\ captures \in Seq(Nat) /\ Len(captures) = sample_index
    /\ outputs \in Seq(Outputs) /\ presented \in Seq(Presented)
    /\ late_frames \in Nat

\* One past the last picture put out.
Floor == IF outputs = <<>> THEN 0 ELSE outputs[Len(outputs)].sample + 1

\* The access units the table still remembers are those from here on.
Oldest == IF Floor + MaxPending < sample_index THEN sample_index - MaxPending ELSE Floor

\* The transform holds access units not put out yet, in order, and all of them
\* when it discards none.
HeldInv ==
    /\ Floor <= sample_index
    /\ \A i \in 1 .. Len(inside) : Floor <= inside[i] /\ inside[i] < sample_index
    /\ \A i, j \in 1 .. Len(inside) : i < j => inside[i] < inside[j]
    /\ ~transform.stamped =>
          /\ Len(inside) <= transform.depth
          /\ Floor + Len(inside) = sample_index
          /\ \A i \in 1 .. Len(inside) : inside[i] + 1 = Floor + i

TableInv ==
    /\ capture_times \in [Oldest .. sample_index - 1 -> Nat]
    /\ \A s \in Oldest .. sample_index - 1 : capture_times[s] = captures[s + 1]
    /\ pc # "receive" => capture_time \in Nat

LayoutsOf(t) == {t.first} \cup {t.layouts[u] : u \in 1 .. MaxUnits}

\* The wrapper's geometry is that of the transform's output.
GeometryInv ==
    pc # "failed" =>
       /\ layout \in LayoutsOf(transform) /\ Fits(layout)
       /\ output_stride = layout.stride /\ output_height = layout.height

HistoryInv ==
    /\ \A o \in DOMAIN outputs :
          outputs[o].sample < outputs[o].accepted /\ outputs[o].accepted <= sample_index
    /\ PicturesAreTheirOwn

DecoderInv == TypesInv /\ HeldInv /\ TableInv /\ GeometryInv /\ HistoryInv

-----------------------------------------------------------------------------
(* The table *)

LEMMA FirstOfInterval ==
  ASSUME NEW table, NEW a \in Nat, NEW b \in Nat, a <= b, DOMAIN table = a .. b
  PROVE  First(table) = a
<1>1. a \in DOMAIN table /\ \A t \in DOMAIN table : a <= t
  OBVIOUS
<1>2. First(table) \in DOMAIN table /\ \A t \in DOMAIN table : First(table) <= t
  BY <1>1 DEF First
<1>3. First(table) <= a /\ a <= First(table) /\ First(table) \in Nat
  BY <1>1, <1>2
<1>. QED  BY <1>3

LEMMA OldestIs ==
  ASSUME TypesInv, HeldInv
  PROVE  /\ Floor \in Nat /\ Oldest \in Nat /\ sample_index \in Nat
         /\ Floor <= Oldest /\ Oldest <= sample_index /\ sample_index <= Oldest + MaxPending
         /\ Oldest = Floor \/ Oldest + MaxPending = sample_index
<1>1. sample_index \in Nat /\ MaxPending \in Nat
  BY DecoderAssumption DEF TypesInv
<1>2. Floor \in Nat
  <2>1. CASE outputs = <<>>
    BY <2>1 DEF Floor
  <2>2. CASE outputs # <<>>
    <3>1. outputs \in Seq(Outputs)
      BY DEF TypesInv
    <3>2. Len(outputs) \in 1 .. Len(outputs)
      BY <2>2, <3>1
    <3>3. outputs[Len(outputs)] \in Outputs
      BY <3>1, <3>2
    <3>4. outputs[Len(outputs)].sample \in Nat
      BY <3>3 DEF Outputs
    <3>. QED  BY <2>2, <3>4 DEF Floor
  <2>. QED  BY <2>1, <2>2
<1>3. Floor <= sample_index
  BY DEF HeldInv
<1>. QED  BY <1>1, <1>2, <1>3 DEF Oldest

\* A new entry goes in, and the oldest one out when there are too many.
LEMMA Remembered ==
  ASSUME NEW a \in Nat, NEW n \in Nat, a <= n, n <= a + MaxPending,
         NEW table \in [a .. n - 1 -> Nat], NEW time
  PROVE  Evict(With(table, n, time)) =
            [s \in (IF n - a = MaxPending THEN a + 1 ELSE a) .. n |->
                IF s = n THEN time ELSE table[s]]
<1> DEFINE b == IF n - a = MaxPending THEN a + 1 ELSE a
<1> DEFINE with == With(table, n, time)
<1>1. DOMAIN table = a .. n - 1 /\ (a .. n - 1) \cup {n} = a .. n
  OBVIOUS
<1>2. with = [s \in a .. n |-> IF s = n THEN time ELSE table[s]]
  BY <1>1 DEF With
<1>3. MaxPending \in Nat /\ MaxPending > 0
  BY DecoderAssumption
<1>4. Cardinality(a .. n) = n - a + 1
  BY FS_Interval
<1>5. DOMAIN with = a .. n /\ First(with) = a
  BY <1>2, FirstOfInterval
<1> HIDE DEF with
<1>6. CASE n - a = MaxPending
  <2>1. Evict(with) = Without(with, {a})
    BY <1>3, <1>4, <1>5, <1>6 DEF Evict
  <2>2. (a .. n) \ {a} = b .. n
    BY <1>6
  <2>3. Evict(with) = [s \in b .. n |-> with[s]]
    BY <1>5, <2>1, <2>2 DEF Without
  <2>4. \A s \in b .. n : with[s] = IF s = n THEN time ELSE table[s]
    BY <1>2, <1>6
  <2>. QED  BY <2>3, <2>4 DEF with
<1>7. CASE n - a # MaxPending
  <2>1. Evict(with) = with
    BY <1>3, <1>4, <1>5, <1>7 DEF Evict
  <2>. QED  BY <1>2, <1>7, <2>1 DEF with
<1>. QED  BY <1>6, <1>7

-----------------------------------------------------------------------------
(* The steps of decode *)

\* An accepted access unit is remembered with its time, the newest of the table.
LEMMA Accepts ==
  ASSUME DecoderInv, InputAccepted
  PROVE  DecoderInv'
<1>1. /\ Floor \in Nat /\ Oldest \in Nat /\ sample_index \in Nat
      /\ Floor <= Oldest /\ Oldest <= sample_index /\ sample_index <= Oldest + MaxPending
      /\ Oldest = Floor \/ Oldest + MaxPending = sample_index
      /\ MaxPending \in Nat /\ MaxPending > 0
  BY OldestIs, DecoderAssumption DEF DecoderInv
<1>2. /\ capture_time \in Nat /\ pc' = "drain" /\ pc # "failed"
      /\ inside' = Append(inside, sample_index) /\ captures' = Append(captures, capture_time)
      /\ capture_times' = Evict(With(capture_times, sample_index, capture_time))
      /\ UNCHANGED <<clock, transform, layout, geometry, frames, capture_time, frame,
                     late_frames, outputs, presented>>
  BY DEF InputAccepted, DecoderInv, TableInv, verdict
<1>3. sample_index' = sample_index + 1 /\ sample_index < MaxUnits /\ MaxUnits \in Nat
  BY DecoderAssumption DEF InputAccepted, DecoderInv, TypesInv
<1>4. inside \in Seq(Nat) /\ captures \in Seq(Nat) /\ Len(captures) = sample_index
  BY DEF DecoderInv, TypesInv
<1>5. Floor' = Floor
  BY <1>2 DEF Floor
<1>6. Oldest' = IF sample_index - Oldest = MaxPending THEN Oldest + 1 ELSE Oldest
  BY <1>1, <1>3, <1>5 DEF Oldest
<1>7. TypesInv'
  <2>1. inside' \in Seq(Nat) /\ captures' \in Seq(Nat) /\ Len(captures') = sample_index'
    BY <1>1, <1>2, <1>3, <1>4
  <2>2. sample_index' \in 0 .. MaxUnits
    BY <1>1, <1>3
  <2>. QED  BY <1>2, <2>1, <2>2 DEF DecoderInv, TypesInv
<1>8. HeldInv'
  <2>1. Len(inside) \in Nat /\ Len(inside') = Len(inside) + 1
        /\ \A i \in 1 .. Len(inside') : inside'[i] = IF i <= Len(inside) THEN inside[i] ELSE sample_index
    BY <1>2, <1>4
  <2>2. HeldInv
    BY DEF DecoderInv
  <2>3. \A i \in 1 .. Len(inside) : inside[i] \in Nat
    BY <1>4
  <2>4. Floor' <= sample_index' /\ Len(inside) < transform.depth
    BY <1>1, <1>3, <1>5, <2>2 DEF InputAccepted
  <2>5. \A i \in 1 .. Len(inside') : Floor' <= inside'[i] /\ inside'[i] < sample_index'
    BY <1>1, <1>3, <1>5, <2>1, <2>2, <2>3 DEF HeldInv
  <2>6. \A i, j \in 1 .. Len(inside') : i < j => inside'[i] < inside'[j]
    BY <1>1, <2>1, <2>2, <2>3 DEF HeldInv
  <2>7. ASSUME ~transform.stamped
        PROVE  /\ Len(inside') <= transform.depth /\ Floor' + Len(inside') = sample_index'
               /\ \A i \in 1 .. Len(inside') : inside'[i] + 1 = Floor' + i
    <3>1. transform.depth \in Nat
      BY DecoderAssumption DEF DecoderInv, TypesInv
    <3>2. Floor + Len(inside) = sample_index
          /\ \A i \in 1 .. Len(inside) : inside[i] + 1 = Floor + i
      BY <2>2, <2>7 DEF HeldInv
    <3>3. Len(inside') <= transform.depth /\ Floor' + Len(inside') = sample_index'
      <4> DEFINE n == Len(inside)
      <4>1. n \in Nat /\ Len(inside') = n + 1 /\ n < transform.depth /\ Floor + n = sample_index
        BY <2>1, <2>4, <3>2
      <4> HIDE DEF n
      <4>2. Len(inside') <= transform.depth
        BY <3>1, <4>1
      <4>. QED  BY <1>1, <1>3, <1>5, <4>1, <4>2
    <3>4. \A i \in 1 .. Len(inside') : inside'[i] + 1 = Floor' + i
      <4> SUFFICES ASSUME NEW i \in 1 .. Len(inside) + 1 PROVE inside'[i] + 1 = Floor + i
        BY <1>5, <2>1
      <4>1. CASE i <= Len(inside)
        BY <2>1, <3>2, <4>1
      <4>2. CASE i = Len(inside) + 1
        <5> DEFINE n == Len(inside)
        <5>1. n \in Nat /\ i = n + 1 /\ Floor + n = sample_index
          BY <2>1, <3>2, <4>2
        <5>2. inside'[i] = sample_index
          BY <2>1, <4>2
        <5> HIDE DEF n
        <5>. QED  BY <1>1, <5>1, <5>2
      <4>. QED  BY <2>1, <4>1, <4>2
    <3>. QED  BY <3>3, <3>4
  <2>8. transform' = transform
    BY <1>2
  <2>. QED  BY <2>4, <2>5, <2>6, <2>7, <2>8 DEF HeldInv
<1>9. TableInv'
  <2>1. /\ capture_times \in [Oldest .. sample_index - 1 -> Nat]
        /\ \A s \in Oldest .. sample_index - 1 : capture_times[s] = captures[s + 1]
    BY DEF DecoderInv, TableInv
  <2>2. capture_times' \in [Oldest' .. sample_index -> Nat]
        /\ capture_times'[sample_index] = capture_time
        /\ \A s \in Oldest' .. sample_index - 1 : capture_times'[s] = capture_times[s]
    <3> DEFINE lo == Oldest'
    <3> DEFINE kept == capture_times'
    <3>1. /\ Oldest \in Nat /\ sample_index \in Nat
          /\ Oldest <= sample_index /\ sample_index <= Oldest + MaxPending
      BY <1>1
    <3>2. capture_time \in Nat /\ kept = Evict(With(capture_times, sample_index, capture_time))
      BY <1>2
    <3>3. lo = IF sample_index - Oldest = MaxPending THEN Oldest + 1 ELSE Oldest
      BY <1>6
    <3>4. capture_times \in [Oldest .. sample_index - 1 -> Nat]
      BY <2>1
    <3> HIDE DEF lo, kept
    <3>5. kept = [s \in lo .. sample_index |->
                    IF s = sample_index THEN capture_time ELSE capture_times[s]]
      <4>1. Evict(With(capture_times, sample_index, capture_time)) =
               [s \in (IF sample_index - Oldest = MaxPending THEN Oldest + 1 ELSE Oldest)
                         .. sample_index |->
                   IF s = sample_index THEN capture_time ELSE capture_times[s]]
        BY <3>1, <3>4, Remembered
      <4>. QED  BY <3>2, <3>3, <4>1
    <3>6. lo \in Nat /\ sample_index \in lo .. sample_index
          /\ \A s \in lo .. sample_index - 1 : s # sample_index /\ s \in lo .. sample_index
      BY <1>1, <3>3, DecoderAssumption
    <3>7. \A s \in lo .. sample_index : s # sample_index => s \in Oldest .. sample_index - 1
      BY <3>1, <3>3
    <3>. QED  BY <3>2, <3>4, <3>5, <3>6, <3>7 DEF lo, kept
  <2>3. sample_index' - 1 = sample_index /\ Oldest' \in Nat /\ Oldest <= Oldest'
    BY <1>1, <1>3, <1>6
  <2>4. \A s \in Oldest' .. sample_index : capture_times'[s] = captures'[s + 1]
    <3> SUFFICES ASSUME NEW s \in Oldest' .. sample_index
                 PROVE  capture_times'[s] = captures'[s + 1]
      OBVIOUS
    <3>1. CASE s = sample_index
      <4>1. captures'[sample_index + 1] = capture_time
        BY <1>1, <1>2, <1>4
      <4>. QED  BY <2>2, <3>1, <4>1
    <3>2. CASE s # sample_index
      <4>1. s \in Oldest .. sample_index - 1 /\ s + 1 \in 1 .. Len(captures)
        BY <1>1, <1>4, <2>3, <3>2
      <4>2. captures'[s + 1] = captures[s + 1]
        BY <1>2, <1>4, <4>1
      <4>3. capture_times'[s] = capture_times[s]
        BY <1>1, <2>2, <2>3, <3>2
      <4>4. capture_times[s] = captures[s + 1]
        BY <2>1, <4>1
      <4>. QED  BY <4>2, <4>3, <4>4
    <3>. QED  BY <3>1, <3>2
  <2>. QED  BY <1>2, <2>2, <2>3, <2>4 DEF TableInv
<1>10. GeometryInv'
  BY <1>2 DEF DecoderInv, GeometryInv, geometry
<1>11. HistoryInv'
  <2>1. outputs' = outputs /\ outputs \in Seq(Outputs) /\ transform' = transform
        /\ \A o \in DOMAIN outputs :
              outputs[o].sample < outputs[o].accepted /\ outputs[o].accepted <= sample_index
    BY <1>2 DEF DecoderInv, TypesInv, HistoryInv
  <2>2. \A o \in DOMAIN outputs : outputs[o].sample \in Nat /\ outputs[o].accepted \in Nat
    <3>1. \A o \in DOMAIN outputs : outputs[o] \in Outputs
      BY <2>1
    <3>. QED  BY <3>1 DEF Outputs
  <2>3. \A o \in DOMAIN outputs : captures'[outputs[o].sample + 1] = captures[outputs[o].sample + 1]
    <3> SUFFICES ASSUME NEW o \in DOMAIN outputs
                 PROVE  captures'[outputs[o].sample + 1] = captures[outputs[o].sample + 1]
      OBVIOUS
    <3> DEFINE m == outputs[o].sample
    <3> DEFINE n == outputs[o].accepted
    <3>0. m \in Nat /\ n \in Nat /\ m < n /\ n <= sample_index
      BY <2>1, <2>2
    <3> HIDE DEF m, n
    <3>1. m + 1 \in 1 .. Len(captures)
      BY <1>1, <1>4, <3>0
    <3>2. captures'[m + 1] = captures[m + 1]
      BY <1>2, <1>4, <3>1
    <3>. QED  BY <3>2 DEF m
  <2>4. OwnTimeOrNone'
    BY <2>1, <2>3 DEF DecoderInv, HistoryInv, PicturesAreTheirOwn, OwnTimeOrNone
  <2>5. OwnRows'
    BY <2>1 DEF DecoderInv, HistoryInv, PicturesAreTheirOwn, OwnRows
  <2>6. \A o \in DOMAIN outputs : outputs[o].accepted <= sample_index'
    BY <1>1, <1>3, <2>1, <2>2
  <2>. QED  BY <2>1, <2>4, <2>5, <2>6 DEF HistoryInv, PicturesAreTheirOwn
<1>. QED  BY <1>7, <1>8, <1>9, <1>10, <1>11 DEF DecoderInv

\* A picture leaves the transform: the one held longest.
Leaves == inside' = Tail(inside) /\ UNCHANGED <<transform, sample_index>>

LEMMA HeldLongest ==
  ASSUME TypesInv, HeldInv, inside # <<>>
  PROVE  /\ Head(inside) \in Nat /\ Floor <= Head(inside) /\ Head(inside) < sample_index
         /\ Head(inside) + 1 \in 1 .. MaxUnits
         /\ ~transform.stamped => Head(inside) = Floor
<1>1. inside \in Seq(Nat) /\ sample_index \in 0 .. MaxUnits /\ MaxUnits \in Nat
  BY DecoderAssumption DEF TypesInv
<1>2. Head(inside) = inside[1] /\ 1 \in 1 .. Len(inside) /\ inside[1] \in Nat
  BY <1>1
<1>3. Floor \in Nat
  BY OldestIs
<1>. QED  BY <1>1, <1>2, <1>3 DEF HeldInv

\* The time a picture is given is its own, or none when its entry has gone.
LEMMA TimeGiven ==
  ASSUME DecoderInv, TableHoldsUnstamped, inside # <<>>,
         NEW time, CaptureTimeForOutput(Head(inside), time),
         NEW oldest, oldest = IF Head(inside) + 1 + MaxPending < sample_index
                              THEN sample_index - MaxPending ELSE Head(inside) + 1
  PROVE  /\ time = IF sample_index - Head(inside) <= MaxPending
                   THEN captures[Head(inside) + 1] ELSE NoTime
         /\ capture_times' = [s \in oldest .. sample_index - 1 |-> capture_times[s]]
<1> DEFINE h == Head(inside)
<1>1. /\ Floor \in Nat /\ Oldest \in Nat /\ sample_index \in Nat
      /\ Floor <= Oldest /\ Oldest <= sample_index /\ sample_index <= Oldest + MaxPending
      /\ Oldest = Floor \/ Oldest + MaxPending = sample_index
      /\ MaxPending \in Nat /\ MaxPending > 0
  BY OldestIs, DecoderAssumption DEF DecoderInv
<1>2. h \in Nat /\ Floor <= h /\ h < sample_index /\ (~transform.stamped => h = Floor)
  BY HeldLongest DEF DecoderInv
<1>3. /\ Pending = Oldest .. sample_index - 1
      /\ \A s \in Oldest .. sample_index - 1 : capture_times[s] = captures[s + 1]
  BY DEF DecoderInv, TableInv, Pending
<1>4. CaptureTimeForOutput(h, time)
      /\ oldest = IF h + 1 + MaxPending < sample_index THEN sample_index - MaxPending ELSE h + 1
  OBVIOUS
<1> HIDE DEF h
<1>5. CASE transform.stamped
  <2>1. time = TimeOf(h) /\ capture_times' = Without(capture_times, {s \in Pending : s <= h})
    BY <1>4, <1>5 DEF CaptureTimeForOutput
  <2>2. h \in Pending <=> sample_index - h <= MaxPending
    BY <1>1, <1>2, <1>3
  <2>3. time = IF sample_index - h <= MaxPending THEN captures[h + 1] ELSE NoTime
    BY <1>3, <2>1, <2>2 DEF TimeOf
  <2>4. Pending \ {s \in Pending : s <= h} = oldest .. sample_index - 1
    BY <1>1, <1>2, <1>3, <1>4
  <2>. QED  BY <2>1, <2>3, <2>4 DEF Without, Pending, h
\* Without sample times every picture inside has an entry, and the first one's
\* is the first of the table.
<1>6. CASE ~transform.stamped
  <2>1. h = Floor /\ sample_index <= Floor + MaxPending
    <3>1. transform \in Transforms /\ transform.depth <= MaxPending /\ transform.depth \in Nat
      BY <1>6, DecoderAssumption DEF TableHoldsUnstamped, DecoderInv, TypesInv
    <3>2. Len(inside) <= transform.depth /\ Floor + Len(inside) = sample_index
      BY <1>6 DEF DecoderInv, HeldInv
    <3>3. Len(inside) \in Nat
      BY DEF DecoderInv, TypesInv
    <3>. QED  BY <1>1, <1>2, <1>6, <3>1, <3>2, <3>3
  <2>2. Oldest = h /\ h \in Pending
    BY <1>1, <1>2, <1>3, <2>1 DEF Oldest
  <2>3. First(capture_times) = h
    <3>1. DOMAIN capture_times = h .. sample_index - 1 /\ sample_index - 1 \in Nat
          /\ h <= sample_index - 1
      BY <1>1, <1>2, <1>3, <2>2 DEF Pending
    <3>. QED  BY <1>2, <3>1, FirstOfInterval
  <2>4. time = capture_times[h] /\ capture_times' = Without(capture_times, {h})
    BY <1>4, <1>6, <2>2, <2>3 DEF CaptureTimeForOutput, TakeFirst
  <2>5. time = captures[h + 1] /\ sample_index - h <= MaxPending
    BY <1>1, <1>2, <1>3, <2>1, <2>2, <2>4
  <2>6. Pending \ {h} = oldest .. sample_index - 1
    BY <1>1, <1>2, <1>3, <1>4, <2>1, <2>2
  <2>. QED  BY <2>4, <2>5, <2>6 DEF Without, Pending, h
<1>. QED  BY <1>5, <1>6

-----------------------------------------------------------------------------
LEMMA LayoutIsTyped ==
  ASSUME NEW t \in Transforms, NEW l \in LayoutsOf(t), Fits(l)
  PROVE  l.stride \in Nat /\ l.height \in Nat /\ Stride(l) = l.stride
<1>1. /\ l.width \in Nat /\ l.height \in Nat /\ l.stride \in Nat /\ l.stated \in BOOLEAN
      /\ l.stride >= l.width /\ (~l.stated => l.stride = l.width)
      /\ Visible.width \in Nat
  BY DecoderAssumption DEF LayoutsOf, Layout
<1>2. l.width >= Visible.width
  BY DEF Fits
<1>. QED  BY <1>1, <1>2 DEF Stride

\* The picture put out leaves the transform and is recorded as what it was made.
LEMMA PutsOut ==
  ASSUME DecoderInv, TableHoldsUnstamped, Output
  PROVE  DecoderInv'
<1> DEFINE h == Head(inside)
<1>1. PICK time \in 0 .. clock :
        /\ CaptureTimeForOutput(h, time)
        /\ frames' = Append(frames, [sample |-> h, capture |-> time])
        /\ outputs' = Append(outputs, [sample |-> h, capture |-> time, accepted |-> sample_index,
                                       rows |-> RowsAt(output_stride, output_height)])
  BY DEF Output
<1>2. /\ inside # <<>> /\ inside' = Tail(inside) /\ NextLayout = layout /\ pc # "failed"
      /\ UNCHANGED <<clock, transform, layout, geometry, sample_index, pc, capture_time, frame,
                     late_frames, captures, presented>>
  BY DEF Output, verdict
<1>3. /\ Floor \in Nat /\ Oldest \in Nat /\ sample_index \in Nat
      /\ Floor <= Oldest /\ Oldest <= sample_index /\ sample_index <= Oldest + MaxPending
      /\ Oldest = Floor \/ Oldest + MaxPending = sample_index
      /\ MaxPending \in Nat /\ MaxPending > 0
  BY OldestIs, DecoderAssumption DEF DecoderInv
<1>4. /\ h \in Nat /\ Floor <= h /\ h < sample_index /\ h + 1 \in 1 .. MaxUnits
      /\ (~transform.stamped => h = Floor)
  BY <1>2, HeldLongest DEF DecoderInv
<1> DEFINE rows == RowsAt(output_stride, output_height)
<1> DEFINE out == [sample |-> h, capture |-> time, accepted |-> sample_index, rows |-> rows]
<1>5. rows = RowsAt(layout.stride, layout.height) /\ rows \in Rows
  <2>1. /\ layout \in LayoutsOf(transform) /\ Fits(layout) /\ transform \in Transforms
        /\ output_stride = layout.stride /\ output_height = layout.height
    BY <1>2 DEF DecoderInv, GeometryInv, TypesInv
  <2>2. layout.stride \in Nat /\ layout.height \in Nat
    BY <2>1, LayoutIsTyped
  <2>. QED  BY <2>1, <2>2 DEF Rows
<1>6. clock \in Nat /\ time \in Nat
  BY <1>1 DEF DecoderInv, TypesInv
<1>7. out \in Outputs /\ [sample |-> h, capture |-> time] \in Pictures
  BY <1>3, <1>4, <1>5, <1>6 DEF Outputs, Pictures
<1>8. /\ outputs \in Seq(Outputs) /\ outputs' = Append(outputs, out) /\ outputs' \in Seq(Outputs)
      /\ frames' \in Seq(Pictures)
      /\ Len(outputs) \in Nat /\ Len(outputs') = Len(outputs) + 1 /\ outputs'[Len(outputs')] = out
      /\ DOMAIN outputs' = 1 .. Len(outputs) + 1 /\ DOMAIN outputs = 1 .. Len(outputs)
      /\ \A o \in 1 .. Len(outputs) : outputs'[o] = outputs[o]
  <2>1. outputs \in Seq(Outputs) /\ frames \in Seq(Pictures)
    BY DEF DecoderInv, TypesInv
  <2>2. outputs' = Append(outputs, out) /\ frames' = Append(frames, [sample |-> h, capture |-> time])
    BY <1>1
  <2> HIDE DEF out
  <2>. QED  BY <1>7, <2>1, <2>2
<1>9. out.sample = h /\ out.capture = time /\ out.accepted = sample_index /\ out.rows = rows
  OBVIOUS
<1>10. NextLayout = transform.layouts[h + 1]
  BY DEF NextLayout
<1> HIDE DEF h, rows, out
<1>11. Floor' = h + 1
  <2>1. outputs' # <<>>
    BY <1>8
  <2>. QED  BY <1>8, <1>9, <2>1 DEF Floor
<1>12. inside \in Seq(Nat) /\ Len(inside') = Len(inside) - 1 /\ Len(inside) \in Nat \ {0}
       /\ \A i \in 1 .. Len(inside') : inside'[i] = inside[i + 1] /\ i + 1 \in 1 .. Len(inside)
       /\ inside[1] = h
  <2>1. inside \in Seq(Nat)
    BY DEF DecoderInv, TypesInv
  <2>. QED  BY <1>2, <2>1 DEF h
<1>13. TypesInv'
  <2>1. inside' \in Seq(Nat)
    BY <1>2, <1>12
  <2>. QED  BY <1>2, <1>8, <2>1 DEF DecoderInv, TypesInv
<1>14. HeldInv'
  <2>1. /\ \A i \in 1 .. Len(inside) : inside[i] \in Nat /\ inside[i] < sample_index
        /\ \A i, j \in 1 .. Len(inside) : i < j => inside[i] < inside[j]
    BY <1>12 DEF DecoderInv, HeldInv
  <2>2. Floor' <= sample_index'
    BY <1>2, <1>3, <1>4, <1>11
  <2>3. \A i \in 1 .. Len(inside') : Floor' <= inside'[i] /\ inside'[i] < sample_index'
    BY <1>2, <1>4, <1>11, <1>12, <2>1, SMTT(60)
  <2>4. \A i, j \in 1 .. Len(inside') : i < j => inside'[i] < inside'[j]
    <3> SUFFICES ASSUME NEW i \in 1 .. Len(inside'), NEW j \in 1 .. Len(inside'), i < j
                 PROVE  inside'[i] < inside'[j]
      OBVIOUS
    <3>1. inside'[i] = inside[i + 1] /\ inside'[j] = inside[j + 1]
          /\ i + 1 \in 1 .. Len(inside) /\ j + 1 \in 1 .. Len(inside) /\ i + 1 < j + 1
      BY <1>12
    <3>. QED  BY <2>1, <3>1
  <2>5. ASSUME ~transform.stamped
        PROVE  /\ Len(inside') <= transform.depth /\ Floor' + Len(inside') = sample_index'
               /\ \A i \in 1 .. Len(inside') : inside'[i] + 1 = Floor' + i
    <3>1. transform.depth \in Nat
      BY DecoderAssumption DEF DecoderInv, TypesInv
    <3>2. /\ Len(inside) <= transform.depth /\ Floor + Len(inside) = sample_index
          /\ \A i \in 1 .. Len(inside) : inside[i] + 1 = Floor + i
      BY <2>5 DEF DecoderInv, HeldInv
    <3>3. Len(inside') <= transform.depth /\ Floor' + Len(inside') = sample_index'
      BY <1>2, <1>3, <1>4, <1>11, <1>12, <2>5, <3>1, <3>2, SMTT(60)
    <3>4. \A i \in 1 .. Len(inside') : inside'[i] + 1 = Floor' + i
      <4> SUFFICES ASSUME NEW i \in 1 .. Len(inside') PROVE inside'[i] + 1 = Floor' + i
        OBVIOUS
      <4>1. inside'[i] = inside[i + 1] /\ i + 1 \in 1 .. Len(inside)
        BY <1>12
      <4>2. inside[i + 1] + 1 = Floor + (i + 1)
        BY <3>2, <4>1
      <4>. QED  BY <1>3, <1>4, <1>11, <2>5, <4>1, <4>2
    <3>. QED  BY <3>3, <3>4
  <2>. QED  BY <1>2, <2>2, <2>3, <2>4, <2>5 DEF HeldInv
<1> DEFINE oldest == IF h + 1 + MaxPending < sample_index THEN sample_index - MaxPending ELSE h + 1
<1>15. /\ time = IF sample_index - h <= MaxPending THEN captures[h + 1] ELSE NoTime
       /\ capture_times' = [s \in oldest .. sample_index - 1 |-> capture_times[s]]
  BY <1>1, <1>2, TimeGiven DEF h
<1>16. TableInv'
  <2>1. Oldest' = oldest
    BY <1>2, <1>11 DEF Oldest
  <2>2. oldest .. sample_index - 1 \subseteq Oldest .. sample_index - 1
    BY <1>3, <1>4
  <2>3. /\ capture_times \in [Oldest .. sample_index - 1 -> Nat]
        /\ \A s \in Oldest .. sample_index - 1 : capture_times[s] = captures[s + 1]
        /\ pc # "receive" => capture_time \in Nat
    BY DEF DecoderInv, TableInv
  <2> HIDE DEF oldest
  <2>4. capture_times' \in [oldest .. sample_index - 1 -> Nat]
        /\ \A s \in oldest .. sample_index - 1 : capture_times'[s] = captures[s + 1]
    BY <1>15, <2>2, <2>3
  <2>. QED  BY <1>2, <2>1, <2>3, <2>4 DEF TableInv
<1>17. GeometryInv'
  BY <1>2 DEF DecoderInv, GeometryInv, geometry
<1>18. HistoryInv'
  <2>1. \A o \in DOMAIN outputs :
              outputs[o].sample < outputs[o].accepted /\ outputs[o].accepted <= sample_index
    BY DEF DecoderInv, HistoryInv
  <2>2. \A o \in DOMAIN outputs' :
              outputs'[o].sample < outputs'[o].accepted /\ outputs'[o].accepted <= sample_index'
    <3> SUFFICES ASSUME NEW o \in 1 .. Len(outputs) + 1
                 PROVE  outputs'[o].sample < outputs'[o].accepted
                        /\ outputs'[o].accepted <= sample_index
      BY <1>2, <1>8
    <3>1. CASE o = Len(outputs) + 1
      BY <1>3, <1>4, <1>8, <1>9, <3>1
    <3>2. CASE o # Len(outputs) + 1
      BY <1>8, <2>1, <3>2
    <3>. QED  BY <3>1, <3>2
  <2>3. OwnTimeOrNone'
    <3> SUFFICES ASSUME NEW o \in 1 .. Len(outputs) + 1
                 PROVE  outputs'[o].capture =
                           IF outputs'[o].accepted - outputs'[o].sample <= MaxPending
                           THEN captures[outputs'[o].sample + 1] ELSE NoTime
      BY <1>2, <1>8 DEF OwnTimeOrNone
    <3>1. CASE o = Len(outputs) + 1
      BY <1>8, <1>9, <1>15, <3>1
    <3>2. CASE o # Len(outputs) + 1
      <4>1. o \in DOMAIN outputs /\ outputs'[o] = outputs[o]
        BY <1>8, <3>2
      <4>. QED  BY <4>1 DEF DecoderInv, HistoryInv, PicturesAreTheirOwn, OwnTimeOrNone
    <3>. QED  BY <3>1, <3>2
  <2>4. OwnRows'
    <3> SUFFICES ASSUME NEW o \in 1 .. Len(outputs) + 1
                 PROVE  LET own == transform.layouts[outputs'[o].sample + 1]
                        IN  outputs'[o].rows = RowsAt(own.stride, own.height)
      BY <1>2, <1>8 DEF OwnRows
    <3>1. CASE o = Len(outputs) + 1
      BY <1>2, <1>5, <1>8, <1>9, <1>10, <3>1
    <3>2. CASE o # Len(outputs) + 1
      <4>1. o \in DOMAIN outputs /\ outputs'[o] = outputs[o]
        BY <1>8, <3>2
      <4>. QED  BY <4>1 DEF DecoderInv, HistoryInv, PicturesAreTheirOwn, OwnRows
    <3>. QED  BY <3>1, <3>2
  <2>. QED  BY <2>2, <2>3, <2>4 DEF HistoryInv, PicturesAreTheirOwn
<1>. QED  BY <1>13, <1>14, <1>16, <1>17, <1>18 DEF DecoderInv

\* The type changes in midstream, and the geometry with it.
LEMMA ChangesStream ==
  ASSUME DecoderInv, StreamChange
  PROVE  DecoderInv'
<1>1. /\ inside # <<>> /\ layout' = NextLayout /\ pc \in {"drain_first", "drain"}
      /\ UNCHANGED <<clock, transform, inside, sample_index, capture_times, frames,
                     capture_time, frame, late_frames, captures, outputs, presented>>
      /\ pc' \in {pc, "failed"}
  BY DEF StreamChange, verdict, history
<1>2. Floor' = Floor /\ Oldest' = Oldest
  BY <1>1 DEF Floor, Oldest
<1>3. TypesInv' /\ HeldInv' /\ TableInv'
  BY <1>1, <1>2 DEF DecoderInv, TypesInv, HeldInv, TableInv
<1>4. HistoryInv'
  BY <1>1 DEF DecoderInv, HistoryInv, PicturesAreTheirOwn, OwnTimeOrNone, OwnRows
<1>5. GeometryInv'
  <2>1. layout' \in LayoutsOf(transform) /\ transform \in Transforms
    BY <1>1, HeldLongest DEF DecoderInv, TypesInv, NextLayout, LayoutsOf
  <2>2. CASE Fits(layout')
    <3>1. output_stride' = Stride(layout') /\ output_height' = layout'.height
      BY <2>2 DEF StreamChange, Configured
    <3>2. Stride(layout') = layout'.stride
      BY <2>1, <2>2, LayoutIsTyped
    <3>. QED  BY <1>1, <2>1, <2>2, <3>1, <3>2 DEF GeometryInv
  <2>3. CASE ~Fits(layout')
    BY <2>3 DEF StreamChange, GeometryInv
  <2>. QED  BY <2>2, <2>3
<1>. QED  BY <1>3, <1>4, <1>5 DEF DecoderInv

\* The other steps leave the transform, the table and the history alone.
LEMMA LeavesAlone ==
  ASSUME DecoderInv, TypesInv',
         UNCHANGED <<sample_index, capture_times, geometry, decoder, captures, outputs>>,
         pc' # "receive" => capture_time' \in Nat,
         pc' # "failed" => pc # "failed"
  PROVE  DecoderInv'
<1>1. UNCHANGED <<sample_index, capture_times, output_stride, output_height, transform, inside,
                  layout, captures, outputs>>
  BY DEF geometry, decoder
<1>2. Floor' = Floor /\ Oldest' = Oldest
  BY <1>1 DEF Floor, Oldest
<1>3. HeldInv'
  BY <1>1, <1>2 DEF DecoderInv, HeldInv
<1>4. TableInv'
  BY <1>1, <1>2 DEF DecoderInv, TableInv
<1>5. GeometryInv'
  BY <1>1 DEF DecoderInv, GeometryInv
<1>6. HistoryInv'
  BY <1>1 DEF DecoderInv, HistoryInv, PicturesAreTheirOwn, OwnTimeOrNone, OwnRows
<1>. QED  BY <1>3, <1>4, <1>5, <1>6 DEF DecoderInv

LEMMA DiscardsPicture ==
  ASSUME DecoderInv, Discard
  PROVE  DecoderInv'
<1>1. /\ transform.stamped /\ inside # <<>> /\ inside' = Tail(inside)
      /\ UNCHANGED <<clock, transform, layout, sample_index, capture_times, frames, output_stride,
                     output_height, pc, capture_time, frame, late_frames, captures, outputs,
                     presented>>
  BY DEF Discard, wrapper, geometry, verdict, history
<1>2. Floor' = Floor /\ Oldest' = Oldest
  BY <1>1 DEF Floor, Oldest
<1>3. inside \in Seq(Nat) /\ inside' \in Seq(Nat) /\ Len(inside') = Len(inside) - 1
      /\ Len(inside) \in Nat /\ Len(inside) > 0
      /\ \A i \in 1 .. Len(inside') : inside'[i] = inside[i + 1] /\ i + 1 \in 1 .. Len(inside)
  <2>1. inside \in Seq(Nat)
    BY DEF DecoderInv, TypesInv
  <2>. QED  BY <1>1, <2>1
<1>4. TypesInv'
  BY <1>1, <1>3 DEF DecoderInv, TypesInv
<1>5. HeldInv'
  <2>1. /\ Floor <= sample_index
        /\ \A i \in 1 .. Len(inside) : Floor <= inside[i] /\ inside[i] < sample_index
        /\ \A i, j \in 1 .. Len(inside) : i < j => inside[i] < inside[j]
    BY DEF DecoderInv, HeldInv
  <2>2. \A i \in 1 .. Len(inside') : Floor <= inside'[i] /\ inside'[i] < sample_index
    BY <1>3, <2>1
  <2>3. ASSUME NEW i \in 1 .. Len(inside'), NEW j \in 1 .. Len(inside'), i < j
        PROVE  inside'[i] < inside'[j]
    <3>1. inside'[i] = inside[i + 1] /\ inside'[j] = inside[j + 1]
          /\ i + 1 \in 1 .. Len(inside) /\ j + 1 \in 1 .. Len(inside) /\ i + 1 < j + 1
      BY <1>3, <2>3, SMTT(60)
    <3>. QED  BY <2>1, <3>1
  <2>. QED  BY <1>1, <1>2, <2>1, <2>2, <2>3 DEF HeldInv
<1>6. TableInv' /\ GeometryInv'
  BY <1>1, <1>2 DEF DecoderInv, TableInv, GeometryInv
<1>7. HistoryInv'
  BY <1>1 DEF DecoderInv, HistoryInv, PicturesAreTheirOwn, OwnTimeOrNone, OwnRows
<1>. QED  BY <1>4, <1>5, <1>6, <1>7 DEF DecoderInv

LEMMA InitDecoder == Init => DecoderInv
<1> SUFFICES ASSUME Init PROVE DecoderInv
  OBVIOUS
<1>1. /\ clock = 1 /\ sample_index = 0 /\ capture_times = <<>> /\ frames = <<>>
      /\ transform \in Transforms /\ inside = <<>> /\ layout = transform.first /\ Fits(layout)
      /\ output_stride = Stride(layout) /\ output_height = layout.height
      /\ pc = "receive" /\ frame = NoFrame /\ late_frames = 0
      /\ captures = <<>> /\ outputs = <<>> /\ presented = <<>>
  BY DEF Init
<1>2. MaxUnits \in Nat /\ MaxPending \in Nat /\ NoFrame \in Pictures
  BY DecoderAssumption DEF NoFrame, NoTime, Pictures
<1>3. Floor = 0 /\ Oldest = 0
  BY <1>1, <1>2 DEF Floor, Oldest
<1>4. TypesInv
  BY <1>1, <1>2 DEF TypesInv
<1>5. HeldInv
  <2>1. Len(inside) = 0
    BY <1>1
  <2>2. transform.depth \in Nat
    BY <1>1, DecoderAssumption
  <2>. QED  BY <1>1, <1>3, <2>1, <2>2 DEF HeldInv
<1>6. TableInv
  <2>1. Oldest .. sample_index - 1 = {}
    BY <1>1, <1>3
  <2>2. capture_times \in [{} -> Nat]
    BY <1>1
  <2>. QED  BY <1>1, <2>1, <2>2 DEF TableInv
<1>7. GeometryInv
  <2>1. layout \in LayoutsOf(transform)
    BY <1>1 DEF LayoutsOf
  <2>. QED  BY <1>1, <2>1, LayoutIsTyped DEF GeometryInv
<1>8. HistoryInv
  <2>1. DOMAIN outputs = {}
    BY <1>1
  <2>. QED  BY <2>1 DEF HistoryInv, PicturesAreTheirOwn, OwnTimeOrNone, OwnRows
<1>. QED  BY <1>4, <1>5, <1>6, <1>7, <1>8 DEF DecoderInv

LEMMA NextDecoder ==
  ASSUME DecoderInv, TableHoldsUnstamped, [Next]_vars
  PROVE  DecoderInv'
<1> USE DEF DecoderInv, wrapper, decoder, geometry, verdict, history
<1>1. CASE Tick
  <2>1. clock' \in Nat /\ UNCHANGED <<wrapper, decoder, pc, capture_time, frame, verdict, history>>
    BY <1>1 DEF Tick, TypesInv
  <2>2. TypesInv'
    BY <2>1 DEF TypesInv
  <2>. QED  BY <2>1, <2>2, LeavesAlone DEF TableInv
<1>2. CASE DecodeCall
  <2>1. /\ pc = "receive" /\ pc' = "input" /\ sample_index < MaxUnits
        /\ UNCHANGED <<clock, wrapper, decoder, frame, verdict, history>>
        /\ capture_time' \in Nat
    BY <1>2 DEF DecodeCall, TypesInv
  <2>2. TypesInv'
    BY <2>1 DEF TypesInv
  <2>. QED  BY <2>1, <2>2, LeavesAlone
<1>3. CASE InputAccepted
  BY <1>3, Accepts
<1>4. CASE NotAccepting \/ NeedMoreInput \/ DecodeFails \/ LoopAgain
  <2>1. /\ UNCHANGED <<clock, wrapper, decoder, capture_time, frame, verdict, history>>
        /\ pc # "receive" /\ pc # "failed"
        /\ pc' \in {"input_again", "drain_first"} => pc \in {"input", "input_again", "drain_first"}
        /\ pc' # "input"
    BY <1>4 DEF NotAccepting, NeedMoreInput, DecodeFails, LoopAgain
  <2>2. TypesInv'
    BY <2>1 DEF TypesInv
  <2>. QED  BY <2>1, <2>2, LeavesAlone DEF TableInv
<1>5. CASE StreamChange
  BY <1>5, ChangesStream
<1>6. CASE Output
  BY <1>6, PutsOut
<1>7. CASE Discard
  BY <1>7, DiscardsPicture
<1>8. CASE DropLateFrame
  <2>1. /\ pc = "present" /\ frames # <<>> /\ frames' = Tail(frames)
        /\ late_frames' = late_frames + 1
        /\ UNCHANGED <<clock, sample_index, capture_times, geometry, decoder, pc, capture_time,
                       frame, history>>
    BY <1>8 DEF DropLateFrame
  <2>2. frames' \in Seq(Pictures) /\ late_frames' \in Nat
    BY <2>1 DEF TypesInv
  <2>3. TypesInv'
    BY <2>1, <2>2 DEF TypesInv
  <2>. QED  BY <2>1, <2>3, LeavesAlone DEF TableInv
<1>9. CASE PresentFrame
  <2>1. /\ pc = "present" /\ pc' = "presenting" /\ frames # <<>>
        /\ frame' = Head(frames) /\ frames' = Tail(frames)
        /\ UNCHANGED <<clock, sample_index, capture_times, geometry, decoder, capture_time,
                       verdict, history>>
    BY <1>9 DEF PresentFrame
  <2>2. frames' \in Seq(Pictures) /\ frame' \in Pictures
    BY <2>1 DEF TypesInv
  <2>3. TypesInv'
    BY <2>1, <2>2 DEF TypesInv
  <2>. QED  BY <2>1, <2>3, LeavesAlone DEF TableInv
<1>10. CASE FramePresented
  <2>1. /\ pc = "presenting" /\ pc' = "present"
        /\ presented' = Append(presented, [sample |-> frame.sample, capture |-> frame.capture,
                                           at |-> clock])
        /\ UNCHANGED <<clock, wrapper, decoder, capture_time, frame, late_frames, captures,
                       outputs>>
    BY <1>10 DEF FramePresented
  <2>2. frame \in Pictures /\ clock \in Nat /\ presented \in Seq(Presented)
    BY DEF TypesInv
  <2>3. [sample |-> frame.sample, capture |-> frame.capture, at |-> clock] \in Presented
    BY <2>2 DEF Pictures, Presented
  <2>4. presented' \in Seq(Presented)
    BY <2>1, <2>2, <2>3
  <2>5. TypesInv'
    BY <2>1, <2>4 DEF TypesInv
  <2>. QED  BY <2>1, <2>5, LeavesAlone DEF TableInv
<1>11. CASE UNCHANGED vars
  <2>1. UNCHANGED <<clock, wrapper, decoder, pc, capture_time, frame, verdict, history>>
    BY <1>11 DEF vars
  <2>2. TypesInv'
    BY <2>1 DEF TypesInv
  <2>. QED  BY <2>1, <2>2, LeavesAlone DEF TableInv
<1>. QED  BY <1>1, <1>2, <1>3, <1>4, <1>5, <1>6, <1>7, <1>8, <1>9, <1>10, <1>11 DEF Next

THEOREM DecoderInvariant ==
  ASSUME TableHoldsUnstamped
  PROVE  Spec => []DecoderInv
<1>1. DecoderInv /\ [Next]_vars => DecoderInv'
  BY NextDecoder
<1>. QED  BY <1>1, InitDecoder, PTL DEF Spec

\* A picture comes out with its own capture time or none (mf_h264_decoder.cpp,
\* capture_time_for_output) and with its own pixels (copy_nv12), whatever the
\* transform keeps, discards and changes, when the table holds what a transform
\* without sample times can hold.
THEOREM PicturesAreTheirOwnHolds ==
  ASSUME TableHoldsUnstamped
  PROVE  Spec => []PicturesAreTheirOwn
<1>1. DecoderInv => PicturesAreTheirOwn
  BY DEF DecoderInv, HistoryInv
<1>. QED  BY <1>1, DecoderInvariant, PTL

-----------------------------------------------------------------------------
(* The verdict.  While no picture was late, those presented, the one being  *)
(* presented and those waiting are all that came out, in order.             *)

Same(picture, out) == picture.sample = out.sample /\ picture.capture = out.capture

OnScreen == IF pc = "presenting" THEN 1 ELSE 0

InOrder ==
    /\ Len(outputs) = Len(presented) + OnScreen + Len(frames)
    /\ \A p \in 1 .. Len(presented) : Same(presented[p], outputs[p])
    /\ pc = "presenting" => Same(frame, outputs[Len(presented) + 1])
    /\ \A f \in 1 .. Len(frames) : Same(frames[f], outputs[Len(presented) + OnScreen + f])

LatenciesMeasured ==
    \A p \in 1 .. Len(presented) :
       presented[p].capture # NoTime => presented[p].at - presented[p].capture \in latencies

VerdictInv ==
    /\ late_frames = 0 => InOrder
    /\ LatenciesMeasured
    /\ pc = "receive" => frames = <<>>

LEMMA Lengths ==
  ASSUME TypesInv
  PROVE  /\ Len(outputs) \in Nat /\ Len(presented) \in Nat /\ Len(frames) \in Nat
         /\ OnScreen \in Nat /\ late_frames \in Nat
BY DEF TypesInv, OnScreen

\* A picture that comes out waits behind those before it.
LEMMA WaitsInOrder ==
  ASSUME TypesInv, VerdictInv, Output
  PROVE  VerdictInv'
<1>1. PICK picture, out :
        /\ frames' = Append(frames, picture) /\ outputs' = Append(outputs, out)
        /\ Same(picture, out)
        /\ pc \in {"drain_first", "drain"} /\ UNCHANGED <<pc, frame, late_frames, latencies, presented>>
  <2>1. PICK time \in 0 .. clock :
        /\ frames' = Append(frames, [sample |-> Head(inside), capture |-> time])
        /\ outputs' = Append(outputs, [sample |-> Head(inside), capture |-> time,
                                       accepted |-> sample_index,
                                       rows |-> RowsAt(output_stride, output_height)])
    BY DEF Output
  <2>2. Same([sample |-> Head(inside), capture |-> time],
             [sample |-> Head(inside), capture |-> time, accepted |-> sample_index,
              rows |-> RowsAt(output_stride, output_height)])
    BY DEF Same
  <2>. QED  BY <2>1, <2>2 DEF Output, verdict
<1>2. /\ Len(outputs') = Len(outputs) + 1 /\ outputs'[Len(outputs) + 1] = out
      /\ \A o \in 1 .. Len(outputs) : outputs'[o] = outputs[o]
      /\ Len(frames') = Len(frames) + 1 /\ frames'[Len(frames) + 1] = picture
      /\ \A f \in 1 .. Len(frames) : frames'[f] = frames[f]
  BY <1>1 DEF TypesInv
<1>3. OnScreen = 0 /\ OnScreen' = 0 /\ pc # "presenting" /\ pc # "receive"
  BY <1>1 DEF OnScreen
<1>4. late_frames' = 0 => InOrder'
  <2> SUFFICES ASSUME InOrder PROVE InOrder'
    BY <1>1 DEF VerdictInv
  <2> DEFINE p == Len(presented)
  <2>1. p \in Nat /\ Len(outputs) \in Nat /\ Len(frames) \in Nat /\ Len(outputs) = p + Len(frames)
    BY <1>3, Lengths DEF InOrder
  <2>2. \A i \in 1 .. p : Same(presented[i], outputs'[i])
    BY <1>2, <2>1 DEF InOrder
  <2>3. \A f \in 1 .. Len(frames') : Same(frames'[f], outputs'[p + f])
    <3> SUFFICES ASSUME NEW f \in 1 .. Len(frames) + 1 PROVE Same(frames'[f], outputs'[p + f])
      BY <1>2
    <3>1. CASE f = Len(frames) + 1
      <4>1. p + f = Len(outputs) + 1
        BY <2>1, <3>1
      <4>. QED  BY <1>1, <1>2, <3>1, <4>1
    <3>2. CASE f # Len(frames) + 1
      <4>1. f \in 1 .. Len(frames) /\ p + f \in 1 .. Len(outputs) /\ p + 0 + f = p + f
        BY <2>1, <3>2
      <4>2. Same(frames[f], outputs[p + 0 + f])
        BY <1>3, <4>1 DEF InOrder
      <4>. QED  BY <1>2, <4>1, <4>2
    <3>. QED  BY <3>1, <3>2
  <2>4. Len(outputs') = p + OnScreen' + Len(frames')
    BY <1>2, <1>3, <2>1
  <2>5. \A f \in Nat : p + 0 + f = p + f
    BY <2>1
  <2>6. \A f \in 1 .. Len(frames') : Same(frames'[f], outputs'[p + OnScreen' + f])
    BY <1>3, <2>3, <2>5
  <2>. QED  BY <1>1, <1>3, <2>2, <2>4, <2>6 DEF InOrder
<1>. QED  BY <1>1, <1>3, <1>4 DEF VerdictInv, LatenciesMeasured

\* The next picture goes to the screen.
LEMMA GoesOnScreen ==
  ASSUME TypesInv, VerdictInv, PresentFrame
  PROVE  VerdictInv'
<1>1. /\ pc = "present" /\ pc' = "presenting" /\ frames # <<>>
      /\ frame' = Head(frames) /\ frames' = Tail(frames)
      /\ UNCHANGED <<late_frames, latencies, outputs, presented>>
  BY DEF PresentFrame, verdict, history
<1>2. /\ Len(frames') = Len(frames) - 1 /\ frame' = frames[1] /\ 1 \in 1 .. Len(frames)
      /\ \A f \in 1 .. Len(frames') : frames'[f] = frames[f + 1] /\ f + 1 \in 1 .. Len(frames)
  BY <1>1 DEF TypesInv
<1>3. OnScreen = 0 /\ OnScreen' = 1
  BY <1>1 DEF OnScreen
<1>4. late_frames' = 0 => InOrder'
  <2> SUFFICES ASSUME InOrder PROVE InOrder'
    BY <1>1 DEF VerdictInv
  <2> DEFINE p == Len(presented)
  <2>1. p \in Nat /\ Len(outputs) \in Nat /\ Len(frames) \in Nat /\ Len(outputs) = p + Len(frames)
    BY <1>3, Lengths DEF InOrder
  <2>2. \A f \in 1 .. Len(frames) : Same(frames[f], outputs[p + f])
    <3>1. \A f \in 1 .. Len(frames) : Same(frames[f], outputs[p + 0 + f])
      BY <1>3 DEF InOrder
    <3>2. \A f \in 1 .. Len(frames) : p + 0 + f = p + f
      BY <2>1
    <3>. QED  BY <3>1, <3>2
  <2>3. Len(outputs') = Len(presented') + OnScreen' + Len(frames')
    BY <1>1, <1>2, <1>3, <2>1
  <2>4. Same(frame', outputs'[Len(presented') + 1])
    BY <1>1, <1>2, <2>2
  <2>5. \A f \in 1 .. Len(frames') : Same(frames'[f], outputs'[Len(presented') + OnScreen' + f])
    <3> SUFFICES ASSUME NEW f \in 1 .. Len(frames')
                 PROVE  Same(frames'[f], outputs[p + 1 + f])
      BY <1>1, <1>3
    <3>1. f + 1 \in 1 .. Len(frames) /\ frames'[f] = frames[f + 1] /\ p + (f + 1) = p + 1 + f
      BY <1>2, <2>1
    <3>. QED  BY <2>2, <3>1
  <2>6. \A i \in 1 .. Len(presented') : Same(presented'[i], outputs'[i])
    BY <1>1 DEF InOrder
  <2>. QED  BY <2>3, <2>4, <2>5, <2>6 DEF InOrder
<1>. QED  BY <1>1, <1>4 DEF VerdictInv, LatenciesMeasured

\* The picture has been presented, and its latency is measured.
LEMMA IsMeasured ==
  ASSUME TypesInv, VerdictInv, FramePresented
  PROVE  VerdictInv'
<1> DEFINE shown == [sample |-> frame.sample, capture |-> frame.capture, at |-> clock]
<1>1. /\ pc = "presenting" /\ pc' = "present" /\ latencies' = latencies \cup Measured(frame)
      /\ presented' = Append(presented, shown)
      /\ UNCHANGED <<frames, late_frames, outputs>>
  BY DEF FramePresented, wrapper
<1>2. /\ shown \in Presented
      /\ shown.sample = frame.sample /\ shown.capture = frame.capture /\ shown.at = clock
  BY DEF TypesInv, Pictures, Presented
<1> HIDE DEF shown
<1>3. /\ Len(presented') = Len(presented) + 1 /\ presented'[Len(presented) + 1] = shown
      /\ \A i \in 1 .. Len(presented) : presented'[i] = presented[i]
  BY <1>1, <1>2 DEF TypesInv
<1>4. OnScreen = 1 /\ OnScreen' = 0
  BY <1>1 DEF OnScreen
<1>5. late_frames' = 0 => InOrder'
  <2> SUFFICES ASSUME InOrder PROVE InOrder'
    BY <1>1 DEF VerdictInv
  <2> DEFINE p == Len(presented)
  <2>1. p \in Nat /\ Len(outputs) \in Nat /\ Len(frames) \in Nat
        /\ Len(outputs) = p + 1 + Len(frames)
    BY <1>4, Lengths DEF InOrder
  <2>2. Len(outputs') = Len(presented') + OnScreen' + Len(frames')
    BY <1>1, <1>3, <1>4, <2>1
  <2>3. Same(shown, outputs[p + 1])
    BY <1>1, <1>2 DEF InOrder, Same
  <2>4. \A i \in 1 .. Len(presented') : Same(presented'[i], outputs'[i])
    <3> SUFFICES ASSUME NEW i \in 1 .. p + 1 PROVE Same(presented'[i], outputs[i])
      BY <1>1, <1>3
    <3>1. CASE i = p + 1
      BY <1>3, <2>3, <3>1
    <3>2. CASE i # p + 1
      <4>1. i \in 1 .. p
        BY <2>1, <3>2
      <4>. QED  BY <1>3, <4>1 DEF InOrder
    <3>. QED  BY <3>1, <3>2
  <2>5. \A f \in 1 .. Len(frames') : Same(frames'[f], outputs'[Len(presented') + OnScreen' + f])
    <3> SUFFICES ASSUME NEW f \in 1 .. Len(frames)
                 PROVE  Same(frames[f], outputs[p + 1 + 0 + f])
      BY <1>1, <1>3, <1>4
    <3>1. p + 1 + 0 + f = p + 1 + f
      BY <2>1
    <3>2. Same(frames[f], outputs[p + 1 + f])
      BY <1>4 DEF InOrder
    <3>. QED  BY <3>1, <3>2
  <2>. QED  BY <1>1, <2>2, <2>4, <2>5 DEF InOrder
<1>6. LatenciesMeasured'
  <2>1. Len(presented) \in Nat
    BY Lengths
  <2> SUFFICES ASSUME NEW i \in 1 .. Len(presented) + 1, presented'[i].capture # NoTime
               PROVE  presented'[i].at - presented'[i].capture \in latencies'
    BY <1>3 DEF LatenciesMeasured
  <2>2. CASE i = Len(presented) + 1
    <3>1. presented'[i] = shown
      BY <1>3, <2>2
    <3>2. Measured(frame) = {clock - frame.capture}
      BY <1>2, <3>1 DEF Measured, Latency
    <3>. QED  BY <1>1, <1>2, <3>1, <3>2
  <2>3. CASE i # Len(presented) + 1
    <3>1. i \in 1 .. Len(presented)
      BY <2>1, <2>3
    <3>2. presented'[i] = presented[i]
      BY <1>3, <3>1
    <3>. QED  BY <1>1, <3>1, <3>2 DEF VerdictInv, LatenciesMeasured
  <2>. QED  BY <2>2, <2>3
<1>. QED  BY <1>1, <1>5, <1>6 DEF VerdictInv

LEMMA InitVerdict == Init => VerdictInv
<1> SUFFICES ASSUME Init PROVE VerdictInv
  OBVIOUS
<1>1. /\ pc = "receive" /\ frames = <<>> /\ outputs = <<>> /\ presented = <<>>
      /\ Len(frames) = 0 /\ Len(outputs) = 0 /\ Len(presented) = 0
  BY DEF Init
<1>2. OnScreen = 0
  BY <1>1 DEF OnScreen
<1>3. InOrder
  BY <1>1, <1>2 DEF InOrder
<1>. QED  BY <1>1, <1>3 DEF VerdictInv, LatenciesMeasured

LEMMA NextVerdict ==
  ASSUME TypesInv, VerdictInv, [Next]_vars
  PROVE  VerdictInv'
<1> USE DEF wrapper, verdict, history
\* The steps that present nothing.
<1>1. ASSUME UNCHANGED <<frames, frame, late_frames, latencies, outputs, presented>>,
             pc = "presenting" <=> pc' = "presenting", pc' = "receive" => frames = <<>>
      PROVE  VerdictInv'
  <2>1. OnScreen' = OnScreen
    BY <1>1 DEF OnScreen
  <2>. QED  BY <1>1, <2>1 DEF VerdictInv, InOrder, LatenciesMeasured
<1>2. CASE Tick \/ UNCHANGED vars
  BY <1>1, <1>2 DEF Tick, vars, VerdictInv
<1>3. CASE DecodeCall \/ NotAccepting \/ NeedMoreInput \/ DecodeFails \/ LoopAgain
  BY <1>1, <1>3 DEF DecodeCall, NotAccepting, NeedMoreInput, DecodeFails, LoopAgain
<1>4. CASE InputAccepted \/ StreamChange \/ Discard
  BY <1>1, <1>4 DEF InputAccepted, StreamChange, Discard
<1>5. CASE Output
  BY <1>5, WaitsInOrder
<1>6. CASE DropLateFrame
  <2>1. late_frames' # 0 /\ pc' # "receive"
    BY <1>6 DEF DropLateFrame, TypesInv
  <2>2. presented' = presented /\ latencies \subseteq latencies'
    BY <1>6 DEF DropLateFrame
  <2>. QED  BY <2>1, <2>2 DEF VerdictInv, LatenciesMeasured
<1>7. CASE PresentFrame
  BY <1>7, GoesOnScreen
<1>8. CASE FramePresented
  BY <1>8, IsMeasured
<1>. QED  BY <1>2, <1>3, <1>4, <1>5, <1>6, <1>7, <1>8 DEF Next

\* What a clean verdict of the receiver (main.cpp) says of the pictures: every
\* one that came out was presented, in order, and in time if its time was known.
THEOREM CleanMeansOnTimeHolds ==
  ASSUME TableHoldsUnstamped
  PROVE  Spec => []CleanMeansOnTime
<1>1. DecoderInv /\ VerdictInv => CleanMeansOnTime
  <2> SUFFICES ASSUME DecoderInv, VerdictInv, pc = "receive", Clean
               PROVE  /\ Len(presented) = Len(outputs)
                      /\ \A p \in DOMAIN presented :
                            /\ presented[p].sample = outputs[p].sample
                            /\ presented[p].capture # NoTime =>
                                  presented[p].at - captures[presented[p].sample + 1] <= MaxLatency
    BY DEF CleanMeansOnTime
  <2>1. frames = <<>> /\ InOrder /\ LatenciesMeasured /\ TypesInv
    BY DEF VerdictInv, Clean, DecoderInv
  <2>2. Len(frames) = 0 /\ OnScreen = 0 /\ Len(presented) \in Nat /\ Len(outputs) \in Nat
        /\ DOMAIN presented = 1 .. Len(presented) /\ DOMAIN outputs = 1 .. Len(outputs)
    BY <2>1, Lengths DEF OnScreen, TypesInv
  <2>3. Len(presented) = Len(outputs)
    BY <2>1, <2>2 DEF InOrder
  <2>4. ASSUME NEW p \in DOMAIN presented, presented[p].capture # NoTime
        PROVE  presented[p].at - captures[presented[p].sample + 1] <= MaxLatency
    <3>1. p \in 1 .. Len(presented) /\ p \in DOMAIN outputs
      BY <2>2, <2>3
    <3>2. presented[p].sample = outputs[p].sample /\ presented[p].capture = outputs[p].capture
      BY <2>1, <3>1 DEF InOrder, Same
    <3>3. outputs[p].capture # NoTime => outputs[p].capture = captures[outputs[p].sample + 1]
      BY <3>1 DEF DecoderInv, HistoryInv, PicturesAreTheirOwn, OwnTimeOrNone
    <3>4. presented[p].at - presented[p].capture \in latencies
      BY <2>1, <2>4, <3>1 DEF LatenciesMeasured
    <3>. QED  BY <2>4, <3>2, <3>3, <3>4 DEF Clean
  <2>5. \A p \in DOMAIN presented : presented[p].sample = outputs[p].sample
    BY <2>1, <2>2 DEF InOrder, Same
  <2>. QED  BY <2>3, <2>4, <2>5
<1>2. TypesInv /\ VerdictInv /\ [Next]_vars => VerdictInv'
  BY NextVerdict
<1>3. DecoderInv => TypesInv
  BY DEF DecoderInv
<1>. QED  BY <1>1, <1>2, <1>3, InitVerdict, DecoderInvariant, PTL DEF Spec
=============================================================================
