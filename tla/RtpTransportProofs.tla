------------------------- MODULE RtpTransportProofs -------------------------
(***************************************************************************)
(* For every stream, payload size and limit of the receiver, and whatever  *)
(* the network and a change of senders do: packets are well formed and are *)
(* read as they were written, the receiver's state keeps to its limits,    *)
(* what it completes is the end of what was sent, and an access unit that  *)
(* arrives intact is completed.                                            *)
(***************************************************************************)
EXTENDS RtpTransport, SequenceTheorems, WellFoundedInduction, NaturalsInduction, TLAPS

-----------------------------------------------------------------------------
(* Numbers.  A fact about every number follows from the least one that it  *)
(* fails for.                                                              *)

LEMMA LeastNumber ==
  ASSUME NEW S, S \subseteq Nat, S # {}
  PROVE  \E n \in S : \A m \in S : n <= m
<1>1. PICK n \in S : \A m \in S : ~(<<m, n>> \in OpToRel(<, Nat))
  BY NatLessThanWellFounded, WFMin, Zenon
<1>2. \A m \in S : ~(m < n)
  BY <1>1, Zenon DEF OpToRel
<1>. QED  BY <1>2

-----------------------------------------------------------------------------
(* What a packet carries.  A place in an access unit is the number of its  *)
(* NALs before it and the number of units of the next one.                 *)

Place(nals, units) == [nals |-> nals, units |-> units]
Places == [nals : Nat, units : Nat]

\* body carries the NALs W from place p to place q.
Carries(body, W, p, q) ==
    /\ p.nals < Len(W) /\ q.nals <= Len(W)
    /\ body.kind \in {"single", "stap", "fu"}
    /\ body.kind # "fu" => /\ p.units = 0 /\ q.units = 0 /\ p.nals < q.nals
                           /\ body.nals = SubSeq(W, p.nals + 1, q.nals)
    /\ body.kind = "single" => q.nals = p.nals + 1
    /\ body.kind = "fu" =>
          \E end \in p.units + 1 .. Len(W[p.nals + 1]) :
             /\ body.start <=> p.units = 0
             /\ body.last <=> end = Len(W[p.nals + 1])
             /\ body.header = W[p.nals + 1][1]
             /\ body.start => body.data = SubSeq(W[p.nals + 1], 2, end)
             /\ ~body.start => body.data = SubSeq(W[p.nals + 1], p.units + 1, end)
             /\ body.last => q = Place(p.nals + 1, 0)
             /\ ~body.last => q = Place(p.nals, end)

\* The packets `bodies` carry W one after the other; place[k] is where the k-th
\* one ends.  None but the last one has the marker.
Carried(bodies, W, place) ==
    /\ place \in [0 .. Len(bodies) -> Places]
    /\ place[0] = Place(0, 0)
    /\ place[Len(bodies)] = Place(Len(W), 0)
    /\ \A k \in 1 .. Len(bodies) : Carries(bodies[k].body, W, place[k - 1], place[k])
    /\ \A k \in 1 .. Len(bodies) - 1 : ~bodies[k].marker

\* Bodies and packets over units of U.
BodiesOver(U) ==
    [kind : {"single", "stap"}, nals : Seq(Seq(U))]
    \cup [kind : {"fu"}, header : U, data : Seq(U), start : BOOLEAN, last : BOOLEAN]
MarkedOver(U) == [body : BodiesOver(U), marker : BOOLEAN]

LEMMA CarriesBefore ==
  ASSUME NEW U, NEW V \in Seq(Seq(U)), NEW Z \in Seq(Seq(U)), NEW body,
         NEW p \in Places, NEW q \in Places, Carries(body, V, p, q)
  PROVE  Carries(body, V \o Z, p, q)
<1> DEFINE W == V \o Z
<1>1. /\ W \in Seq(Seq(U)) /\ Len(W) = Len(V) + Len(Z)
      /\ \A i \in 1 .. Len(V) : W[i] = V[i]
  BY ConcatProperties
<1>2. p.nals \in Nat /\ q.nals \in Nat /\ Len(V) \in Nat /\ Len(Z) \in Nat
  BY DEF Places
<1>3. p.nals < Len(W) /\ q.nals <= Len(W) /\ W[p.nals + 1] = V[p.nals + 1]
  BY <1>1, <1>2 DEF Carries
<1>4. ASSUME p.nals < q.nals
      PROVE  SubSeq(W, p.nals + 1, q.nals) = SubSeq(V, p.nals + 1, q.nals)
  <2> DEFINE m == p.nals + 1
  <2> DEFINE n == q.nals
  <2>1. q.nals <= Len(V)
    BY DEF Carries
  <2>2. m \in 1 .. Len(V) /\ n \in 1 .. Len(V)
    BY <1>2, <1>4, <2>1
  <2> HIDE DEF m, n
  <2>3. SubSeq(W, m, n) = SubSeq(V, m, n)
    BY <2>2, SubSeqOfConcat1
  <2>. QED  BY <2>3 DEF m, n
<1> HIDE DEF W
<1>. QED  BY <1>3, <1>4 DEF Carries, W

\* A place moved behind `many` NALs.
Behind(many, p) == Place(many + p.nals, p.units)

LEMMA NumbersBehind ==
  ASSUME NEW v \in Nat, NEW z \in Nat, NEW i \in Nat, NEW j \in Nat, i < j, j <= z
  PROVE  /\ v + i + 1 \in v + 1 .. v + z /\ v + j \in v + 1 .. v + z
         /\ (v + i + 1) - v = i + 1 /\ (v + j) - v = j
OBVIOUS

LEMMA CarriesBehind ==
  ASSUME NEW U, NEW V \in Seq(Seq(U)), NEW Z \in Seq(Seq(U)), NEW body,
         NEW p \in Places, NEW q \in Places, Carries(body, Z, p, q)
  PROVE  Carries(body, V \o Z, Behind(Len(V), p), Behind(Len(V), q))
<1> DEFINE W == V \o Z
<1> DEFINE a == Behind(Len(V), p)
<1> DEFINE b == Behind(Len(V), q)
<1>2. p.nals \in Nat /\ q.nals \in Nat /\ Len(V) \in Nat /\ Len(Z) \in Nat
      /\ p.nals < Len(Z) /\ q.nals <= Len(Z)
  BY DEF Places, Carries
<1>1. /\ W \in Seq(Seq(U)) /\ Len(W) = Len(V) + Len(Z)
      /\ W[Len(V) + p.nals + 1] = Z[p.nals + 1]
  BY <1>2, ConcatProperties, SMTT(60)
<1>3. /\ a.nals = Len(V) + p.nals /\ a.units = p.units
      /\ b.nals = Len(V) + q.nals /\ b.units = q.units
      /\ \A n, u : q = Place(n, u) => b = Place(Len(V) + n, u)
  BY DEF Behind, Place
<1>4. ASSUME p.nals < q.nals
      PROVE  SubSeq(W, Len(V) + p.nals + 1, Len(V) + q.nals) = SubSeq(Z, p.nals + 1, q.nals)
  <2> DEFINE m == Len(V) + p.nals + 1
  <2> DEFINE n == Len(V) + q.nals
  <2>1. m \in Len(V) + 1 .. Len(V) + Len(Z) /\ n \in Len(V) + 1 .. Len(V) + Len(Z)
        /\ m - Len(V) = p.nals + 1 /\ n - Len(V) = q.nals
    BY <1>2, <1>4, NumbersBehind, Zenon
  <2> HIDE DEF m, n
  <2>2. SubSeq(W, m, n) = SubSeq(Z, m - Len(V), n - Len(V))
    BY <2>1, SubSeqOfConcat2, Zenon
  <2>. QED  BY <2>1, <2>2 DEF m, n
<1>5. a.nals < Len(W) /\ b.nals <= Len(W) /\ W[a.nals + 1] = Z[p.nals + 1]
      /\ (a.nals < b.nals <=> p.nals < q.nals)
      /\ (b.nals = a.nals + 1 <=> q.nals = p.nals + 1)
      /\ Len(V) + (p.nals + 1) = a.nals + 1
  <2> DEFINE v == Len(V)
  <2> DEFINE z == Len(Z)
  <2> DEFINE i == p.nals
  <2> DEFINE j == q.nals
  <2>1. /\ v \in Nat /\ z \in Nat /\ i \in Nat /\ j \in Nat /\ i < z /\ j <= z
        /\ Len(W) = v + z /\ W[v + i + 1] = Z[i + 1]
        /\ a.nals = v + i /\ b.nals = v + j
    BY <1>1, <1>2, <1>3
  <2> HIDE DEF v, z, i, j, a, b, W
  <2>2. /\ a.nals < Len(W) /\ b.nals <= Len(W) /\ W[a.nals + 1] = Z[i + 1]
        /\ (a.nals < b.nals <=> i < j)
        /\ (b.nals = a.nals + 1 <=> j = i + 1)
        /\ v + (i + 1) = a.nals + 1
    BY <2>1
  <2>. QED  BY <2>2 DEF v, i, j
<1> HIDE DEF W, a, b
<1>6. body.kind # "fu" => /\ a.units = 0 /\ b.units = 0 /\ a.nals < b.nals
                          /\ body.nals = SubSeq(W, a.nals + 1, b.nals)
  BY <1>3, <1>4, <1>5 DEF Carries
<1>7. body.kind = "fu" =>
          \E end \in a.units + 1 .. Len(W[a.nals + 1]) :
             /\ body.start <=> a.units = 0
             /\ body.last <=> end = Len(W[a.nals + 1])
             /\ body.header = W[a.nals + 1][1]
             /\ body.start => body.data = SubSeq(W[a.nals + 1], 2, end)
             /\ ~body.start => body.data = SubSeq(W[a.nals + 1], a.units + 1, end)
             /\ body.last => b = Place(a.nals + 1, 0)
             /\ ~body.last => b = Place(a.nals, end)
  <2> SUFFICES ASSUME body.kind = "fu"
      PROVE \E end \in a.units + 1 .. Len(W[a.nals + 1]) :
             /\ body.start <=> a.units = 0
             /\ body.last <=> end = Len(W[a.nals + 1])
             /\ body.header = W[a.nals + 1][1]
             /\ body.start => body.data = SubSeq(W[a.nals + 1], 2, end)
             /\ ~body.start => body.data = SubSeq(W[a.nals + 1], a.units + 1, end)
             /\ body.last => b = Place(a.nals + 1, 0)
             /\ ~body.last => b = Place(a.nals, end)
    OBVIOUS
  <2>1. PICK end \in p.units + 1 .. Len(Z[p.nals + 1]) :
             /\ body.start <=> p.units = 0
             /\ body.last <=> end = Len(Z[p.nals + 1])
             /\ body.header = Z[p.nals + 1][1]
             /\ body.start => body.data = SubSeq(Z[p.nals + 1], 2, end)
             /\ ~body.start => body.data = SubSeq(Z[p.nals + 1], p.units + 1, end)
             /\ body.last => q = Place(p.nals + 1, 0)
             /\ ~body.last => q = Place(p.nals, end)
    BY DEF Carries
  <2>2. body.last => b = Place(a.nals + 1, 0)
    BY <2>1, <1>3, <1>5
  <2>3. ~body.last => b = Place(a.nals, end)
    BY <2>1, <1>3
  <2>. QED  BY <2>1, <2>2, <2>3, <1>3, <1>5
<1>8. body.kind = "single" => b.nals = a.nals + 1
  BY <1>5 DEF Carries
<1>9. body.kind \in {"single", "stap", "fu"}
  BY DEF Carries
<1>10. Carries(body, W, a, b)
  BY <1>5, <1>6, <1>7, <1>8, <1>9 DEF Carries
<1>. QED  BY <1>10 DEF W, a, b

\* What is carried, and what is carried after it.
LEMMA CarriedTogether ==
  ASSUME NEW U, NEW X \in Seq(MarkedOver(U)), NEW Y \in Seq(MarkedOver(U)),
         NEW V \in Seq(Seq(U)), NEW Z \in Seq(Seq(U)), NEW f, NEW g,
         Carried(X, V, f), Carried(Y, Z, g),
         Y = <<>> \/ \A k \in 1 .. Len(X) : ~X[k].marker
  PROVE  \E place : Carried(X \o Y, V \o Z, place)
<1> DEFINE B == X \o Y
<1> DEFINE W == V \o Z
<1> DEFINE m == Len(X)
<1> DEFINE n == Len(Y)
<1> DEFINE place == [k \in 0 .. m + n |->
                       IF k <= m THEN f[k] ELSE Behind(Len(V), g[k - m])]
<1>1. m \in Nat /\ n \in Nat /\ Len(V) \in Nat /\ Len(Z) \in Nat
  OBVIOUS
<1>2. /\ B \in Seq(MarkedOver(U)) /\ Len(B) = m + n
      /\ \A k \in 1 .. m : B[k] = X[k]
      /\ \A k \in 1 .. n : B[m + k] = Y[k]
  <2>1. \A k \in 1 .. n : m + k \in 1 .. m + n /\ ~(m + k <= m) /\ (m + k) - m = k
    BY <1>1
  <2>2. \A k \in 1 .. m : k \in 1 .. m + n /\ k <= m
    BY <1>1
  <2>. QED  BY <1>1, <2>1, <2>2, ConcatProperties
<1>3. Len(W) = Len(V) + Len(Z)
  BY ConcatProperties
<1>4. /\ f \in [0 .. m -> Places] /\ f[0] = Place(0, 0) /\ f[m] = Place(Len(V), 0)
      /\ \A k \in 1 .. m : Carries(X[k].body, V, f[k - 1], f[k])
      /\ \A k \in 1 .. m - 1 : ~X[k].marker
      /\ g \in [0 .. n -> Places] /\ g[0] = Place(0, 0) /\ g[n] = Place(Len(Z), 0)
      /\ \A k \in 1 .. n : Carries(Y[k].body, Z, g[k - 1], g[k])
      /\ \A k \in 1 .. n - 1 : ~Y[k].marker
  BY DEF Carried
<1> HIDE DEF B, W, m, n
<1>5. \A p \in Places : Behind(Len(V), p) \in Places
  BY <1>1 DEF Behind, Place, Places
<1>6. place \in [0 .. m + n -> Places]
  <2>1. \A k \in 0 .. m + n : (k <= m => k \in 0 .. m) /\ (~(k <= m) => k - m \in 0 .. n)
    BY <1>1
  <2>. QED  BY <1>4, <1>5, <2>1
<1>7. /\ \A k \in 0 .. m : place[k] = f[k]
      /\ \A k \in 0 .. m + n : ~(k <= m) => place[k] = Behind(Len(V), g[k - m])
  BY <1>1
<1> HIDE DEF place
<1>8. \A k \in 0 .. n : place[m + k] = Behind(Len(V), g[k])
  <2> TAKE k \in 0 .. n
  <2>1. CASE k = 0
    <3>1. m + k = m /\ m \in 0 .. m
      BY <2>1, <1>1
    <3>2. Behind(Len(V), Place(0, 0)) = Place(Len(V), 0)
      BY <1>1 DEF Behind, Place
    <3>. QED  BY <2>1, <3>1, <3>2, <1>7, <1>4
  <2>2. CASE k # 0
    <3>1. m + k \in 0 .. m + n /\ ~(m + k <= m) /\ (m + k) - m = k
      BY <2>2, <1>1
    <3>2. place[m + k] = Behind(Len(V), g[(m + k) - m])
      BY <3>1, <1>7
    <3>. QED  BY <3>1, <3>2
  <2>. QED  BY <2>1, <2>2
<1>9. place[0] = Place(0, 0) /\ place[m + n] = Place(Len(W), 0)
  <2>1. 0 \in 0 .. m /\ n \in 0 .. n
    BY <1>1
  <2>2. Behind(Len(V), Place(Len(Z), 0)) = Place(Len(W), 0)
    BY <1>3 DEF Behind, Place
  <2>. QED  BY <2>1, <2>2, <1>4, <1>7, <1>8
<1>10. \A k \in 1 .. m + n : Carries(B[k].body, W, place[k - 1], place[k])
  <2> TAKE k \in 1 .. m + n
  <2>1. CASE k <= m
    <3>1. k \in 1 .. m /\ k \in 0 .. m /\ k - 1 \in 0 .. m
      BY <2>1, <1>1
    <3>2. Carries(X[k].body, W, f[k - 1], f[k])
      BY <3>1, <1>4, CarriesBefore DEF W
    <3>. QED  BY <3>1, <3>2, <1>2, <1>7
  <2>2. CASE ~(k <= m)
    <3> DEFINE i == k - m
    <3>1. i \in 1 .. n /\ i \in 0 .. n /\ i - 1 \in 0 .. n /\ k = m + i /\ k - 1 = m + (i - 1)
      BY <2>2, <1>1
    <3> HIDE DEF i
    <3>2. Carries(Y[i].body, W, Behind(Len(V), g[i - 1]), Behind(Len(V), g[i]))
      BY <3>1, <1>4, CarriesBehind DEF W
    <3>3. B[k] = Y[i] /\ place[k] = Behind(Len(V), g[i]) /\ place[k - 1] = Behind(Len(V), g[i - 1])
      BY <3>1, <1>2, <1>8
    <3>. QED  BY <3>2, <3>3
  <2>. QED  BY <2>1, <2>2
<1>11. \A k \in 1 .. (m + n) - 1 : ~B[k].marker
  <2> TAKE k \in 1 .. (m + n) - 1
  <2>1. CASE k <= m
    <3>1. k \in 1 .. m
      BY <2>1, <1>1
    <3>2. Y = <<>> => n = 0
      BY DEF n
    <3>3. Y = <<>> => k \in 1 .. m - 1
      BY <3>1, <3>2, <1>1
    <3>. QED  BY <3>1, <3>3, <1>2, <1>4 DEF m
  <2>2. CASE ~(k <= m)
    <3> DEFINE i == k - m
    <3>1. i \in 1 .. n /\ i \in 1 .. n - 1 /\ k = m + i
      BY <2>2, <1>1
    <3> HIDE DEF i
    <3>. QED  BY <3>1, <1>2, <1>4
  <2>. QED  BY <2>1, <2>2
<1>12. Carried(B, W, place)
  <2>1. Len(B) = m + n
    BY <1>2
  <2>2. /\ place \in [0 .. Len(B) -> Places] /\ place[Len(B)] = Place(Len(W), 0)
        /\ \A k \in 1 .. Len(B) : Carries(B[k].body, W, place[k - 1], place[k])
        /\ \A k \in 1 .. Len(B) - 1 : ~B[k].marker
    BY <2>1, <1>6, <1>9, <1>10, <1>11
  <2>. QED  BY <2>2, <1>9 DEF Carried
<1>. QED  BY <1>12 DEF B, W

\* A body of its own for the NALs W.
LEMMA OneCarries ==
  ASSUME NEW U, NEW W \in Seq(Seq(U)), W # <<>>, NEW body, NEW bodies,
         Len(bodies) = 1, bodies[1].body = body,
         body.kind \in {"single", "stap"}, body.nals = W, body.kind = "single" => Len(W) = 1
  PROVE  \E place : Carried(bodies, W, place)
<1> DEFINE place == [k \in 0 .. 1 |-> Place(IF k = 0 THEN 0 ELSE Len(W), 0)]
<1>1. Len(W) \in Nat /\ Len(W) > 0
  BY EmptySeq
<1>3. place \in [0 .. 1 -> Places] /\ place[0] = Place(0, 0) /\ place[1] = Place(Len(W), 0)
  BY <1>1 DEF Place, Places
<1>4. SubSeq(W, 1, Len(W)) = W
  BY SubSeqFull
<1> HIDE DEF place
<1>5. Carries(body, W, place[0], place[1])
  <2>1. /\ Place(0, 0).nals = 0 /\ Place(0, 0).units = 0
        /\ Place(Len(W), 0).nals = Len(W) /\ Place(Len(W), 0).units = 0
    BY DEF Place
  <2>2. 0 + 1 = 1 /\ body.kind # "fu"
    OBVIOUS
  <2> DEFINE p == Place(0, 0)
  <2> DEFINE q == Place(Len(W), 0)
  <2> HIDE DEF p, q
  <2>3. /\ p.nals = 0 /\ p.units = 0 /\ q.nals = Len(W) /\ q.units = 0
    BY <2>1 DEF p, q
  <2>4. body.nals = SubSeq(W, p.nals + 1, q.nals)
    BY <2>2, <2>3, <1>4
  <2>5. Carries(body, W, p, q)
    BY <2>2, <2>3, <2>4, <1>1 DEF Carries
  <2>. QED  BY <2>5, <1>3 DEF p, q
<1>6. Carried(bodies, W, place)
  BY <1>3, <1>5 DEF Carried
<1>. QED  BY <1>6

LEMMA OneMarked ==
  ASSUME NEW nals, NEW body, NEW end
  PROVE  Marked(nals, <<body>>, end) = <<[body |-> body, marker |-> end = Len(nals) + 1]>>
<1> DEFINE marked == Marked(nals, <<body>>, end)
<1>1. marked = [k \in 1 .. 1 |-> [body |-> body, marker |-> end = Len(nals) + 1]]
  <2>1. marked = [k \in 1 .. 1 |-> [body |-> <<body>>[k], marker |-> end = Len(nals) + 1 /\ k = 1]]
    BY DEF Marked
  <2>2. \A k \in 1 .. 1 : /\ k = 1 /\ <<body>>[k] = body
                          /\ (end = Len(nals) + 1 /\ k = 1) = (end = Len(nals) + 1)
    OBVIOUS
  <2>. QED  BY <2>1, <2>2
<1>. QED  BY <1>1

\* How far the fragments of `size` units reach, when each has room for `room`.
LEMMA FragmentsReach ==
  ASSUME NEW room \in Nat, room > 0, NEW size \in Nat, size > 0, NEW count,
         count = (size + room - 1) \div room
  PROVE  /\ count \in Nat /\ count > 0
         /\ (count - 1) * room < size /\ size <= count * room
         /\ \A k \in 1 .. count - 1 : k * room \in Nat /\ k * room < size
<1> DEFINE x == size + room - 1
<1> DEFINE r == x % room
<1>1. x \in Nat /\ count \in Int /\ r \in 0 .. room - 1 /\ x = room * count + r
  OBVIOUS
<1> DEFINE all == room * count
<1>2. all \in Int /\ count * room = all /\ (count - 1) * room = all - room
  BY <1>1
<1>3. (count - 1) * room < size /\ size <= count * room
  <2>1. x = size + room - 1 /\ x = all + r
    BY <1>1
  <2> HIDE DEF x, r, all
  <2>. QED  BY <1>1, <1>2, <2>1
<1> HIDE DEF x, r, all
<1>4. count > 0
  <2> SUFFICES ASSUME ~(count > 0) PROVE FALSE
    OBVIOUS
  <2>1. count * room <= 0
    BY <1>1
  <2>. QED  BY <1>3, <2>1
<1>5. ASSUME NEW k \in 1 .. count - 1 PROVE k * room \in Nat /\ k * room < size
  <2>1. k * room \in Nat /\ k * room <= (count - 1) * room
    BY <1>1, <1>5
  <2> DEFINE kr == k * room
  <2> DEFINE cr == (count - 1) * room
  <2>2. kr \in Nat /\ cr \in Int /\ kr <= cr /\ cr < size
    BY <2>1, <1>1, <1>3
  <2> HIDE DEF kr, cr
  <2>3. kr < size
    BY <2>2
  <2>. QED  BY <2>1, <2>3 DEF kr
<1>. QED  BY <1>1, <1>3, <1>4, <1>5

LEMMA MinOfTwo ==
  ASSUME NEW a \in Int, NEW b \in Int
  PROVE  Min({a, b}) \in {a, b} /\ Min({a, b}) <= a /\ Min({a, b}) <= b
<1>1. \E x \in {a, b} : \A y \in {a, b} : x <= y
  OBVIOUS
<1>. QED  BY <1>1 DEF Min

LEMMA TailSubSeq ==
  ASSUME NEW U, NEW nal \in Seq(U), Len(nal) > 0, NEW a \in Nat, NEW b \in 1 .. Len(nal) - 1, a < b
  PROVE  /\ SubSeq(Tail(nal), a + 1, b) \in Seq(U)
         /\ SubSeq(Tail(nal), a + 1, b) = SubSeq(nal, a + 2, b + 1)
<1> DEFINE data == Tail(nal)
<1> DEFINE size == Len(nal) - 1
<1>1. Len(nal) \in Nat /\ size \in Nat /\ Len(nal) = size + 1 /\ b \in 1 .. size
  OBVIOUS
<1>2. /\ nal # <<>> /\ data \in Seq(U) /\ Len(data) = size
      /\ \A i \in 1 .. size : data[i] = nal[i + 1]
  <2>1. nal # <<>>
    BY <1>1
  <2>. QED  BY <2>1, <1>1, HeadTailProperties
<1> HIDE DEF data, size
<1> DEFINE m == a + 1
<1> DEFINE k == a + 2
<1> DEFINE n == b + 1
<1>3. /\ m \in 1 .. b /\ k \in 1 .. n /\ n \in 1 .. Len(nal) /\ b \in 1 .. Len(data)
      /\ m \in Int /\ k \in Int /\ n \in Int /\ m = a + 1 /\ k = a + 2 /\ n = b + 1
  BY <1>1, <1>2
<1> HIDE DEF m, k, n
<1> DEFINE s == SubSeq(data, m, b)
<1> DEFINE t == SubSeq(nal, k, n)
<1>4. \A i \in m .. b : data[i] \in U
  BY <1>2, <1>3, ElementOfSeq
<1>5. \A i \in k .. n : nal[i] \in U
  BY <1>3, ElementOfSeq
<1>6. s \in Seq(U) /\ Len(s) = b - a /\ \A i \in 1 .. b - a : s[i] = data[a + i]
  <2>1. /\ s \in Seq(U) /\ Len(s) = IF m <= b THEN b - m + 1 ELSE 0
        /\ \A i \in 1 .. b - m + 1 : s[i] = data[m + i - 1]
    BY <1>3, <1>4, SubSeqProperties, SMTT(60)
  <2>2. b - m + 1 = b - a /\ \A i \in 1 .. b - a : m + i - 1 = a + i
    BY <1>3
  <2>. QED  BY <1>3, <2>1, <2>2
<1>7. t \in Seq(U) /\ Len(t) = b - a /\ \A i \in 1 .. b - a : t[i] = nal[a + i + 1]
  <2>1. /\ t \in Seq(U) /\ Len(t) = IF k <= n THEN n - k + 1 ELSE 0
        /\ \A i \in 1 .. n - k + 1 : t[i] = nal[k + i - 1]
    BY <1>3, <1>5, SubSeqProperties
  <2>2. n - k + 1 = b - a /\ \A i \in 1 .. b - a : k + i - 1 = a + i + 1
    BY <1>3
  <2>. QED  BY <1>3, <2>1, <2>2
<1> HIDE DEF s, t
<1>8. \A i \in 1 .. b - a : s[i] = t[i]
  <2> TAKE i \in 1 .. b - a
  <2>1. a + i \in 1 .. size
    BY <1>1
  <2>. QED  BY <2>1, <1>2, <1>6, <1>7
<1>9. s = t
  BY <1>6, <1>7, <1>8, SeqEqual
<1>. QED  BY <1>6, <1>9 DEF s, t, m, k, n, data

\* The fragments of a NAL reach its end one after the other.
FragmentCount(nal) == (Len(Tail(nal)) + (MaxPayload - 2) - 1) \div (MaxPayload - 2)

LEMMA FragmentsAre ==
  ASSUME NEW U, NEW nal \in Seq(U), Len(nal) > MaxPayload
  PROVE  /\ FragmentCount(nal) \in Nat /\ FragmentCount(nal) > 0
         /\ Fragments(nal) \in Seq(BodiesOver(U)) /\ Len(Fragments(nal)) = FragmentCount(nal)
         /\ \E end \in [0 .. FragmentCount(nal) -> Nat] :
               /\ end[0] = 0 /\ end[FragmentCount(nal)] = Len(nal)
               /\ \A k \in 1 .. FragmentCount(nal) :
                     /\ end[k - 1] < end[k] /\ end[k] <= Len(nal) /\ end[k] > 1
                     /\ end[k - 1] = 0 <=> k = 1
                     /\ end[k] = Len(nal) <=> k = FragmentCount(nal)
                     /\ Fragments(nal)[k] =
                           Fragment(nal[1], SubSeq(nal, (IF k = 1 THEN 1 ELSE end[k - 1]) + 1, end[k]),
                                    k = 1, k = FragmentCount(nal))
<1> DEFINE room == MaxPayload - 2
<1> DEFINE data == Tail(nal)
<1> DEFINE size == Len(nal) - 1
<1> DEFINE count == FragmentCount(nal)
<1> DEFINE upTo(k) == Min({k * room, size})
<1> DEFINE end == [k \in 0 .. count |-> IF k = 0 THEN 0 ELSE upTo(k) + 1]
<1>1. room \in Nat /\ room > 0 /\ Len(nal) \in Nat /\ size \in Nat /\ size > 0 /\ Len(nal) = size + 1
  BY PayloadAssumption
<1>2. /\ nal # <<>> /\ data \in Seq(U) /\ Len(data) = size /\ Head(nal) = nal[1] /\ nal[1] \in U
      /\ \A i \in 1 .. size : data[i] = nal[i + 1]
  <2>1. nal # <<>>
    BY <1>1
  <2>. QED  BY <2>1, <1>1, HeadTailProperties
<1>3. count = (size + room - 1) \div room
  BY <1>1, <1>2 DEF FragmentCount
<1> HIDE DEF room, size, count
<1>4. /\ count \in Nat /\ count > 0
      /\ (count - 1) * room < size /\ size <= count * room
      /\ \A k \in 1 .. count - 1 : k * room \in Nat /\ k * room < size
  BY <1>1, <1>3, FragmentsReach
<1>5. \A k \in 1 .. count - 1 : upTo(k) = k * room /\ upTo(k) < size
  <2> TAKE k \in 1 .. count - 1
  <2> DEFINE kr == k * room
  <2>1. kr \in Nat /\ kr < size
    BY <1>4
  <2> HIDE DEF kr
  <2>2. Min({kr, size}) \in {kr, size} /\ Min({kr, size}) <= kr
    <3>1. kr \in Int /\ size \in Int
      BY <2>1, <1>1
    <3>. QED  BY <3>1, MinOfTwo, Zenon
  <2>3. Min({kr, size}) = kr
    BY <2>1, <2>2, <1>1
  <2>. QED  BY <2>1, <2>3 DEF kr
<1>6. upTo(count) = size
  <2>1. count * room \in Int /\ size <= count * room
    BY <1>1, <1>4
  <2> DEFINE c == count * room
  <2>3. c \in Int /\ size <= c
    BY <2>1
  <2> HIDE DEF c
  <2>2. Min({c, size}) \in {c, size} /\ Min({c, size}) <= size
    <3>1. c \in Int /\ size \in Int
      BY <2>3, <1>1
    <3>. QED  BY <3>1, MinOfTwo, Zenon
  <2>4. Min({c, size}) = size
    BY <2>2, <2>3, <1>1
  <2>. QED  BY <2>4 DEF c
<1>7. \A k \in 1 .. count : (k - 1) * room \in Nat /\ (k - 1) * room < upTo(k) /\ upTo(k) \in 1 .. size
      /\ (k = 1 => (k - 1) * room = 0)
  <2> TAKE k \in 1 .. count
  <2>1. (k - 1) * room \in Nat /\ (k = 1 => (k - 1) * room = 0)
    BY <1>1
  <2>2. k * room = (k - 1) * room + room
    BY <1>1
  <2> DEFINE before == (k - 1) * room
  <2> DEFINE u == upTo(k)
  <2>3. CASE k = count
    BY <2>1, <2>3, <1>1, <1>4, <1>6
  <2>4. CASE k # count
    <3>1. k \in 1 .. count - 1
      BY <2>4, <1>4
    <3>2. u = before + room /\ u < size
      BY <3>1, <1>5, <2>2
    <3> HIDE DEF u, before
    <3>3. before < u /\ u \in 1 .. size
      BY <3>2, <2>1, <1>1 DEF before
    <3>. QED  BY <2>1, <3>3 DEF u, before
  <2>. QED  BY <2>3, <2>4
<1>8. \A k \in 1 .. count : k > 1 => upTo(k - 1) = (k - 1) * room
  <2> TAKE k \in 1 .. count
  <2>1. k > 1 => k - 1 \in 1 .. count - 1
    BY <1>4
  <2>. QED  BY <2>1, <1>5
<1>9. \A k \in 1 .. count : upTo(k) = size <=> k = count
  <2> TAKE k \in 1 .. count
  <2>1. k # count => k \in 1 .. count - 1
    BY <1>4
  <2>2. k # count => upTo(k) < size
    BY <2>1, <1>5
  <2>3. upTo(k) \in Nat
    BY <1>7
  <2> DEFINE u == upTo(k)
  <2>4. (k # count => u < size) /\ u \in Nat /\ (k = count => u = size)
    BY <2>2, <2>3, <1>6
  <2> HIDE DEF u
  <2>5. u = size <=> k = count
    BY <2>4, <1>1
  <2>. QED  BY <2>5 DEF u
<1> DEFINE fragment(k) == Fragment(nal[1], SubSeq(data, (k - 1) * room + 1, upTo(k)), k = 1, k = count)
<1>10. Fragments(nal) = [k \in 1 .. count |-> fragment(k)]
  BY <1>1, <1>2 DEF Fragments, FragmentCount, count, room
<1> HIDE DEF upTo
<1>11. \A k \in 1 .. count :
          /\ SubSeq(data, (k - 1) * room + 1, upTo(k)) \in Seq(U)
          /\ SubSeq(data, (k - 1) * room + 1, upTo(k)) = SubSeq(nal, (k - 1) * room + 2, upTo(k) + 1)
  <2> TAKE k \in 1 .. count
  <2> DEFINE a == (k - 1) * room
  <2> DEFINE b == upTo(k)
  <2>1. a \in Nat /\ b \in 1 .. size /\ a < b
    BY <1>7
  <2> HIDE DEF a, b
  <2>2. SubSeq(data, a + 1, b) \in Seq(U) /\ SubSeq(data, a + 1, b) = SubSeq(nal, a + 2, b + 1)
    BY <2>1, <1>1, <1>2, TailSubSeq
  <2>. QED  BY <2>2 DEF a, b
<1>12. end \in [0 .. count -> Nat] /\ end[0] = 0 /\ end[count] = Len(nal)
  <2>1. \A k \in 0 .. count : (IF k = 0 THEN 0 ELSE upTo(k) + 1) \in Nat
    BY <1>7, <1>4
  <2>. QED  BY <2>1, <1>1, <1>4, <1>6
<1>13. \A k \in 1 .. count : end[k] = upTo(k) + 1 /\ (k = 1 => end[k - 1] = 0)
                             /\ (k > 1 => end[k - 1] = (k - 1) * room + 1)
  <2> TAKE k \in 1 .. count
  <2>1. k \in 0 .. count /\ k # 0 /\ k - 1 \in 0 .. count
    BY <1>4
  <2>2. k > 1 => end[k - 1] = upTo(k - 1) + 1
    BY <2>1
  <2>. QED  BY <2>1, <2>2, <1>8
<1>15. \A k \in 1 .. count : fragment(k) \in BodiesOver(U)
  BY <1>2, <1>11 DEF Fragment, BodiesOver
<1>16. Fragments(nal) \in Seq(BodiesOver(U)) /\ Len(Fragments(nal)) = count
  BY <1>4, <1>10, <1>15
<1> HIDE DEF end, data
<1>17. ASSUME NEW k \in 1 .. count
       PROVE  /\ end[k - 1] < end[k] /\ end[k] <= Len(nal) /\ end[k] > 1
              /\ end[k - 1] = 0 <=> k = 1
              /\ end[k] = Len(nal) <=> k = count
              /\ Fragments(nal)[k] =
                    Fragment(nal[1], SubSeq(nal, (IF k = 1 THEN 1 ELSE end[k - 1]) + 1, end[k]),
                             k = 1, k = count)
  <2> DEFINE a == (k - 1) * room
  <2> DEFINE b == upTo(k)
  <2>1. /\ a \in Nat /\ b \in 1 .. size /\ a < b /\ (b = size <=> k = count)
        /\ end[k] = b + 1 /\ (k = 1 => a = 0 /\ end[k - 1] = 0) /\ (k > 1 => end[k - 1] = a + 1)
    BY <1>7, <1>9, <1>13
  <2>2. Fragments(nal)[k] = Fragment(nal[1], SubSeq(nal, a + 2, b + 1), k = 1, k = count)
    <3>1. Fragments(nal)[k] = fragment(k)
      BY <1>10
    <3>. QED  BY <3>1, <1>11
  <2> HIDE DEF a, b
  <2>3. (IF k = 1 THEN 1 ELSE end[k - 1]) + 1 = a + 2
    BY <2>1
  <2>4. /\ end[k - 1] < end[k] /\ end[k] <= Len(nal) /\ end[k] > 1
        /\ (end[k - 1] = 0 <=> k = 1)
        /\ (end[k] = Len(nal) <=> k = count)
    BY <2>1, <1>1
  <2>. QED  BY <2>1, <2>2, <2>3, <2>4
<1>. QED  BY <1>4, <1>12, <1>16, <1>17 DEF count

LEMMA FragmentIs ==
  ASSUME NEW header, NEW data, NEW start \in BOOLEAN, NEW last \in BOOLEAN
  PROVE  /\ Fragment(header, data, start, last).kind = "fu"
         /\ Fragment(header, data, start, last).header = header
         /\ Fragment(header, data, start, last).data = data
         /\ Fragment(header, data, start, last).start = start
         /\ Fragment(header, data, start, last).last = last
BY DEF Fragment

LEMMA PlaceIs ==
  ASSUME NEW i, NEW j
  PROVE  Place(i, j).nals = i /\ Place(i, j).units = j
BY DEF Place

LEMMA FragmentsCarried ==
  ASSUME NEW U, NEW nal \in Seq(U), Len(nal) > MaxPayload, NEW nals, NEW next
  PROVE  \E place : Carried(Marked(nals, Fragments(nal), next), <<nal>>, place)
<1> DEFINE count == FragmentCount(nal)
<1> DEFINE bodies == Marked(nals, Fragments(nal), next)
<1> DEFINE W == <<nal>>
<1>1. /\ count \in Nat /\ count > 0
      /\ Fragments(nal) \in Seq(BodiesOver(U)) /\ Len(Fragments(nal)) = count
  BY FragmentsAre
<1>2. PICK end \in [0 .. count -> Nat] :
         /\ end[0] = 0 /\ end[count] = Len(nal)
         /\ \A k \in 1 .. count :
               /\ end[k - 1] < end[k] /\ end[k] <= Len(nal) /\ end[k] > 1
               /\ end[k - 1] = 0 <=> k = 1
               /\ end[k] = Len(nal) <=> k = count
               /\ Fragments(nal)[k] =
                     Fragment(nal[1], SubSeq(nal, (IF k = 1 THEN 1 ELSE end[k - 1]) + 1, end[k]),
                              k = 1, k = count)
  BY FragmentsAre
<1> HIDE DEF count
<1>3. /\ Len(bodies) = count
      /\ \A k \in 1 .. count : bodies[k].body = Fragments(nal)[k]
      /\ \A k \in 1 .. count - 1 : ~bodies[k].marker
  <2>1. bodies = [k \in 1 .. count |-> [body |-> Fragments(nal)[k],
                                        marker |-> next = Len(nals) + 1 /\ k = count]]
    <3>1. DOMAIN Fragments(nal) = 1 .. count
      BY <1>1
    <3>. QED  BY <3>1, <1>1 DEF Marked
  <2>2. \A k \in 1 .. count - 1 : k \in 1 .. count /\ k # count
    BY <1>1
  <2> HIDE DEF bodies
  <2>3. Len(bodies) = count
    BY <2>1, <1>1
  <2>4. \A k \in 1 .. count : /\ bodies[k].body = Fragments(nal)[k]
                              /\ bodies[k].marker = (next = Len(nals) + 1 /\ k = count)
    BY <2>1
  <2>. QED  BY <2>2, <2>3, <2>4
<1>4. Len(W) = 1 /\ W[1] = nal /\ W[0 + 1] = nal
  OBVIOUS
<1> DEFINE place == [k \in 0 .. count |-> IF k = count THEN Place(1, 0) ELSE Place(0, end[k])]
<1>5. /\ place \in [0 .. count -> Places]
      /\ place[0] = Place(0, 0) /\ place[count] = Place(1, 0)
      /\ \A k \in 0 .. count - 1 : place[k] = Place(0, end[k])
  BY <1>1, <1>2 DEF Place, Places
<1> HIDE DEF bodies, place, W
<1>6. \A k \in 1 .. count : Carries(bodies[k].body, W, place[k - 1], place[k])
  <2> TAKE k \in 1 .. count
  <2> DEFINE p == place[k - 1]
  <2> DEFINE q == place[k]
  <2> DEFINE body == bodies[k].body
  <2>1. k - 1 \in 0 .. count - 1 /\ k - 1 \in 0 .. count /\ k \in 0 .. count
        /\ (k # count => k \in 0 .. count - 1)
    BY <1>1
  <2>2. /\ end[k - 1] \in Nat /\ end[k] \in Nat /\ end[k - 1] < end[k] /\ end[k] <= Len(nal) /\ end[k] > 1
        /\ end[k - 1] = 0 <=> k = 1
        /\ end[k] = Len(nal) <=> k = count
    BY <1>2, <2>1
  <2>3. body = Fragment(nal[1], SubSeq(nal, (IF k = 1 THEN 1 ELSE end[k - 1]) + 1, end[k]),
                        k = 1, k = count)
    BY <1>2, <1>3
  <2>4. /\ body.kind = "fu" /\ body.header = nal[1]
        /\ body.data = SubSeq(nal, (IF k = 1 THEN 1 ELSE end[k - 1]) + 1, end[k])
        /\ body.start = (k = 1) /\ body.last = (k = count)
    <3> DEFINE first == k = 1
    <3> DEFINE last == k = count
    <3> DEFINE data == SubSeq(nal, (IF k = 1 THEN 1 ELSE end[k - 1]) + 1, end[k])
    <3>1. first \in BOOLEAN /\ last \in BOOLEAN
      OBVIOUS
    <3>2. body = Fragment(nal[1], data, first, last)
      BY <2>3
    <3> HIDE DEF first, last, data, body
    <3>3. /\ body.kind = "fu" /\ body.header = nal[1]
          /\ body.data = data /\ body.start = first /\ body.last = last
      BY <3>1, <3>2, FragmentIs
    <3>. QED  BY <3>3 DEF first, last, data
  <2>5. body.start <=> k = 1
    BY <2>4
  <2>6. body.last <=> k = count
    BY <2>4
  <2>7. p = Place(0, end[k - 1]) /\ p.nals = 0 /\ p.units = end[k - 1]
    BY <2>1, <1>5, PlaceIs
  <2>8. (k = count => q = Place(0 + 1, 0)) /\ (k # count => q = Place(0, end[k])) /\ q.nals <= 1
    <3>1. 0 + 1 = 1 /\ (k = count => q = Place(1, 0)) /\ (k # count => q = Place(0, end[k]))
      BY <2>1, <1>5
    <3> HIDE DEF q
    <3>. QED  BY <3>1, PlaceIs
  <2> HIDE DEF p, q, body
  <2> DEFINE e == end[k]
  <2>9. e \in p.units + 1 .. Len(W[p.nals + 1])
    BY <2>2, <2>7, <1>4
  <2>10. /\ body.start <=> p.units = 0
         /\ body.last <=> e = Len(W[p.nals + 1])
         /\ body.header = W[p.nals + 1][1]
         /\ body.last => q = Place(p.nals + 1, 0)
         /\ ~body.last => q = Place(p.nals, e)
    BY <2>2, <2>4, <2>5, <2>6, <2>7, <2>8, <1>4
  <2>11. /\ body.start => body.data = SubSeq(W[p.nals + 1], 2, e)
         /\ ~body.start => body.data = SubSeq(W[p.nals + 1], p.units + 1, e)
    <3>1. k = 1 => body.data = SubSeq(nal, 2, e)
      BY <2>4
    <3>2. k # 1 => body.data = SubSeq(nal, end[k - 1] + 1, e)
      BY <2>4
    <3>. QED  BY <3>1, <3>2, <2>5, <2>7, <1>4
  <2>12. Carries(body, W, p, q)
    <3> HIDE DEF e
    <3>1. p.nals < Len(W) /\ q.nals <= Len(W)
      BY <2>7, <2>8, <1>4
    <3>2. \E x \in p.units + 1 .. Len(W[p.nals + 1]) :
             /\ body.start <=> p.units = 0
             /\ body.last <=> x = Len(W[p.nals + 1])
             /\ body.header = W[p.nals + 1][1]
             /\ body.start => body.data = SubSeq(W[p.nals + 1], 2, x)
             /\ ~body.start => body.data = SubSeq(W[p.nals + 1], p.units + 1, x)
             /\ body.last => q = Place(p.nals + 1, 0)
             /\ ~body.last => q = Place(p.nals, x)
      BY <2>9, <2>10, <2>11, Zenon
    <3>. QED  BY <3>1, <3>2, <2>4 DEF Carries
  <2>. QED  BY <2>12 DEF p, q, body
<1>7. Carried(bodies, W, place)
  <2>1. /\ place \in [0 .. Len(bodies) -> Places]
        /\ place[Len(bodies)] = Place(Len(W), 0)
        /\ \A k \in 1 .. Len(bodies) : Carries(bodies[k].body, W, place[k - 1], place[k])
        /\ \A k \in 1 .. Len(bodies) - 1 : ~bodies[k].marker
    BY <1>3, <1>4, <1>5, <1>6
  <2>. QED  BY <2>1, <1>5 DEF Carried
<1>. QED  BY <1>7 DEF bodies, W

-----------------------------------------------------------------------------
(* packetize carries an access unit.  Its function goes through the NALs    *)
(* from the last one back to the first.                                    *)

\* The bodies from NAL `index` on, when `from` has those from each later one on.
BodiesAt(nals, from, index) ==
    IF index > Len(nals) THEN <<>>
    ELSE IF nals[index] = <<>> THEN from[index + 1]
    ELSE LET end == RunEnd(nals, index)
         IN  IF end > index + 1
             THEN Marked(nals, <<Aggregate(SubSeq(nals, index, end - 1))>>, end) \o from[end]
             ELSE IF Len(nals[index]) <= MaxPayload
             THEN Marked(nals, <<Single(nals[index])>>, index + 1) \o from[index + 1]
             ELSE Marked(nals, Fragments(nals[index]), index + 1) \o from[index + 1]
BodiesFrom(nals) ==
    CHOOSE from : from = [index \in 1 .. Len(nals) + 1 |-> BodiesAt(nals, from, index)]

KeptAt(nals, from, index) ==
    IF index > Len(nals) THEN <<>>
    ELSE IF nals[index] = <<>> THEN from[index + 1]
    ELSE <<nals[index]>> \o from[index + 1]
KeptFrom(nals) ==
    CHOOSE from : from = [index \in 1 .. Len(nals) + 1 |-> KeptAt(nals, from, index)]

LEMMA BodiesAreFrom ==
  ASSUME NEW nals
  PROVE  Bodies(nals) = BodiesFrom(nals)[1] /\ Kept(nals) = KeptFrom(nals)[1]
BY DEF Bodies, BodiesFrom, BodiesAt, Kept, KeptFrom, KeptAt

LEMMA MaxIsMember ==
  ASSUME NEW n \in Nat, NEW S, S \subseteq 1 .. n, S # {}
  PROVE  Max(S) \in S
<1> DEFINE below == {n - i : i \in S}
<1>1. below \subseteq Nat /\ below # {}
  <2>1. \A i \in S : n - i \in Nat
    OBVIOUS
  <2>. QED  BY <2>1
<1>2. PICK b \in below : \A m \in below : b <= m
  BY <1>1, LeastNumber
<1>3. PICK x \in S : b = n - x
  BY <1>2
<1>4. \A y \in S : n - x <= n - y
  BY <1>2, <1>3
<1>5. \A y \in S : x >= y
  BY <1>4
<1>. QED  BY <1>5 DEF Max

LEMMA RunEndIs ==
  ASSUME NEW nals, Len(nals) \in Nat, NEW index \in 1 .. Len(nals)
  PROVE  \/ RunEnd(nals, index) = index
         \/ /\ RunEnd(nals, index) \in index + 1 .. Len(nals) + 1
            /\ \A i \in index .. RunEnd(nals, index) - 1 : nals[i] # <<>>
            /\ AggregateSize(SubSeq(nals, index, RunEnd(nals, index) - 1)) <= MaxPayload
<1> DEFINE runs == {end \in index + 1 .. Len(nals) + 1 :
                       /\ \A i \in index .. end - 1 : nals[i] # <<>>
                       /\ AggregateSize(SubSeq(nals, index, end - 1)) <= MaxPayload}
<1> DEFINE S == {index} \cup runs
<1>1. Len(nals) + 1 \in Nat /\ S \subseteq 1 .. Len(nals) + 1 /\ S # {}
  OBVIOUS
<1> DEFINE n == Len(nals) + 1
<1>2. n \in Nat /\ S \subseteq 1 .. n /\ S # {}
  BY <1>1
<1> HIDE DEF n, S
<1>3. Max(S) \in S
  BY <1>2, MaxIsMember
<1>4. RunEnd(nals, index) = Max(S)
  BY DEF RunEnd, S
<1>5. RunEnd(nals, index) = index \/ RunEnd(nals, index) \in runs
  BY <1>3, <1>4 DEF S
<1>. QED  BY <1>5

\* The functions from an index on; each longer one extends a shorter one.
BodiesRead(nals, first, from) ==
    from = [index \in first .. Len(nals) + 1 |-> BodiesAt(nals, from, index)]
KeptRead(nals, first, from) ==
    from = [index \in first .. Len(nals) + 1 |-> KeptAt(nals, from, index)]

LEMMA BodiesLookAhead ==
  ASSUME NEW nals, Len(nals) \in Nat, NEW index \in 1 .. Len(nals) + 1, NEW f, NEW g,
         \A i \in index + 1 .. Len(nals) + 1 : f[i] = g[i]
  PROVE  BodiesAt(nals, f, index) = BodiesAt(nals, g, index)
<1> DEFINE end == RunEnd(nals, index)
<1>1. CASE index > Len(nals)
  BY <1>1 DEF BodiesAt
<1>2. CASE ~(index > Len(nals))
  <2>1. index \in 1 .. Len(nals) /\ index + 1 \in index + 1 .. Len(nals) + 1
    BY <1>2
  <2>2. f[index + 1] = g[index + 1]
    BY <2>1
  <2>3. end > index + 1 => f[end] = g[end]
    <3>1. end = index \/ end \in index + 1 .. Len(nals) + 1
      BY <2>1, RunEndIs
    <3>. QED  BY <3>1, <2>1
  <2>. QED  BY <2>2, <2>3 DEF BodiesAt
<1>. QED  BY <1>1, <1>2

LEMMA KeptLookAhead ==
  ASSUME NEW nals, Len(nals) \in Nat, NEW index \in 1 .. Len(nals) + 1, NEW f, NEW g,
         \A i \in index + 1 .. Len(nals) + 1 : f[i] = g[i]
  PROVE  KeptAt(nals, f, index) = KeptAt(nals, g, index)
<1>1. CASE index > Len(nals)
  BY <1>1 DEF KeptAt
<1>2. CASE ~(index > Len(nals))
  <2>1. f[index + 1] = g[index + 1]
    BY <1>2
  <2>. QED  BY <2>1 DEF KeptAt
<1>. QED  BY <1>1, <1>2

LEMMA BodiesReadExists ==
  ASSUME NEW nals, Len(nals) \in Nat
  PROVE  \E from : BodiesRead(nals, 1, from)
<1> DEFINE last == Len(nals) + 1
<1> DEFINE bad == {n \in 0 .. Len(nals) : ~ \E from : BodiesRead(nals, last - n, from)}
<1> SUFFICES ASSUME ~ \E from : BodiesRead(nals, 1, from) PROVE FALSE
  OBVIOUS
<1>1. bad \subseteq Nat /\ Len(nals) \in bad
  <2>1. (Len(nals) + 1) - Len(nals) = 1
    OBVIOUS
  <2>. QED  BY <2>1
<1>2. PICK n \in bad : \A m \in bad : n <= m
  BY <1>1, LeastNumber
<1>3. n # 0
  <2> DEFINE from == [index \in last .. last |-> BodiesAt(nals, <<>>, index)]
  <2>1. \A index \in last .. last : BodiesAt(nals, <<>>, index) = BodiesAt(nals, from, index)
    BY BodiesLookAhead
  <2>2. BodiesRead(nals, last, from)
    BY <2>1 DEF BodiesRead
  <2>3. last - 0 = last
    OBVIOUS
  <2>. QED  BY <1>2, <2>2, <2>3
<1>4. n - 1 \in 0 .. Len(nals) /\ ~(n - 1 \in bad)
  <2>1. n \in 0 .. Len(nals) /\ \A m \in bad : n <= m
    BY <1>2
  <2> HIDE DEF bad
  <2>. QED  BY <1>3, <2>1
<1> DEFINE first == last - n
<1>5. PICK from : BodiesRead(nals, first + 1, from)
  <2>1. last - (n - 1) = first + 1
    BY <1>2
  <2>2. \E from : BodiesRead(nals, last - (n - 1), from)
    BY <1>4
  <2>. QED  BY <2>1, <2>2
<1>6. first \in 1 .. last
  BY <1>2
<1> HIDE DEF first
<1> DEFINE longer == [index \in first .. last |->
                        IF index = first THEN BodiesAt(nals, from, first) ELSE from[index]]
<1>7. \A i \in first + 1 .. last : longer[i] = from[i] /\ from[i] = BodiesAt(nals, from, i)
  <2>1. \A i \in first + 1 .. last : i \in first .. last /\ i # first
    BY <1>6
  <2>2. from = [index \in first + 1 .. last |-> BodiesAt(nals, from, index)]
    BY <1>5 DEF BodiesRead
  <2>. QED  BY <2>1, <2>2
<1>8. longer[first] = BodiesAt(nals, from, first) /\ DOMAIN longer = first .. last
  BY <1>6
<1>9. longer = [index \in first .. last |-> longer[index]]
  OBVIOUS
<1> HIDE DEF longer
<1>10. \A index \in first .. last : longer[index] = BodiesAt(nals, longer, index)
  <2> TAKE index \in first .. last
  <2>1. index \in 1 .. last /\ \A i \in index + 1 .. last : i \in first + 1 .. last
    BY <1>6
  <2>2. BodiesAt(nals, longer, index) = BodiesAt(nals, from, index)
    BY <2>1, <1>7, BodiesLookAhead
  <2>3. index = first \/ index \in first + 1 .. last
    BY <1>6
  <2>. QED  BY <2>2, <2>3, <1>7, <1>8
<1>11. BodiesRead(nals, first, longer)
  BY <1>9, <1>10 DEF BodiesRead
<1>. QED  BY <1>2, <1>11 DEF first

LEMMA KeptReadExists ==
  ASSUME NEW nals, Len(nals) \in Nat
  PROVE  \E from : KeptRead(nals, 1, from)
<1> DEFINE last == Len(nals) + 1
<1> DEFINE bad == {n \in 0 .. Len(nals) : ~ \E from : KeptRead(nals, last - n, from)}
<1> SUFFICES ASSUME ~ \E from : KeptRead(nals, 1, from) PROVE FALSE
  OBVIOUS
<1>1. bad \subseteq Nat /\ Len(nals) \in bad
  <2>1. (Len(nals) + 1) - Len(nals) = 1
    OBVIOUS
  <2>. QED  BY <2>1
<1>2. PICK n \in bad : \A m \in bad : n <= m
  BY <1>1, LeastNumber
<1>3. n # 0
  <2> DEFINE from == [index \in last .. last |-> KeptAt(nals, <<>>, index)]
  <2>1. \A index \in last .. last : KeptAt(nals, <<>>, index) = KeptAt(nals, from, index)
    BY KeptLookAhead
  <2>2. KeptRead(nals, last, from)
    BY <2>1 DEF KeptRead
  <2>3. last - 0 = last
    OBVIOUS
  <2>. QED  BY <1>2, <2>2, <2>3
<1>4. n - 1 \in 0 .. Len(nals) /\ ~(n - 1 \in bad)
  <2>1. n \in 0 .. Len(nals) /\ \A m \in bad : n <= m
    BY <1>2
  <2> HIDE DEF bad
  <2>. QED  BY <1>3, <2>1
<1> DEFINE first == last - n
<1>5. PICK from : KeptRead(nals, first + 1, from)
  <2>1. last - (n - 1) = first + 1
    BY <1>2
  <2>2. \E from : KeptRead(nals, last - (n - 1), from)
    BY <1>4
  <2>. QED  BY <2>1, <2>2
<1>6. first \in 1 .. last
  BY <1>2
<1> HIDE DEF first
<1> DEFINE longer == [index \in first .. last |->
                        IF index = first THEN KeptAt(nals, from, first) ELSE from[index]]
<1>7. \A i \in first + 1 .. last : longer[i] = from[i] /\ from[i] = KeptAt(nals, from, i)
  <2>1. \A i \in first + 1 .. last : i \in first .. last /\ i # first
    BY <1>6
  <2>2. from = [index \in first + 1 .. last |-> KeptAt(nals, from, index)]
    BY <1>5 DEF KeptRead
  <2>. QED  BY <2>1, <2>2
<1>8. longer[first] = KeptAt(nals, from, first) /\ DOMAIN longer = first .. last
  BY <1>6
<1>9. longer = [index \in first .. last |-> longer[index]]
  OBVIOUS
<1> HIDE DEF longer
<1>10. \A index \in first .. last : longer[index] = KeptAt(nals, longer, index)
  <2> TAKE index \in first .. last
  <2>1. index \in 1 .. last /\ \A i \in index + 1 .. last : i \in first + 1 .. last
    BY <1>6
  <2>2. KeptAt(nals, longer, index) = KeptAt(nals, from, index)
    BY <2>1, <1>7, KeptLookAhead
  <2>3. index = first \/ index \in first + 1 .. last
    BY <1>6
  <2>. QED  BY <2>2, <2>3, <1>7, <1>8
<1>11. KeptRead(nals, first, longer)
  BY <1>9, <1>10 DEF KeptRead
<1>. QED  BY <1>2, <1>11 DEF first

\* What the functions are made of.
LEMMA FromSteps ==
  ASSUME NEW nals, Len(nals) \in Nat
  PROVE  \A index \in 1 .. Len(nals) + 1 :
            /\ BodiesFrom(nals)[index] = BodiesAt(nals, BodiesFrom(nals), index)
            /\ KeptFrom(nals)[index] = KeptAt(nals, KeptFrom(nals), index)
<1>1. BodiesRead(nals, 1, BodiesFrom(nals))
  BY BodiesReadExists DEF BodiesRead, BodiesFrom
<1>2. KeptRead(nals, 1, KeptFrom(nals))
  BY KeptReadExists DEF KeptRead, KeptFrom
<1> DEFINE f == BodiesFrom(nals)
<1> DEFINE g == KeptFrom(nals)
<1> HIDE DEF f, g
<1>3. f = [index \in 1 .. Len(nals) + 1 |-> BodiesAt(nals, f, index)]
  BY <1>1 DEF BodiesRead, f
<1>4. g = [index \in 1 .. Len(nals) + 1 |-> KeptAt(nals, g, index)]
  BY <1>2 DEF KeptRead, g
<1>5. \A index \in 1 .. Len(nals) + 1 : f[index] = BodiesAt(nals, f, index)
  BY <1>3
<1>6. \A index \in 1 .. Len(nals) + 1 : g[index] = KeptAt(nals, g, index)
  BY <1>4
<1>. QED  BY <1>5, <1>6 DEF f, g

LEMMA KeptIsTyped ==
  ASSUME NEW U, NEW nals \in Seq(Seq(U))
  PROVE  \A index \in 1 .. Len(nals) + 1 : KeptFrom(nals)[index] \in Seq(Seq(U) \ {<<>>})
<1> DEFINE last == Len(nals) + 1
<1> DEFINE bad == {n \in 0 .. Len(nals) : ~(KeptFrom(nals)[last - n] \in Seq(Seq(U) \ {<<>>}))}
<1>0. Len(nals) \in Nat /\ bad \subseteq Nat
  OBVIOUS
<1> SUFFICES ASSUME bad # {} PROVE FALSE
  <2> SUFFICES ASSUME NEW index \in 1 .. Len(nals) + 1,
                      ~(KeptFrom(nals)[index] \in Seq(Seq(U) \ {<<>>}))
               PROVE  bad # {}
    OBVIOUS
  <2>1. last - index \in 0 .. Len(nals) /\ last - (last - index) = index
    BY <1>0
  <2>. QED  BY <2>1
<1>1. PICK n \in bad : \A m \in bad : n <= m
  BY <1>0, LeastNumber
<1> DEFINE index == last - n
<1>2. index \in 1 .. last /\ KeptFrom(nals)[index] = KeptAt(nals, KeptFrom(nals), index)
  BY <1>0, FromSteps
<1>3. ~(KeptFrom(nals)[index] \in Seq(Seq(U) \ {<<>>}))
  OBVIOUS
<1>4. index # last
  <2>1. CASE index = last
    <3>1. KeptFrom(nals)[index] = <<>>
      BY <2>1, <1>0, <1>2 DEF KeptAt
    <3>. QED  BY <3>1, <1>3
  <2>. QED  BY <2>1
<1>5. n # 0 /\ index \in 1 .. Len(nals) /\ index + 1 = last - (n - 1)
  BY <1>0, <1>2, <1>4
<1>6. KeptFrom(nals)[index + 1] \in Seq(Seq(U) \ {<<>>})
  <2>1. n - 1 \in 0 .. Len(nals) /\ ~(n - 1 \in bad)
    <3>1. n \in 0 .. Len(nals) /\ \A m \in bad : n <= m
      BY <1>1
    <3> HIDE DEF bad, index
    <3>. QED  BY <1>5, <3>1
  <2>2. KeptFrom(nals)[last - (n - 1)] \in Seq(Seq(U) \ {<<>>})
    BY <2>1
  <2>. QED  BY <2>2, <1>5
<1> HIDE DEF index, bad
<1> DEFINE rest == KeptFrom(nals)[index + 1]
<1>7. ~(index > Len(nals)) /\ nals[index] \in Seq(U)
  BY <1>5, <1>0, ElementOfSeq
<1>8. CASE nals[index] = <<>>
  BY <1>8, <1>2, <1>3, <1>6, <1>7 DEF KeptAt
<1>9. CASE nals[index] # <<>>
  <2> HIDE DEF rest
  <2>1. <<nals[index]>> \in Seq(Seq(U) \ {<<>>}) /\ rest \in Seq(Seq(U) \ {<<>>})
    BY <1>6, <1>7, <1>9 DEF rest
  <2>2. <<nals[index]>> \o rest \in Seq(Seq(U) \ {<<>>})
    BY <2>1, ConcatProperties
  <2>3. KeptFrom(nals)[index] = <<nals[index]>> \o rest
    BY <1>2, <1>7, <1>9 DEF KeptAt, rest
  <2>. QED  BY <2>2, <2>3, <1>3
<1>. QED  BY <1>8, <1>9

\* NALs none of which is empty are all kept.
LEMMA RunIsKept ==
  ASSUME NEW U, NEW nals \in Seq(Seq(U)), NEW index \in 1 .. Len(nals),
         NEW end \in index .. Len(nals) + 1, \A i \in index .. end - 1 : nals[i] # <<>>
  PROVE  KeptFrom(nals)[index] = SubSeq(nals, index, end - 1) \o KeptFrom(nals)[end]
<1> DEFINE kept == KeptFrom(nals)
<1> DEFINE bad == {k \in Nat : k <= end - index
                     /\ ~(kept[index] = SubSeq(nals, index, (index + k) - 1) \o kept[index + k])}
<1>0. Len(nals) \in Nat /\ bad \subseteq Nat /\ end - index \in Nat /\ index + (end - index) = end
  OBVIOUS
<1>1. \A i \in 1 .. Len(nals) + 1 : kept[i] \in Seq(Seq(U)) /\ kept[i] = KeptAt(nals, kept, i)
  <2>1. Seq(U) \ {<<>>} \subseteq Seq(U)
    OBVIOUS
  <2>. QED  BY <2>1, <1>0, KeptIsTyped, FromSteps, SeqMonotonic
<1> HIDE DEF kept
<1> SUFFICES ASSUME bad # {} PROVE FALSE
  <2> DEFINE k == end - index
  <2>1. k \in Nat /\ k <= end - index /\ index + k = end
    BY <1>0
  <2> HIDE DEF k
  <2>2. ~(k \in bad) => kept[index] = SubSeq(nals, index, (index + k) - 1) \o kept[index + k]
    BY <2>1
  <2>. QED  BY <2>1, <2>2 DEF kept
<1>2. PICK k \in bad : \A m \in bad : k <= m
  BY <1>0, LeastNumber
<1>3. /\ k \in Nat /\ k <= end - index
      /\ ~(kept[index] = SubSeq(nals, index, (index + k) - 1) \o kept[index + k])
  OBVIOUS
<1>4. k # 0
  <2>1. SubSeq(nals, index, index - 1) = <<>>
    BY SubSeqEmpty
  <2>2. <<>> \o kept[index] = kept[index]
    BY <1>1, ConcatEmptySeq
  <2>3. index + 0 = index
    OBVIOUS
  <2>. QED  BY <1>3, <2>1, <2>2, <2>3
<1> DEFINE j == index + (k - 1)
<1>5. /\ j \in index .. end - 1 /\ j \in 1 .. Len(nals) /\ j + 1 = index + k
      /\ (index + k) - 1 = j /\ j + 1 \in 1 .. Len(nals) + 1
  BY <1>0, <1>3, <1>4
<1>6. kept[index] = SubSeq(nals, index, j - 1) \o kept[j]
  <2>1. k - 1 \in Nat /\ k - 1 <= end - index /\ ~(k - 1 \in bad)
    <3> HIDE DEF bad
    <3>. QED  BY <1>2, <1>3, <1>4, <1>0
  <2>. QED  BY <2>1
<1> HIDE DEF j, bad
<1>7. kept[j] = <<nals[j]>> \o kept[j + 1]
  <2>1. ~(j > Len(nals)) /\ nals[j] # <<>>
    BY <1>5, <1>0
  <2>2. kept[j] = KeptAt(nals, kept, j)
    <3>1. j \in 1 .. Len(nals) + 1
      BY <1>5
    <3>. QED  BY <3>1, <1>1
  <2>3. KeptAt(nals, kept, j) = <<nals[j]>> \o kept[j + 1]
    BY <2>1, Zenon DEF KeptAt
  <2>. QED  BY <2>2, <2>3
<1> DEFINE before == SubSeq(nals, index, j - 1)
<1> DEFINE one == <<nals[j]>>
<1>8. before \in Seq(Seq(U)) /\ one \in Seq(Seq(U)) /\ kept[j + 1] \in Seq(Seq(U))
  <2>1. nals[j] \in Seq(U) /\ \A i \in index .. j - 1 : nals[i] \in Seq(U)
    BY <1>5, <1>0, ElementOfSeq, SMTT(60)
  <2>2. j - 1 \in Int
    BY <1>5
  <2>3. before \in Seq(Seq(U))
    BY <2>1, <2>2, SubSeqProperties
  <2>. QED  BY <2>1, <2>3, <1>1, <1>5
<1>9. SubSeq(nals, index, j) = before \o one
  BY <1>5, SubSeqRecursiveSecond
<1> HIDE DEF before, one
<1>10. before \o (one \o kept[j + 1]) = (before \o one) \o kept[j + 1]
  <2> DEFINE rest == kept[j + 1]
  <2>1. rest \in Seq(Seq(U))
    BY <1>8
  <2> HIDE DEF rest
  <2>2. (before \o one) \o rest = before \o (one \o rest)
    <3> DEFINE S == Seq(U)
    <3>1. before \in Seq(S) /\ one \in Seq(S) /\ rest \in Seq(S)
      BY <2>1, <1>8
    <3> HIDE DEF S
    <3>. QED  BY <3>1, SMTT(60)
  <2>. QED  BY <2>2 DEF rest
<1>. QED  BY <1>3, <1>5, <1>6, <1>7, <1>9, <1>10 DEF before, one

\* From NAL `index` on the packets carry what is kept.
CarriedFrom(nals, index, U) ==
    /\ BodiesFrom(nals)[index] \in Seq(MarkedOver(U))
    /\ \E place : Carried(BodiesFrom(nals)[index], KeptFrom(nals)[index], place)

\* The packets X of some NALs V, before those of the rest.
LEMMA BlockCarried ==
  ASSUME NEW U, NEW nals \in Seq(Seq(U)), NEW index \in 1 .. Len(nals),
         NEW end \in index + 1 .. Len(nals) + 1,
         NEW X \in Seq(MarkedOver(U)), NEW V \in Seq(Seq(U)),
         \E place : Carried(X, V, place),
         end # Len(nals) + 1 => \A k \in 1 .. Len(X) : ~X[k].marker,
         BodiesFrom(nals)[index] = X \o BodiesFrom(nals)[end],
         KeptFrom(nals)[index] = V \o KeptFrom(nals)[end],
         CarriedFrom(nals, end, U)
  PROVE  CarriedFrom(nals, index, U)
<1> DEFINE Y == BodiesFrom(nals)[end]
<1> DEFINE Z == KeptFrom(nals)[end]
<1>1. Len(nals) \in Nat /\ end \in 1 .. Len(nals) + 1
  OBVIOUS
<1>2. Y \in Seq(MarkedOver(U)) /\ \E place : Carried(Y, Z, place)
  BY DEF CarriedFrom
<1>3. Z \in Seq(Seq(U))
  <2>1. Seq(U) \ {<<>>} \subseteq Seq(U)
    OBVIOUS
  <2>. QED  BY <2>1, <1>1, KeptIsTyped, SeqMonotonic
<1>4. end = Len(nals) + 1 => Y = <<>>
  <2>1. Y = BodiesAt(nals, BodiesFrom(nals), end)
    BY <1>1, FromSteps
  <2>2. end = Len(nals) + 1 => end > Len(nals)
    BY <1>1
  <2> HIDE DEF Y
  <2>. QED  BY <2>1, <2>2 DEF BodiesAt
<1> HIDE DEF Y, Z
<1>5. X \o Y \in Seq(MarkedOver(U))
  BY <1>2, ConcatProperties
<1>6. PICK f : Carried(X, V, f)
  OBVIOUS
<1>7. PICK g : Carried(Y, Z, g)
  BY <1>2
<1>8. \E place : Carried(X \o Y, V \o Z, place)
  BY <1>2, <1>3, <1>4, <1>6, <1>7, CarriedTogether
<1>9. BodiesFrom(nals)[index] = X \o Y /\ KeptFrom(nals)[index] = V \o Z
  BY DEF Y, Z
<1>. QED  BY <1>5, <1>8, <1>9 DEF CarriedFrom

LEMMA MarkedAre ==
  ASSUME NEW U, NEW nals, NEW bodies \in Seq(BodiesOver(U)), NEW end
  PROVE  /\ Marked(nals, bodies, end) \in Seq(MarkedOver(U))
         /\ end # Len(nals) + 1 =>
               \A k \in 1 .. Len(Marked(nals, bodies, end)) : ~Marked(nals, bodies, end)[k].marker
<1> DEFINE marked == Marked(nals, bodies, end)
<1> DEFINE n == Len(bodies)
<1>1. n \in Nat /\ DOMAIN bodies = 1 .. n /\ \A k \in 1 .. n : bodies[k] \in BodiesOver(U)
  OBVIOUS
<1>2. marked = [k \in 1 .. n |-> [body |-> bodies[k], marker |-> end = Len(nals) + 1 /\ k = n]]
  BY <1>1 DEF Marked
<1>3. \A k \in 1 .. n : [body |-> bodies[k], marker |-> end = Len(nals) + 1 /\ k = n] \in MarkedOver(U)
  BY <1>1 DEF MarkedOver
<1> HIDE DEF marked, n
<1>4. marked \in Seq(MarkedOver(U)) /\ Len(marked) = n
  BY <1>1, <1>2, <1>3
<1>5. end # Len(nals) + 1 => \A k \in 1 .. n : ~marked[k].marker
  BY <1>2
<1>. QED  BY <1>4, <1>5 DEF marked

LEMMA OneIsCarried ==
  ASSUME NEW U, NEW W \in Seq(Seq(U)), W # <<>>, NEW body, NEW nals, NEW end,
         body \in [kind : {"single", "stap"}, nals : Seq(Seq(U))],
         body.nals = W, body.kind = "single" => Len(W) = 1
  PROVE  /\ Marked(nals, <<body>>, end) \in Seq(MarkedOver(U))
         /\ end # Len(nals) + 1 =>
               \A k \in 1 .. Len(Marked(nals, <<body>>, end)) : ~Marked(nals, <<body>>, end)[k].marker
         /\ \E place : Carried(Marked(nals, <<body>>, end), W, place)
<1>1. body \in BodiesOver(U)
  BY DEF BodiesOver
<1>2. <<body>> \in Seq(BodiesOver(U))
  BY <1>1
<1>3. body.kind \in {"single", "stap"}
  OBVIOUS
<1> DEFINE marker == end = Len(nals) + 1
<1>4. Marked(nals, <<body>>, end) = <<[body |-> body, marker |-> marker]>>
  BY OneMarked
<1> DEFINE bodies == <<[body |-> body, marker |-> marker]>>
<1>5. Len(bodies) = 1 /\ bodies[1].body = body
  OBVIOUS
<1> HIDE DEF bodies
<1>6. \E place : Carried(bodies, W, place)
  <2>1. body.nals = W /\ W # <<>> /\ (body.kind = "single" => Len(W) = 1)
    OBVIOUS
  <2>. QED  BY <1>3, <1>5, <2>1, OneCarries
<1>. QED  BY <1>2, <1>4, <1>6, MarkedAre DEF bodies

LEMMA StepCarried ==
  ASSUME NEW U, NEW nals \in Seq(Seq(U)), NEW index \in 1 .. Len(nals) + 1,
         \A i \in index + 1 .. Len(nals) + 1 : CarriedFrom(nals, i, U)
  PROVE  CarriedFrom(nals, index, U)
<1> DEFINE from == BodiesFrom(nals)
<1> DEFINE kept == KeptFrom(nals)
<1>1. Len(nals) \in Nat /\ index \in Nat
  OBVIOUS
<1>2. from[index] = BodiesAt(nals, from, index) /\ kept[index] = KeptAt(nals, kept, index)
  BY <1>1, FromSteps
<1>3. CASE index > Len(nals)
  <2>1. from[index] = <<>> /\ kept[index] = <<>>
    BY <1>2, <1>3 DEF BodiesAt, KeptAt
  <2> DEFINE place == [k \in 0 .. 0 |-> Place(0, 0)]
  <2>2. Carried(<<>>, <<>>, place)
    <3>1. Len(<<>>) = 0 /\ Place(0, 0) \in Places
      BY DEF Place, Places
    <3>2. place \in [0 .. 0 -> Places] /\ place[0] = Place(0, 0) /\ 1 .. 0 = {} /\ 1 .. 0 - 1 = {}
      BY <3>1
    <3> HIDE DEF place
    <3>. QED  BY <3>1, <3>2 DEF Carried
  <2>3. <<>> \in Seq(MarkedOver(U))
    OBVIOUS
  <2> HIDE DEF place
  <2>. QED  BY <2>1, <2>2, <2>3 DEF CarriedFrom
<1>4. CASE ~(index > Len(nals))
  <2> DEFINE nal == nals[index]
  <2>1. index \in 1 .. Len(nals) /\ index + 1 \in index + 1 .. Len(nals) + 1 /\ nal \in Seq(U)
    BY <1>4, <1>1, ElementOfSeq
  <2>2. CarriedFrom(nals, index + 1, U)
    BY <2>1
  <2>3. CASE nal = <<>>
    <3>1. from[index] = from[index + 1] /\ kept[index] = kept[index + 1]
      BY <1>2, <1>4, <2>3 DEF BodiesAt, KeptAt
    <3>. QED  BY <3>1, <2>2 DEF CarriedFrom
  <2>4. CASE nal # <<>>
    <3> DEFINE end == RunEnd(nals, index)
    <3>1. kept[index] = <<nal>> \o kept[index + 1]
      BY <1>2, <1>4, <2>4 DEF KeptAt
    <3>2. <<nal>> \in Seq(Seq(U)) /\ <<nal>> # <<>> /\ Len(<<nal>>) = 1
      BY <2>1
    <3>3. CASE end > index + 1
      <4> DEFINE some == SubSeq(nals, index, end - 1)
      <4> DEFINE X == Marked(nals, <<Aggregate(some)>>, end)
      <4>1. end \in index + 1 .. Len(nals) + 1 /\ \A i \in index .. end - 1 : nals[i] # <<>>
        BY <2>1, <1>1, <3>3, RunEndIs
      <4>2. from[index] = X \o from[end]
        BY <1>2, <1>4, <2>4, <3>3 DEF BodiesAt
      <4>3. kept[index] = some \o kept[end]
        <5>1. end \in index .. Len(nals) + 1
          BY <4>1
        <5> HIDE DEF end
        <5>. QED  BY <4>1, <5>1, <2>1, RunIsKept
      <4>4. some \in Seq(Seq(U)) /\ some # <<>>
        <5>1. \A i \in index .. end - 1 : nals[i] \in Seq(U)
          BY <4>1, <2>1, ElementOfSeq
        <5>2. end - 1 \in Int /\ index <= end - 1 /\ end \in Int
          BY <4>1
        <5> HIDE DEF end
        <5>3. some \in Seq(Seq(U)) /\ Len(some) = IF index <= end - 1 THEN (end - 1) - index + 1 ELSE 0
          BY <5>1, <5>2, <1>1, SubSeqProperties
        <5>4. Len(some) > 0
          BY <5>2, <5>3, <1>1
        <5> HIDE DEF some
        <5>5. some = <<>> => Len(some) = 0
          BY EmptySeq
        <5>. QED  BY <5>3, <5>4, <5>5
      <4> HIDE DEF some, end
      <4>5. /\ Aggregate(some) \in [kind : {"single", "stap"}, nals : Seq(Seq(U))]
            /\ Aggregate(some).nals = some /\ Aggregate(some).kind # "single"
        BY <4>4 DEF Aggregate
      <4> DEFINE body == Aggregate(some)
      <4> HIDE DEF body
      <4>6. /\ Marked(nals, <<body>>, end) \in Seq(MarkedOver(U))
            /\ end # Len(nals) + 1 =>
                  \A k \in 1 .. Len(Marked(nals, <<body>>, end)) : ~Marked(nals, <<body>>, end)[k].marker
            /\ \E place : Carried(Marked(nals, <<body>>, end), some, place)
        BY <4>4, <4>5, OneIsCarried DEF body
      <4>7. CarriedFrom(nals, end, U)
        BY <4>1
      <4> HIDE DEF from, kept
      <4>8. BodiesFrom(nals)[index] = Marked(nals, <<body>>, end) \o BodiesFrom(nals)[end]
        BY <4>2 DEF body, from
      <4>9. KeptFrom(nals)[index] = some \o KeptFrom(nals)[end]
        BY <4>3 DEF kept
      <4>. QED  BY <2>1, <4>1, <4>4, <4>6, <4>7, <4>8, <4>9, BlockCarried
    <3>4. CASE ~(end > index + 1) /\ Len(nal) <= MaxPayload
      <4> DEFINE body == Single(nal)
      <4>1. from[index] = Marked(nals, <<body>>, index + 1) \o from[index + 1]
        BY <1>2, <1>4, <2>4, <3>4 DEF BodiesAt
      <4>2. /\ body \in [kind : {"single", "stap"}, nals : Seq(Seq(U))]
            /\ body.nals = <<nal>>
        BY <3>2 DEF Single
      <4> HIDE DEF body, nal
      <4>3. /\ Marked(nals, <<body>>, index + 1) \in Seq(MarkedOver(U))
            /\ index + 1 # Len(nals) + 1 =>
                  \A k \in 1 .. Len(Marked(nals, <<body>>, index + 1)) :
                     ~Marked(nals, <<body>>, index + 1)[k].marker
            /\ \E place : Carried(Marked(nals, <<body>>, index + 1), <<nal>>, place)
        BY <3>2, <4>2, OneIsCarried
      <4>. QED  BY <2>1, <2>2, <3>1, <3>2, <4>1, <4>3, BlockCarried
    <3>5. CASE ~(end > index + 1) /\ ~(Len(nal) <= MaxPayload)
      <4>1. from[index] = Marked(nals, Fragments(nal), index + 1) \o from[index + 1]
        BY <1>2, <1>4, <2>4, <3>5 DEF BodiesAt
      <4>2. Len(nal) > MaxPayload
        BY <3>5, <2>1, PayloadAssumption
      <4> HIDE DEF nal
      <4>3. Fragments(nal) \in Seq(BodiesOver(U))
        BY <2>1, <4>2, FragmentsAre
      <4>4. \E place : Carried(Marked(nals, Fragments(nal), index + 1), <<nal>>, place)
        BY <2>1, <4>2, FragmentsCarried
      <4>. QED  BY <2>1, <2>2, <3>1, <3>2, <4>1, <4>3, <4>4, MarkedAre, BlockCarried
    <3>. QED  BY <3>3, <3>4, <3>5
  <2>. QED  BY <2>3, <2>4
<1>. QED  BY <1>3, <1>4

\* packetize: its packets carry what is kept of the access unit, in order, and only
\* the last one may have the marker.
LEMMA PacketizeCarries ==
  ASSUME NEW U, NEW nals \in Seq(Seq(U))
  PROVE  /\ Bodies(nals) \in Seq(MarkedOver(U))
         /\ Kept(nals) \in Seq(Seq(U) \ {<<>>})
         /\ \E place : Carried(Bodies(nals), Kept(nals), place)
<1> DEFINE last == Len(nals) + 1
<1> DEFINE bad == {n \in 0 .. Len(nals) : ~CarriedFrom(nals, last - n, U)}
<1>0. Len(nals) \in Nat /\ bad \subseteq Nat
  OBVIOUS
<1>1. bad = {}
  <2> SUFFICES ASSUME bad # {} PROVE FALSE
    OBVIOUS
  <2>1. PICK n \in bad : \A m \in bad : n <= m
    BY <1>0, LeastNumber
  <2> DEFINE index == last - n
  <2>2. n \in 0 .. Len(nals) /\ index \in 1 .. Len(nals) + 1 /\ ~CarriedFrom(nals, index, U)
    BY <1>0
  <2>3. \A i \in index + 1 .. Len(nals) + 1 : CarriedFrom(nals, i, U)
    <3> TAKE i \in index + 1 .. Len(nals) + 1
    <3> DEFINE m == last - i
    <3>1. m \in 0 .. Len(nals) /\ m < n /\ last - m = i
      BY <1>0, <2>2
    <3>2. ~(m \in bad)
      <4> HIDE DEF bad, m
      <4>. QED  BY <2>1, <2>2, <3>1
    <3>3. CarriedFrom(nals, last - m, U)
      BY <3>1, <3>2
    <3>. QED  BY <3>1, <3>3
  <2>. QED  BY <2>2, <2>3, StepCarried
<1>2. CarriedFrom(nals, 1, U) /\ 1 \in 1 .. Len(nals) + 1
  <2>1. Len(nals) \in 0 .. Len(nals) /\ last - Len(nals) = 1 /\ 1 \in 1 .. Len(nals) + 1
    BY <1>0
  <2>2. ~CarriedFrom(nals, last - Len(nals), U) => Len(nals) \in bad
    BY <2>1
  <2> HIDE DEF bad
  <2>. QED  BY <1>1, <2>1, <2>2
<1>. QED  BY <1>2, BodiesAreFrom, KeptIsTyped DEF CarriedFrom

-----------------------------------------------------------------------------
(* What the depacketizer holds                                             *)

DepacketizersOver(U) ==
    [active : BOOLEAN, fragmented : BOOLEAN, damaged : BOOLEAN, timestamp : Nat,
     captureTime : Seq(Nat), lastSequence : Nat, units : Nat,
     nals : Seq(Seq(U)), fragment : Seq(U)]

\* e is d but for what it has assembled; the damage does not go away.
Assembled(e, d) ==
    /\ e.active = d.active /\ e.timestamp = d.timestamp
    /\ e.captureTime = d.captureTime /\ e.lastSequence = d.lastSequence
    /\ d.damaged => e.damaged

\* d holds the NALs of W that end at place p, and the beginning of the next one.
Holds(d, W, p) ==
    /\ p.nals <= Len(W) /\ Len(d.nals) <= p.nals
    /\ d.nals = SubSeq(W, (p.nals - Len(d.nals)) + 1, p.nals)
    /\ d.fragmented <=> p.units # 0
    /\ d.fragmented => d.fragment = SubSeq(W[p.nals + 1], 1, p.units)

HoldsNothing(d) == d.nals = <<>> /\ ~d.fragmented

LEMMA DamagedIs ==
  ASSUME NEW U, NEW d \in DepacketizersOver(U)
  PROVE  /\ Damaged(d) \in DepacketizersOver(U) /\ Damaged(d).damaged
         /\ Damaged(d).fragmented = d.fragmented /\ Damaged(d).fragment = d.fragment
         /\ Assembled(Damaged(d), d)
BY DEF DepacketizersOver, Damaged, Assembled

LEMMA NoFragmentIs ==
  ASSUME NEW U, NEW d \in DepacketizersOver(U)
  PROVE  /\ NoFragment(d) \in DepacketizersOver(U) /\ ~NoFragment(d).fragmented
         /\ NoFragment(d).damaged = d.damaged /\ NoFragment(d).nals = d.nals
         /\ NoFragment(d).units = d.units
         /\ Assembled(NoFragment(d), d)
<1>1. <<>> \in Seq(U)
  OBVIOUS
<1>. QED  BY <1>1 DEF DepacketizersOver, NoFragment, Assembled

LEMMA WithNalIs ==
  ASSUME NEW U, NEW d \in DepacketizersOver(U), NEW nal \in Seq(U)
  PROVE  /\ WithNal(d, nal) \in DepacketizersOver(U)
         /\ WithNal(d, nal).nals = Append(d.nals, nal)
         /\ WithNal(d, nal).damaged = d.damaged
         /\ WithNal(d, nal).fragmented = d.fragmented
         /\ WithNal(d, nal).units = d.units + Len(nal)
         /\ Assembled(WithNal(d, nal), d)
<1> DEFINE e == WithNal(d, nal)
<1>1. d.nals \in Seq(Seq(U)) /\ d.units \in Nat /\ Len(nal) \in Nat
  BY DEF DepacketizersOver
<1>2. Append(d.nals, nal) \in Seq(Seq(U)) /\ d.units + Len(nal) \in Nat
  BY <1>1
<1>. QED  BY <1>2 DEF DepacketizersOver, WithNal, Assembled

LEMMA AssembledFurther ==
  ASSUME NEW c, NEW d, NEW e, Assembled(d, c), Assembled(e, d)
  PROVE  Assembled(e, c)
BY DEF Assembled

LEMMA AssembledAlone == \A d : Assembled(d, d)
BY DEF Assembled

LEMMA InterruptedIs ==
  ASSUME NEW U, NEW d \in DepacketizersOver(U)
  PROVE  /\ Interrupted(d) \in DepacketizersOver(U) /\ ~Interrupted(d).fragmented
         /\ Assembled(Interrupted(d), d)
         /\ d.fragmented => Interrupted(d).damaged
         /\ ~d.fragmented => Interrupted(d) = d
<1>1. CASE d.fragmented
  <2>1. /\ NoFragment(Damaged(d)) \in DepacketizersOver(U) /\ NoFragment(Damaged(d)).damaged
        /\ ~NoFragment(Damaged(d)).fragmented
        /\ Assembled(NoFragment(Damaged(d)), d)
    BY DamagedIs, NoFragmentIs, AssembledFurther
  <2>. QED  BY <1>1, <2>1 DEF Interrupted
<1>2. CASE ~d.fragmented
  BY <1>2, AssembledAlone DEF Interrupted
<1>. QED  BY <1>1, <1>2

\* One NAL more.
LEMMA HoldsNext ==
  ASSUME NEW U, NEW W \in Seq(Seq(U)), NEW d \in DepacketizersOver(U), NEW i \in Nat, i < Len(W),
         Holds(d, W, Place(i, 0)),
         NEW e \in DepacketizersOver(U), e.nals = Append(d.nals, W[i + 1]), ~e.fragmented
  PROVE  Holds(e, W, Place(i + 1, 0))
<1> DEFINE n == Len(d.nals)
<1> DEFINE m == (i - n) + 1
<1> DEFINE o == Place(i, 0)
<1>0. o.nals = i /\ o.units = 0
  BY PlaceIs
<1>1. d.nals \in Seq(Seq(U)) /\ n \in Nat /\ n <= i /\ d.nals = SubSeq(W, m, i)
  <2>1. d.nals \in Seq(Seq(U)) /\ n \in Nat
    BY DEF DepacketizersOver
  <2> HIDE DEF o
  <2>2. n <= o.nals /\ d.nals = SubSeq(W, (o.nals - n) + 1, o.nals)
    BY DEF Holds, o
  <2>. QED  BY <2>1, <2>2, <1>0
<1>2. i + 1 \in 1 .. Len(W) /\ W[i + 1] \in Seq(U) /\ (i + 1) - 1 = i
  <2>1. i + 1 \in 1 .. Len(W) /\ (i + 1) - 1 = i
    OBVIOUS
  <2> DEFINE S == Seq(U)
  <2>2. W \in Seq(S)
    OBVIOUS
  <2> HIDE DEF S
  <2>3. W[i + 1] \in S
    BY <2>1, <2>2, ElementOfSeq
  <2>. QED  BY <2>1, <2>3 DEF S
<1>3. m \in 1 .. i + 1 /\ i + 1 \in m .. Len(W) /\ m \in 1 .. Len(W) /\ ((i + 1) - (n + 1)) + 1 = m
  <2> DEFINE w == Len(W)
  <2>1. w \in Nat /\ i < w /\ n \in Nat /\ n <= i
    BY <1>1
  <2> HIDE DEF w, n
  <2>. QED  BY <2>1 DEF m, w
<1>4. Append(d.nals, W[i + 1]) = d.nals \o <<W[i + 1]>> /\ Len(Append(d.nals, W[i + 1])) = n + 1
  <2> DEFINE S == Seq(U)
  <2> DEFINE x == W[i + 1]
  <2> DEFINE s == d.nals
  <2>1. s \in Seq(S) /\ x \in S /\ n = Len(s)
    BY <1>1, <1>2
  <2> HIDE DEF S, x, s, n
  <2>. QED  BY <2>1, AppendIsConcat, AppendProperties, SMTT(60) DEF x, s
<1> HIDE DEF n, m
<1>5. SubSeq(W, m, i + 1) = SubSeq(W, m, (i + 1) - 1) \o <<W[i + 1]>>
  BY <1>3, SubSeqRecursiveSecond
<1>6. e.nals = SubSeq(W, m, i + 1) /\ Len(e.nals) = n + 1
  BY <1>1, <1>2, <1>4, <1>5
<1>7. i + 1 <= Len(W) /\ n + 1 <= i + 1
  BY <1>1, <1>2
<1> DEFINE p == Place(i + 1, 0)
<1>8. p.nals = i + 1 /\ p.units = 0
  BY PlaceIs
<1> HIDE DEF p
<1>9. Holds(e, W, p)
  BY <1>3, <1>6, <1>7, <1>8 DEF Holds
<1>. QED  BY <1>9 DEF p

\* Nothing is the end of what comes before any place.
LEMMA NothingHolds ==
  ASSUME NEW W, NEW d, NEW i \in Nat, Len(W) \in Nat, i <= Len(W), HoldsNothing(d)
  PROVE  Holds(d, W, Place(i, 0))
<1> DEFINE p == Place(i, 0)
<1>1. p.nals = i /\ p.units = 0
  BY PlaceIs
<1>2. Len(d.nals) = 0 /\ d.nals = <<>> /\ ~d.fragmented
  BY DEF HoldsNothing
<1>3. SubSeq(W, (i - 0) + 1, i) = <<>>
  <2>1. (i - 0) + 1 \in Int /\ i < (i - 0) + 1
    OBVIOUS
  <2>. QED  BY <2>1, SubSeqEmpty
<1> HIDE DEF p
<1>4. Holds(d, W, p)
  BY <1>1, <1>2, <1>3 DEF Holds
<1>. QED  BY <1>4 DEF p


-----------------------------------------------------------------------------
(* What each kind of packet does to what the depacketizer holds.           *)

LEMMA AcceptSingleIs ==
  ASSUME NEW U, NEW d \in DepacketizersOver(U), NEW nal \in Seq(U)
  PROVE  /\ AcceptSingle(d, nal) \in DepacketizersOver(U)
         /\ Assembled(AcceptSingle(d, nal), d)
         /\ \/ AcceptSingle(d, nal).damaged
            \/ /\ AcceptSingle(d, nal).nals = Append(d.nals, nal)
               /\ AcceptSingle(d, nal).fragmented = d.fragmented
<1>1. CASE Len(nal) > MaxNalUnits \/ ~HasRoom(d, nal)
  BY <1>1, DamagedIs DEF AcceptSingle
<1>2. CASE ~(Len(nal) > MaxNalUnits \/ ~HasRoom(d, nal))
  BY <1>2, WithNalIs DEF AcceptSingle
<1>. QED  BY <1>1, <1>2

\* The state after k NALs of an aggregate, when `upTo` has the earlier ones.
AggregateAt(d, nals, upTo, k) ==
    IF k = 0 THEN [state |-> d, stopped |-> FALSE]
    ELSE IF upTo[k - 1].stopped THEN upTo[k - 1]
    ELSE IF HasRoom(upTo[k - 1].state, nals[k])
         THEN [state |-> WithNal(upTo[k - 1].state, nals[k]), stopped |-> FALSE]
         ELSE [state |-> Damaged(upTo[k - 1].state), stopped |-> TRUE]
AggregateUpTo(d, nals) ==
    CHOOSE upTo : upTo = [k \in 0 .. Len(nals) |-> AggregateAt(d, nals, upTo, k)]
AggregateRead(d, nals, upTo, n) ==
    upTo = [k \in 0 .. n |-> AggregateAt(d, nals, upTo, k)]

LEMMA AggregateReadExists ==
  ASSUME NEW d, NEW nals, NEW last \in Nat
  PROVE  \E upTo : AggregateRead(d, nals, upTo, last)
<1> DEFINE bad == {n \in Nat : ~ \E upTo : AggregateRead(d, nals, upTo, n)}
<1> SUFFICES ASSUME bad # {} PROVE FALSE
  OBVIOUS
<1>1. PICK n \in bad : \A m \in bad : n <= m
  BY LeastNumber
<1>2. n # 0
  <2> DEFINE upTo == [k \in 0 .. 0 |-> [state |-> d, stopped |-> FALSE]]
  <2>1. \A k \in 0 .. 0 : AggregateAt(d, nals, upTo, k) = [state |-> d, stopped |-> FALSE]
    BY DEF AggregateAt
  <2>2. AggregateRead(d, nals, upTo, 0)
    BY <2>1 DEF AggregateRead
  <2>. QED  BY <1>1, <2>2
<1>3. n - 1 \in Nat /\ ~(n - 1 \in bad)
  <2>1. n \in Nat /\ \A m \in bad : n <= m
    BY <1>1
  <2> HIDE DEF bad
  <2>. QED  BY <1>2, <2>1
<1>4. PICK upTo : AggregateRead(d, nals, upTo, n - 1)
  BY <1>3
<1>5. n \in Nat
  BY <1>1
<1> DEFINE longer == [k \in 0 .. n |->
                        IF k = n THEN AggregateAt(d, nals, upTo, n) ELSE upTo[k]]
<1>6. \A k \in 0 .. n - 1 : longer[k] = upTo[k] /\ upTo[k] = AggregateAt(d, nals, upTo, k)
  <2>1. \A k \in 0 .. n - 1 : k \in 0 .. n /\ k # n
    BY <1>5
  <2>2. upTo = [k \in 0 .. n - 1 |-> AggregateAt(d, nals, upTo, k)]
    BY <1>4 DEF AggregateRead
  <2>. QED  BY <2>1, <2>2
<1>7. longer[n] = AggregateAt(d, nals, upTo, n) /\ longer = [k \in 0 .. n |-> longer[k]]
  BY <1>5
<1> HIDE DEF longer
<1>8. \A k \in 0 .. n : longer[k] = AggregateAt(d, nals, longer, k)
  <2> TAKE k \in 0 .. n
  <2>1. k = 0 \/ k - 1 \in 0 .. n - 1
    BY <1>5
  <2>2. k = 0 \/ longer[k - 1] = upTo[k - 1]
    BY <2>1, <1>6
  <2>3. AggregateAt(d, nals, longer, k) = AggregateAt(d, nals, upTo, k)
    BY <2>2 DEF AggregateAt
  <2>4. k = n \/ k \in 0 .. n - 1
    BY <1>5
  <2>. QED  BY <2>3, <2>4, <1>6, <1>7
<1>9. AggregateRead(d, nals, longer, n)
  BY <1>7, <1>8 DEF AggregateRead
<1>. QED  BY <1>1, <1>9

LEMMA AggregateSteps ==
  ASSUME NEW d, NEW nals, Len(nals) \in Nat
  PROVE  /\ AcceptAggregate(d, nals) = AggregateUpTo(d, nals)[Len(nals)].state
         /\ \A k \in 0 .. Len(nals) :
               AggregateUpTo(d, nals)[k] = AggregateAt(d, nals, AggregateUpTo(d, nals), k)
<1>1. AggregateRead(d, nals, AggregateUpTo(d, nals), Len(nals))
  BY AggregateReadExists DEF AggregateRead, AggregateUpTo
<1> DEFINE f == AggregateUpTo(d, nals)
<1> HIDE DEF f
<1>2. f = [k \in 0 .. Len(nals) |-> AggregateAt(d, nals, f, k)]
  BY <1>1 DEF AggregateRead, f
<1>3. \A k \in 0 .. Len(nals) : f[k] = AggregateAt(d, nals, f, k)
  BY <1>2
<1>4. AcceptAggregate(d, nals) = f[Len(nals)].state
  BY DEF AcceptAggregate, AggregateUpTo, AggregateAt, f
<1>. QED  BY <1>3, <1>4 DEF f

\* One NAL of an aggregate.
LEMMA AggregateOne ==
  ASSUME NEW U, NEW W \in Seq(Seq(U)), NEW c \in DepacketizersOver(U), NEW i \in Nat, i < Len(W),
         NEW d \in DepacketizersOver(U), Assembled(d, c), ~d.fragmented,
         d.damaged \/ Holds(d, W, Place(i, 0)), NEW nal \in Seq(U), nal = W[i + 1]
  PROVE  /\ WithNal(d, nal) \in DepacketizersOver(U) /\ Assembled(WithNal(d, nal), c)
         /\ ~WithNal(d, nal).fragmented
         /\ WithNal(d, nal).damaged \/ Holds(WithNal(d, nal), W, Place(i + 1, 0))
         /\ Damaged(d) \in DepacketizersOver(U) /\ Assembled(Damaged(d), c)
         /\ ~Damaged(d).fragmented /\ Damaged(d).damaged
<1>1. /\ Damaged(d) \in DepacketizersOver(U) /\ Assembled(Damaged(d), c)
      /\ ~Damaged(d).fragmented /\ Damaged(d).damaged
  BY DamagedIs, AssembledFurther
<1> DEFINE e == WithNal(d, nal)
<1>2. /\ e \in DepacketizersOver(U) /\ e.nals = Append(d.nals, W[i + 1])
      /\ ~e.fragmented /\ e.damaged = d.damaged /\ Assembled(e, d)
  BY WithNalIs
<1> HIDE DEF e
<1>3. Assembled(e, c)
  BY <1>2, AssembledFurther
<1>4. e.damaged \/ Holds(e, W, Place(i + 1, 0))
  <2>1. CASE d.damaged
    BY <2>1, <1>2
  <2>2. CASE Holds(d, W, Place(i, 0))
    BY <2>2, <1>2, HoldsNext
  <2>. QED  BY <2>1, <2>2
<1>. QED  BY <1>1, <1>2, <1>3, <1>4 DEF e


LEMMA AcceptAggregateIs ==
  ASSUME NEW U, NEW W \in Seq(Seq(U)), NEW d \in DepacketizersOver(U), NEW i \in Nat,
         NEW nals, Len(nals) \in Nat, i + Len(nals) <= Len(W),
         \A k \in 1 .. Len(nals) : nals[k] = W[i + k],
         ~d.fragmented, d.damaged \/ Holds(d, W, Place(i, 0))
  PROVE  /\ AcceptAggregate(d, nals) \in DepacketizersOver(U)
         /\ Assembled(AcceptAggregate(d, nals), d)
         /\ \/ AcceptAggregate(d, nals).damaged
            \/ Holds(AcceptAggregate(d, nals), W, Place(i + Len(nals), 0))
<1> DEFINE f == AggregateUpTo(d, nals)
<1> DEFINE n == Len(nals)
<1> HIDE DEF f
<1>1. /\ AcceptAggregate(d, nals) = f[n].state
      /\ \A k \in 0 .. n : f[k] = AggregateAt(d, nals, f, k)
  BY AggregateSteps DEF f
<1> DEFINE Good(k) == /\ f[k].state \in DepacketizersOver(U) /\ Assembled(f[k].state, d)
                      /\ ~f[k].state.fragmented
                      /\ f[k].stopped \in BOOLEAN /\ (f[k].stopped => f[k].state.damaged)
                      /\ f[k].state.damaged \/ Holds(f[k].state, W, Place(i + k, 0))
<1> DEFINE bad == {k \in 0 .. n : ~Good(k)}
<1>2. bad = {}
  <2> SUFFICES ASSUME bad # {} PROVE FALSE
    OBVIOUS
  <2>1. PICK k \in bad : \A m \in bad : k <= m
    <3>1. bad \subseteq Nat
      OBVIOUS
    <3> HIDE DEF bad
    <3>. QED  BY <3>1, LeastNumber
  <2>2. k \in 0 .. n /\ ~Good(k) /\ f[k] = AggregateAt(d, nals, f, k)
    BY <2>1, <1>1
  <2>3. CASE k = 0
    <3>1. f[k] = [state |-> d, stopped |-> FALSE]
      BY <2>2, <2>3 DEF AggregateAt
    <3>2. i + k = i
      BY <2>3
    <3>3. f[k].state = d /\ f[k].stopped = FALSE
      BY <3>1
    <3>4. Good(k)
      BY <3>2, <3>3, AssembledAlone
    <3>. QED  BY <3>4, <2>2
  <2>4. CASE k # 0
    <3> DEFINE j == k - 1
    <3>1. j \in 0 .. n /\ j < k /\ k \in 1 .. n /\ j + 1 = k
      BY <2>2, <2>4
    <3>2. ~(j \in bad)
      <4> HIDE DEF bad, j
      <4>. QED  BY <2>1, <2>2, <3>1
    <3>3. Good(j)
      BY <3>1, <3>2
    <3> DEFINE c == f[j].state
    <3> DEFINE nal == nals[k]
    <3>4. /\ i + j \in Nat /\ i + j < Len(W) /\ (i + j) + 1 = i + k /\ i + k \in 1 .. Len(W)
      BY <3>1, SMTT(60)
    <3>5. nal \in Seq(U) /\ nal = W[(i + j) + 1]
      <4> DEFINE S == Seq(U)
      <4>1. W \in Seq(S)
        OBVIOUS
      <4> HIDE DEF S
      <4>2. W[i + k] \in S
        BY <4>1, <3>4, ElementOfSeq
      <4>. QED  BY <4>2, <3>1, <3>4 DEF S
    <3> HIDE DEF nal, c, j
    <3>6. /\ c \in DepacketizersOver(U) /\ Assembled(c, d) /\ ~c.fragmented
          /\ c.damaged \/ Holds(c, W, Place(i + j, 0))
      BY <3>3 DEF c
    <3>7. /\ WithNal(c, nal) \in DepacketizersOver(U) /\ Assembled(WithNal(c, nal), d)
          /\ ~WithNal(c, nal).fragmented
          /\ WithNal(c, nal).damaged \/ Holds(WithNal(c, nal), W, Place((i + j) + 1, 0))
          /\ Damaged(c) \in DepacketizersOver(U) /\ Assembled(Damaged(c), d)
          /\ ~Damaged(c).fragmented /\ Damaged(c).damaged
      BY <3>4, <3>5, <3>6, AggregateOne
    <3>8. f[k] = IF f[j].stopped THEN f[j]
                 ELSE IF HasRoom(c, nal) THEN [state |-> WithNal(c, nal), stopped |-> FALSE]
                 ELSE [state |-> Damaged(c), stopped |-> TRUE]
      BY <2>2, <2>4 DEF AggregateAt, c, nal, j
    <3>9. CASE f[j].stopped
      BY <3>3, <3>8, <3>9, <2>2
    <3>10. CASE ~f[j].stopped /\ HasRoom(c, nal)
      <4>1. f[k].state = WithNal(c, nal) /\ f[k].stopped = FALSE
        BY <3>8, <3>10
      <4>. QED  BY <4>1, <3>7, <3>4, <2>2
    <3>11. CASE ~f[j].stopped /\ ~HasRoom(c, nal)
      <4>1. f[k].state = Damaged(c) /\ f[k].stopped = TRUE
        BY <3>8, <3>11
      <4>. QED  BY <4>1, <3>7, <2>2
    <3>. QED  BY <3>9, <3>10, <3>11
  <2>. QED  BY <2>3, <2>4
<1>3. Good(n)
  <2>1. n \in 0 .. n
    OBVIOUS
  <2>. QED  BY <2>1, <1>2
<1>. QED  BY <1>1, <1>3

LEMMA StartFragmentIs ==
  ASSUME NEW U, NEW d \in DepacketizersOver(U), NEW body, body.header \in U, body.data \in Seq(U)
  PROVE  /\ StartFragment(d, body) \in DepacketizersOver(U)
         /\ Assembled(StartFragment(d, body), d)
         /\ \/ StartFragment(d, body).damaged
            \/ /\ ~d.fragmented /\ StartFragment(d, body).fragmented
               /\ StartFragment(d, body).fragment = <<body.header>> \o body.data
               /\ StartFragment(d, body).nals = d.nals
<1> DEFINE c == IF d.fragmented THEN Damaged(d) ELSE d
<1> DEFINE o == [c EXCEPT !.fragment = <<body.header>>]
<1>1. c \in DepacketizersOver(U) /\ Assembled(c, d) /\ (d.fragmented => c.damaged) /\ c.nals = d.nals
  BY DamagedIs, AssembledAlone DEF Damaged, DepacketizersOver
<1> HIDE DEF c
<1>2. <<body.header>> \in Seq(U) /\ <<body.header>> \o body.data \in Seq(U)
  BY ConcatProperties
<1>3. /\ o \in DepacketizersOver(U) /\ Assembled(o, c) /\ o.fragment = <<body.header>>
      /\ o.nals = c.nals /\ o.damaged = c.damaged
  BY <1>1, <1>2 DEF DepacketizersOver, Assembled
<1> HIDE DEF o
<1> DEFINE e == [o EXCEPT !.fragment = @ \o body.data, !.fragmented = TRUE]
<1> DEFINE g == [Damaged(o) EXCEPT !.fragmented = FALSE]
<1>4. /\ e \in DepacketizersOver(U) /\ Assembled(e, o) /\ e.fragment = <<body.header>> \o body.data
      /\ e.nals = o.nals /\ e.damaged = o.damaged /\ e.fragmented
  BY <1>2, <1>3 DEF DepacketizersOver, Assembled
<1>5. g \in DepacketizersOver(U) /\ Assembled(g, o) /\ g.damaged
  BY <1>3 DEF DepacketizersOver, Assembled, Damaged
<1>6. StartFragment(d, body) = IF Len(body.data) > MaxNalUnits - 1 THEN g ELSE e
  BY DEF StartFragment, o, c
<1> HIDE DEF e, g
<1>7. Assembled(e, d) /\ Assembled(g, d)
  BY <1>1, <1>3, <1>4, <1>5, AssembledFurther
<1>. QED  BY <1>1, <1>3, <1>4, <1>5, <1>6, <1>7

LEMMA ContinueFragmentIs ==
  ASSUME NEW U, NEW d \in DepacketizersOver(U), NEW body, body.data \in Seq(U)
  PROVE  /\ ContinueFragment(d, body) \in DepacketizersOver(U)
         /\ Assembled(ContinueFragment(d, body), d)
         /\ \/ ContinueFragment(d, body).damaged
            \/ /\ d.fragmented /\ ContinueFragment(d, body).fragmented
               /\ ContinueFragment(d, body).fragment = d.fragment \o body.data
               /\ ContinueFragment(d, body).nals = d.nals
<1>1. Damaged(d) \in DepacketizersOver(U) /\ Assembled(Damaged(d), d) /\ Damaged(d).damaged
  BY DamagedIs
<1> DEFINE g == NoFragment(Damaged(d))
<1>2. g \in DepacketizersOver(U) /\ Assembled(g, d) /\ g.damaged
  BY <1>1, NoFragmentIs, AssembledFurther
<1> DEFINE e == [d EXCEPT !.fragment = @ \o body.data]
<1>3. d.fragment \in Seq(U) /\ d.fragment \o body.data \in Seq(U)
  <2>1. d.fragment \in Seq(U)
    BY DEF DepacketizersOver
  <2>. QED  BY <2>1, ConcatProperties
<1>4. /\ e \in DepacketizersOver(U) /\ Assembled(e, d) /\ e.fragment = d.fragment \o body.data
      /\ e.nals = d.nals /\ e.fragmented = d.fragmented
  BY <1>3 DEF DepacketizersOver, Assembled
<1>5. ContinueFragment(d, body) =
        IF ~d.fragmented THEN Damaged(d)
        ELSE IF Len(d.fragment) + Len(body.data) > MaxNalUnits THEN g ELSE e
  BY DEF ContinueFragment
<1> HIDE DEF e, g
<1>. QED  BY <1>1, <1>2, <1>4, <1>5

LEMMA EndFragmentIs ==
  ASSUME NEW U, NEW d \in DepacketizersOver(U), d.fragmented
  PROVE  /\ EndFragment(d) \in DepacketizersOver(U)
         /\ Assembled(EndFragment(d), d)
         /\ \/ EndFragment(d).damaged
            \/ /\ ~EndFragment(d).fragmented
               /\ EndFragment(d).nals = Append(d.nals, d.fragment)
<1>1. Damaged(d) \in DepacketizersOver(U) /\ Assembled(Damaged(d), d) /\ Damaged(d).damaged
  BY DamagedIs
<1>2. d.fragment \in Seq(U)
  BY DEF DepacketizersOver
<1> DEFINE w == WithNal(d, d.fragment)
<1>3. /\ w \in DepacketizersOver(U) /\ Assembled(w, d) /\ w.nals = Append(d.nals, d.fragment)
  BY <1>2, WithNalIs
<1> HIDE DEF w
<1>4. /\ NoFragment(w) \in DepacketizersOver(U) /\ Assembled(NoFragment(w), d)
      /\ ~NoFragment(w).fragmented /\ NoFragment(w).nals = Append(d.nals, d.fragment)
  BY <1>3, NoFragmentIs, AssembledFurther
<1>5. /\ NoFragment(Damaged(d)) \in DepacketizersOver(U) /\ Assembled(NoFragment(Damaged(d)), d)
      /\ NoFragment(Damaged(d)).damaged
  BY <1>1, NoFragmentIs, AssembledFurther
<1>6. EndFragment(d) = IF HasRoom(d, d.fragment) THEN NoFragment(w) ELSE NoFragment(Damaged(d))
  BY DEF EndFragment, w
<1>. QED  BY <1>4, <1>5, <1>6


\* The beginning of a NAL, with what a fragment adds.
LEMMA FragmentAdds ==
  ASSUME NEW U, NEW nal \in Seq(U), NEW units \in Nat, NEW end \in units + 1 .. Len(nal)
  PROVE  /\ <<nal[1]>> \o SubSeq(nal, 2, end) = SubSeq(nal, 1, end)
         /\ units # 0 => SubSeq(nal, 1, units) \o SubSeq(nal, units + 1, end) = SubSeq(nal, 1, end)
<1>1. /\ Len(nal) \in Nat /\ 1 \in 1 .. Len(nal) /\ end \in 1 .. Len(nal) /\ 1 + 1 = 2
      /\ 1 \in 1 .. Len(nal) + 1 /\ units \in 1 - 1 .. Len(nal) /\ end \in units .. Len(nal)
  OBVIOUS
<1>2. SubSeq(nal, 1, end) = <<nal[1]>> \o SubSeq(nal, 1 + 1, end)
  BY <1>1, SubSeqRecursiveFirst
<1>3. SubSeq(nal, 1, units) \o SubSeq(nal, units + 1, end) = SubSeq(nal, 1, end)
  BY <1>1, ConcatAdjacentSubSeq
<1>. QED  BY <1>1, <1>2, <1>3

LEMMA AcceptFragmentIs ==
  ASSUME NEW U, NEW W \in Seq(Seq(U)), NEW d \in DepacketizersOver(U),
         NEW body \in BodiesOver(U), body.kind = "fu",
         NEW p \in Places, NEW q \in Places, Carries(body, W, p, q),
         d.damaged \/ Holds(d, W, p) \/ (HoldsNothing(d) /\ p.units # 0)
  PROVE  /\ AcceptFragment(d, body) \in DepacketizersOver(U)
         /\ Assembled(AcceptFragment(d, body), d)
         /\ AcceptFragment(d, body).damaged \/ Holds(AcceptFragment(d, body), W, q)
<1> DEFINE nal == W[p.nals + 1]
<1>1. PICK end \in p.units + 1 .. Len(nal) :
             /\ body.start <=> p.units = 0
             /\ body.last <=> end = Len(nal)
             /\ body.header = nal[1]
             /\ body.start => body.data = SubSeq(nal, 2, end)
             /\ ~body.start => body.data = SubSeq(nal, p.units + 1, end)
             /\ body.last => q = Place(p.nals + 1, 0)
             /\ ~body.last => q = Place(p.nals, end)
  BY DEF Carries
<1>2. /\ p.nals \in Nat /\ p.units \in Nat /\ Len(W) \in Nat /\ p.nals < Len(W)
      /\ p.nals + 1 \in 1 .. Len(W)
  <2>1. p.nals \in Nat /\ p.units \in Nat /\ Len(W) \in Nat /\ p.nals < Len(W)
    BY DEF Places, Carries
  <2>. QED  BY <2>1
<1>3. nal \in Seq(U)
  <2> DEFINE S == Seq(U)
  <2>1. W \in Seq(S)
    OBVIOUS
  <2> HIDE DEF S
  <2>2. nal \in S
    BY <2>1, <1>2, ElementOfSeq
  <2>. QED  BY <2>2 DEF S
<1>4. body.header \in U /\ body.data \in Seq(U) /\ body.start \in BOOLEAN /\ body.last \in BOOLEAN
  BY DEF BodiesOver
<1> HIDE DEF nal
<1>5. /\ <<nal[1]>> \o SubSeq(nal, 2, end) = SubSeq(nal, 1, end)
      /\ p.units # 0 => SubSeq(nal, 1, p.units) \o SubSeq(nal, p.units + 1, end) = SubSeq(nal, 1, end)
  BY <1>1, <1>2, <1>3, FragmentAdds
<1> DEFINE g == IF body.start THEN StartFragment(d, body) ELSE ContinueFragment(d, body)
<1>6. g \in DepacketizersOver(U) /\ Assembled(g, d)
  BY <1>4, StartFragmentIs, ContinueFragmentIs
<1>7. \/ g.damaged
      \/ /\ Holds(d, W, p) /\ g.fragmented /\ g.nals = d.nals
         /\ g.fragment = SubSeq(nal, 1, end)
  <2>1. CASE d.damaged
    BY <2>1, <1>6 DEF Assembled
  <2>2. CASE Holds(d, W, p) /\ body.start
    BY <2>2, <1>1, <1>4, <1>5, StartFragmentIs, SMTT(60)
  <2>3. CASE Holds(d, W, p) /\ ~body.start
    <3>1. d.fragment = SubSeq(nal, 1, p.units)
      BY <2>3, <1>1 DEF Holds, nal
    <3>2. p.units # 0
      BY <2>3, <1>1
    <3>3. d.fragment \o body.data = SubSeq(nal, 1, end)
      BY <2>3, <3>1, <3>2, <1>1, <1>5
    <3>4. g = ContinueFragment(d, body)
      BY <2>3
    <3> HIDE DEF g
    <3> DEFINE e == ContinueFragment(d, body)
    <3>6. \/ e.damaged
          \/ /\ d.fragmented /\ e.fragmented
             /\ e.fragment = d.fragment \o body.data /\ e.nals = d.nals
      BY <1>4, ContinueFragmentIs
    <3> HIDE DEF e
    <3>5. \/ g.damaged
          \/ /\ d.fragmented /\ g.fragmented /\ g.nals = d.nals
             /\ g.fragment = d.fragment \o body.data
      BY <3>4, <3>6 DEF e
    <3>. QED  BY <2>3, <3>3, <3>5
  <2>4. CASE HoldsNothing(d) /\ p.units # 0
    <3>1. ~d.fragmented /\ ~body.start
      BY <2>4, <1>1 DEF HoldsNothing
    <3>. QED  BY <3>1, <1>4, ContinueFragmentIs
  <2>. QED  BY <2>1, <2>2, <2>3, <2>4
<1>8. AcceptFragment(d, body) = IF body.last THEN EndFragment(g) ELSE g
  BY DEF AcceptFragment
<1> HIDE DEF g
<1>9. CASE ~body.last
  <2>1. q.nals = p.nals /\ q.units = end /\ end # 0
    BY <1>1, <1>2, <1>9, PlaceIs, SMTT(60)
  <2>2. ASSUME ~g.damaged PROVE Holds(g, W, q)
    <3>1. /\ p.nals <= Len(W) /\ Len(d.nals) <= p.nals
          /\ d.nals = SubSeq(W, (p.nals - Len(d.nals)) + 1, p.nals)
      BY <2>2, <1>7 DEF Holds
    <3>2. g.nals = d.nals /\ g.fragmented /\ g.fragment = SubSeq(W[q.nals + 1], 1, q.units)
      BY <2>1, <2>2, <1>7 DEF nal
    <3>. QED  BY <2>1, <3>1, <3>2 DEF Holds
  <2>. QED  BY <2>2, <1>6, <1>8, <1>9
<1>10. CASE body.last
  <2>1. q = Place(p.nals + 1, 0) /\ end = Len(nal)
    BY <1>1, <1>10
  <2>2. CASE g.fragmented
    <3> DEFINE e == EndFragment(g)
    <3>1. /\ e \in DepacketizersOver(U) /\ Assembled(e, g)
          /\ e.damaged \/ (~e.fragmented /\ e.nals = Append(g.nals, g.fragment))
      BY <2>2, <1>6, EndFragmentIs
    <3> HIDE DEF e
    <3>2. ASSUME ~e.damaged PROVE Holds(e, W, q)
      <4> DEFINE c == NoFragment(g)
      <4>1. c \in DepacketizersOver(U) /\ ~c.fragmented /\ c.nals = g.nals
        BY <1>6, NoFragmentIs
      <4> HIDE DEF c
      <4>2. ~g.damaged
        BY <3>1, <3>2 DEF Assembled
      <4>3. g.fragment = W[p.nals + 1]
        BY <4>2, <2>1, <1>3, <1>7, SubSeqFull DEF nal
      <4>4. /\ p.nals <= Len(W) /\ Len(c.nals) <= p.nals
            /\ c.nals = SubSeq(W, (p.nals - Len(c.nals)) + 1, p.nals)
        BY <4>1, <4>2, <1>7 DEF Holds
      <4> DEFINE o == Place(p.nals, 0)
      <4>5. o.nals = p.nals /\ o.units = 0
        BY PlaceIs
      <4> HIDE DEF o
      <4>6. Holds(c, W, o)
        BY <4>1, <4>4, <4>5 DEF Holds
      <4>7. e.nals = Append(c.nals, W[p.nals + 1]) /\ ~e.fragmented
        BY <3>1, <3>2, <4>1, <4>3
      <4>8. Holds(c, W, Place(p.nals, 0))
        BY <4>6 DEF o
      <4>9. Holds(e, W, Place(p.nals + 1, 0))
        BY <3>1, <4>1, <4>7, <4>8, <1>2, HoldsNext
      <4>. QED  BY <4>9, <2>1
    <3>3. Assembled(e, d)
      BY <3>1, <1>6, AssembledFurther
    <3>. QED  BY <3>1, <3>2, <3>3, <1>8, <1>10 DEF e
  <2>3. CASE ~g.fragmented
    <3>1. EndFragment(g) = g /\ g.damaged
      BY <2>3, <1>7 DEF EndFragment
    <3>. QED  BY <3>1, <1>6, <1>8, <1>10
  <2>. QED  BY <2>2, <2>3
<1>. QED  BY <1>9, <1>10

\* accept: with one more packet's body, the depacketizer holds what is up to the end
\* of that body, or the access unit is damaged.
LEMMA AcceptKeeps ==
  ASSUME NEW U, NEW W \in Seq(Seq(U)), NEW d \in DepacketizersOver(U),
         NEW body \in BodiesOver(U), NEW p \in Places, NEW q \in Places, Carries(body, W, p, q),
         d.damaged \/ Holds(d, W, p) \/ HoldsNothing(d)
  PROVE  /\ Accept(d, body) \in DepacketizersOver(U)
         /\ Assembled(Accept(d, body), d)
         /\ Accept(d, body).damaged \/ Holds(Accept(d, body), W, q)
<1>1. /\ p.nals \in Nat /\ p.units \in Nat /\ Len(W) \in Nat /\ p.nals < Len(W)
      /\ q.nals \in Nat /\ q.units \in Nat /\ q.nals <= Len(W)
      /\ p = Place(p.nals, p.units) /\ q = Place(q.nals, q.units)
  BY DEF Places, Carries, Place
<1>2. d.damaged \/ Holds(d, W, p) \/ (HoldsNothing(d) /\ p.units # 0)
  <2>1. HoldsNothing(d) /\ p.units = 0 => Holds(d, W, p)
    BY <1>1, NothingHolds
  <2>. QED  BY <2>1
<1>3. CASE body.kind = "fu"
  BY <1>2, <1>3, AcceptFragmentIs DEF Accept
<1>4. CASE body.kind # "fu"
  <2> DEFINE c == Interrupted(d)
  <2>1. /\ c \in DepacketizersOver(U) /\ ~c.fragmented /\ Assembled(c, d)
        /\ d.fragmented => c.damaged
        /\ ~d.fragmented => c = d
    BY InterruptedIs
  <2>2. /\ p.units = 0 /\ q.units = 0 /\ p.nals < q.nals
        /\ body.nals = SubSeq(W, p.nals + 1, q.nals)
        /\ body.kind = "single" => q.nals = p.nals + 1
        /\ body.kind \in {"single", "stap"}
    BY <1>4 DEF Carries
  <2> DEFINE i == p.nals
  <2> DEFINE n == q.nals - p.nals
  <2>3. p = Place(i, 0) /\ q = Place(i + n, 0) /\ n \in Nat /\ n > 0 /\ i + n <= Len(W)
        /\ i + n = q.nals
    <3> DEFINE j == q.nals
    <3>1. /\ i \in Nat /\ j \in Nat /\ i < j /\ j <= Len(W) /\ Len(W) \in Nat /\ n = j - i
          /\ p = Place(i, 0) /\ q = Place(j, 0)
      BY <1>1, <2>2
    <3> HIDE DEF i, j, n
    <3>2. n \in Nat /\ n > 0 /\ i + n = j
      BY <3>1
    <3>. QED  BY <3>1, <3>2 DEF j
  <2>4. c.damaged \/ Holds(c, W, Place(i, 0))
    <3>1. CASE d.fragmented
      BY <3>1, <2>1
    <3>2. CASE ~d.fragmented
      BY <3>2, <2>1, <2>2, <2>3, <1>2
    <3>. QED  BY <3>1, <3>2
  <2> DEFINE nals == body.nals
  <2>5. Len(nals) = n /\ \A k \in 1 .. n : nals[k] = W[i + k] /\ W[i + k] \in Seq(U)
    <3> DEFINE S == Seq(U)
    <3> DEFINE m == i + 1
    <3> DEFINE j == q.nals
    <3>0. i \in Nat /\ n \in Nat /\ n > 0 /\ j = i + n /\ i + n <= Len(W) /\ Len(W) \in Nat
      BY <1>1, <2>3
    <3> HIDE DEF i, n, j
    <3>1. m \in Int /\ j \in Int /\ m <= j /\ (j - m) + 1 = n
      BY <3>0
    <3>2. \A x \in m .. j : x \in 1 .. Len(W)
      BY <3>0
    <3>3. \A k \in 1 .. n : (m + k) - 1 = i + k /\ i + k \in 1 .. Len(W)
      BY <3>0
    <3>9. W \in Seq(S)
      OBVIOUS
    <3> HIDE DEF S, m
    <3>4. \A x \in m .. j : W[x] \in S
      BY <3>2, <3>9, ElementOfSeq
    <3>5. /\ Len(SubSeq(W, m, j)) = (IF m <= j THEN j - m + 1 ELSE 0)
          /\ \A k \in 1 .. j - m + 1 : SubSeq(W, m, j)[k] = W[m + k - 1]
      BY <3>1, <3>4, SubSeqProperties
    <3>6. j - m + 1 = n /\ \A k \in 1 .. n : m + k - 1 = i + k
      BY <3>0, <3>1, <3>3 DEF m
    <3>7. nals = SubSeq(W, m, j)
      BY <2>2 DEF m, j, i
    <3>8. \A k \in 1 .. n : W[i + k] \in S
      BY <3>3, <3>9, ElementOfSeq
    <3>. QED  BY <3>1, <3>5, <3>6, <3>7, <3>8 DEF S
  <2>6. CASE body.kind = "single"
    <3>1. n = 1 /\ q = Place(i + 1, 0) /\ i < Len(W) /\ i \in Nat
      BY <2>2, <2>3, <2>6, <1>1
    <3>2. nals[1] \in Seq(U) /\ nals[1] = W[i + 1]
      BY <3>1, <2>5
    <3> HIDE DEF c, nals, n, i
    <3> DEFINE e == AcceptSingle(c, nals[1])
    <3>3. /\ e \in DepacketizersOver(U) /\ Assembled(e, c)
          /\ e.damaged \/ (e.nals = Append(c.nals, W[i + 1]) /\ ~e.fragmented)
      BY <2>1, <3>2, AcceptSingleIs
    <3> HIDE DEF e
    <3>4. e.damaged \/ Holds(e, W, Place(i + 1, 0))
      <4>1. CASE c.damaged
        BY <4>1, <3>3 DEF Assembled
      <4>2. CASE ~c.damaged
        BY <4>2, <2>1, <2>4, <3>1, <3>3, HoldsNext
      <4>. QED  BY <4>1, <4>2
    <3>5. Assembled(e, d)
      BY <3>3, <2>1, AssembledFurther
    <3>6. Accept(d, body) = e
      BY <2>6 DEF Accept, e, c, nals
    <3>. QED  BY <3>1, <3>3, <3>4, <3>5, <3>6
  <2>7. CASE body.kind = "stap"
    <3> DEFINE e == AcceptAggregate(c, nals)
    <3>0. i \in Nat
      BY <1>1
    <3>1. Accept(d, body) = e
      BY <2>7 DEF Accept
    <3> HIDE DEF c, n, i, nals
    <3>2. /\ Len(nals) \in Nat /\ i + Len(nals) <= Len(W)
          /\ \A k \in 1 .. Len(nals) : nals[k] = W[i + k]
          /\ Place(i + Len(nals), 0) = q
      BY <2>3, <2>5
    <3>3. /\ e \in DepacketizersOver(U) /\ Assembled(e, c)
          /\ e.damaged \/ Holds(e, W, q)
      <4>1. /\ e \in DepacketizersOver(U) /\ Assembled(e, c)
            /\ e.damaged \/ Holds(e, W, Place(i + Len(nals), 0))
        BY <2>1, <2>4, <3>0, <3>2, AcceptAggregateIs
      <4>. QED  BY <4>1, <3>2
    <3>4. Assembled(e, d)
      BY <3>3, <2>1, AssembledFurther
    <3>. QED  BY <3>1, <3>3, <3>4
  <2>. QED  BY <2>2, <2>6, <2>7
<1>. QED  BY <1>3, <1>4


-----------------------------------------------------------------------------
(* What the depacketizer holds after a packet.                             *)

\* d holds the end of what the first packets of an access unit carry, the last of
\* which was the last packet it was given; `first` is the number of the first one.
Keeps(d, W, place, first) ==
    \/ d.damaged
    \/ HoldsNothing(d)
    \/ \E k \in DOMAIN place \ {0} :
          d.lastSequence = (first + k - 1) % SequenceSpace /\ Holds(d, W, place[k])

LEMMA NextOnly ==
  ASSUME NEW first \in Nat, NEW n \in Nat, n < SequenceSpace,
         NEW j \in 1 .. n, NEW k \in 1 .. n,
         (((first + k - 1) % SequenceSpace) + 1) % SequenceSpace = (first + j - 1) % SequenceSpace
  PROVE  k = j - 1
<1>1. SequenceSpace \in Nat /\ SequenceSpace > 0
  BY SequenceSpaceAssumption
<1> DEFINE S == SequenceSpace
<1> DEFINE x == first + k - 1
<1> DEFINE y == first + j - 1
<1> DEFINE a == x % S
<1> DEFINE b == y % S
<1> DEFINE u == x \div S
<1> DEFINE v == y \div S
<1> DEFINE c == a + 1
<1> DEFINE w == c \div S
<1>2. S \in Nat /\ S > 0 /\ x \in Nat /\ y \in Nat /\ n < S
  BY <1>1
<1> HIDE DEF S, x, y
<1>3. /\ u \in Int /\ v \in Int /\ a \in 0 .. S - 1 /\ b \in 0 .. S - 1
      /\ x = S * u + a /\ y = S * v + b
  BY <1>2
<1>4. c \in Int /\ w \in Int /\ c % S \in 0 .. S - 1 /\ c = S * w + (c % S) /\ c = a + 1
  BY <1>2, <1>3
<1>5. c % S = b
  BY DEF S, x, y
<1> HIDE DEF a, b, c, u, v, w
<1>6. (x + 1) - y = S * ((u + w) - v)
  <2> DEFINE su == S * u
  <2> DEFINE sv == S * v
  <2> DEFINE sw == S * w
  <2>1. S * ((u + w) - v) = (su + sw) - sv
    BY <1>2, <1>3, <1>4
  <2>2. su \in Int /\ sv \in Int /\ sw \in Int /\ x = su + a /\ y = sv + b /\ a + 1 = sw + b
    BY <1>2, <1>3, <1>4, <1>5
  <2> HIDE DEF su, sv, sw
  <2>. QED  BY <1>2, <1>3, <2>1, <2>2
<1>7. (x + 1) - y = (k + 1) - j
  BY DEF x, y
<1>8. (k + 1) - j > -S /\ (k + 1) - j < S
  BY <1>2
<1> DEFINE t == (u + w) - v
<1>9. t \in Int /\ S * t > -S /\ S * t < S
  BY <1>3, <1>4, <1>6, <1>7, <1>8
<1> HIDE DEF t
<1>10. t = 0
  <2>1. t >= 1 => S * t >= S
    BY <1>2, <1>9
  <2>2. t <= -1 => S * t <= -S
    BY <1>2, <1>9
  <2>. QED  BY <1>9, <2>1, <2>2, <1>2
<1>11. (k + 1) - j = 0
  BY <1>2, <1>6, <1>7, <1>10 DEF t
<1>. QED  BY <1>11

LEMMA TakenKeeps ==
  ASSUME NEW U, NEW bodies \in Seq(MarkedOver(U)), NEW W \in Seq(Seq(U)), NEW place,
         Carried(bodies, W, place), Len(bodies) < SequenceSpace, NEW first \in Nat,
         NEW d \in DepacketizersOver(U), NEW j \in 1 .. Len(bodies), NEW p,
         p.body = bodies[j].body, p.sequence = (first + j - 1) % SequenceSpace,
         p.timestamp \in Nat, p.captureTime \in Seq(Nat),
         d.active /\ d.timestamp = p.timestamp => Keeps(d, W, place, first)
  PROVE  /\ Taken(d, p, SequenceSpace) \in DepacketizersOver(U)
         /\ Taken(d, p, SequenceSpace).active
         /\ Taken(d, p, SequenceSpace).timestamp = p.timestamp
         /\ Taken(d, p, SequenceSpace).lastSequence = p.sequence
         /\ \/ Taken(d, p, SequenceSpace).captureTime = p.captureTime
            \/ /\ d.active /\ d.timestamp = p.timestamp
               /\ Taken(d, p, SequenceSpace).captureTime = d.captureTime
         /\ \/ Taken(d, p, SequenceSpace).damaged
            \/ Holds(Taken(d, p, SequenceSpace), W, place[j])
<1> DEFINE fresh == ~d.active \/ p.timestamp # d.timestamp
<1> DEFINE begun == IF fresh THEN Started(d, p) ELSE d
<1> DEFINE gap == /\ begun.fragmented \/ begun.nals # <<>>
                  /\ (begun.lastSequence + 1) % SequenceSpace # p.sequence
<1> DEFINE x == [begun EXCEPT !.captureTime = IF @ = NoTime THEN p.captureTime ELSE @,
                              !.damaged = @ \/ gap,
                              !.lastSequence = p.sequence]
<1>1. /\ Started(d, p) \in DepacketizersOver(U) /\ HoldsNothing(Started(d, p))
      /\ Started(d, p).active /\ Started(d, p).timestamp = p.timestamp
      /\ Started(d, p).captureTime = p.captureTime
  <2>1. <<>> \in Seq(U) /\ <<>> \in Seq(Seq(U)) /\ 0 \in Nat
    OBVIOUS
  <2>. QED  BY <2>1 DEF DepacketizersOver, Started, Reset, HoldsNothing
<1>2. /\ begun \in DepacketizersOver(U) /\ begun.active /\ begun.timestamp = p.timestamp
      /\ begun.captureTime = p.captureTime
         \/ (d.active /\ d.timestamp = p.timestamp /\ begun.captureTime = d.captureTime)
      /\ Keeps(begun, W, place, first)
  <2>1. CASE fresh
    BY <1>1, <2>1 DEF Keeps
  <2>2. CASE ~fresh
    BY <2>2
  <2>. QED  BY <2>1, <2>2
<1>3. p.sequence \in Nat /\ gap \in BOOLEAN
  <2>1. SequenceSpace \in Nat /\ SequenceSpace > 0
    BY SequenceSpaceAssumption
  <2>2. first + j - 1 \in Nat
    OBVIOUS
  <2>. QED  BY <2>1, <2>2
<1>4. Taken(d, p, SequenceSpace) = Accept(x, p.body)
  BY DEF Taken
<1> HIDE DEF begun
<1>5. gap => begun.fragmented \/ begun.nals # <<>>
  OBVIOUS
<1>6. ~gap => (begun.fragmented = FALSE /\ begun.nals = <<>>)
              \/ (begun.lastSequence + 1) % SequenceSpace = p.sequence
  BY <1>2 DEF DepacketizersOver
<1> HIDE DEF gap
<1>7. /\ x \in DepacketizersOver(U) /\ x.active /\ x.timestamp = p.timestamp
      /\ x.lastSequence = p.sequence
      /\ x.captureTime = p.captureTime \/ x.captureTime = begun.captureTime
      /\ x.damaged <=> (begun.damaged \/ gap)
      /\ x.nals = begun.nals /\ x.fragmented = begun.fragmented /\ x.fragment = begun.fragment
      /\ x.units = begun.units
  BY <1>2, <1>3 DEF DepacketizersOver
<1> HIDE DEF x
<1>8. /\ Len(bodies) \in Nat /\ place \in [0 .. Len(bodies) -> Places]
      /\ Carries(bodies[j].body, W, place[j - 1], place[j])
      /\ place[j - 1] \in Places /\ place[j] \in Places /\ DOMAIN place \ {0} = 1 .. Len(bodies)
  <2>1. Len(bodies) \in Nat /\ j - 1 \in 0 .. Len(bodies) /\ j \in 0 .. Len(bodies)
        /\ (0 .. Len(bodies)) \ {0} = 1 .. Len(bodies)
    OBVIOUS
  <2>. QED  BY <2>1 DEF Carried
<1>9. x.damaged \/ Holds(x, W, place[j - 1]) \/ HoldsNothing(x)
  <2>1. CASE begun.damaged \/ gap
    BY <2>1, <1>7
  <2>2. CASE HoldsNothing(begun)
    BY <2>2, <1>7 DEF HoldsNothing
  <2>3. CASE ~(begun.damaged \/ gap) /\ ~HoldsNothing(begun)
    <3>1. PICK k \in 1 .. Len(bodies) :
             begun.lastSequence = (first + k - 1) % SequenceSpace /\ Holds(begun, W, place[k])
      BY <2>3, <1>2, <1>8 DEF Keeps
    <3>2. (begun.lastSequence + 1) % SequenceSpace = p.sequence
      BY <2>3, <1>6 DEF HoldsNothing
    <3>3. k = j - 1
      <4> DEFINE n == Len(bodies)
      <4>1. n \in Nat /\ n < SequenceSpace /\ j \in 1 .. n /\ k \in 1 .. n
        BY <3>1
      <4> HIDE DEF n
      <4>. QED  BY <4>1, <3>1, <3>2, NextOnly
    <3>4. Holds(x, W, place[k])
      BY <3>1, <1>7 DEF Holds
    <3>. QED  BY <3>3, <3>4
  <2>. QED  BY <2>1, <2>2, <2>3
<1> DEFINE body == bodies[j].body
<1>10. body \in BodiesOver(U)
  <2> DEFINE S == MarkedOver(U)
  <2>1. bodies \in Seq(S)
    OBVIOUS
  <2> HIDE DEF S
  <2>2. bodies[j] \in S
    BY <2>1, ElementOfSeq
  <2>. QED  BY <2>2 DEF S, MarkedOver
<1> DEFINE e == Accept(x, body)
<1> HIDE DEF body
<1>11. /\ e \in DepacketizersOver(U) /\ Assembled(e, x)
       /\ e.damaged \/ Holds(e, W, place[j])
  BY <1>7, <1>8, <1>9, <1>10, AcceptKeeps DEF body
<1>12. Taken(d, p, SequenceSpace) = e
  BY <1>4 DEF body
<1> HIDE DEF e
<1>13. e.active /\ e.timestamp = p.timestamp /\ e.lastSequence = p.sequence
       /\ e.captureTime = x.captureTime
  BY <1>7, <1>11 DEF Assembled
<1>. QED  BY <1>2, <1>7, <1>11, <1>12, <1>13


-----------------------------------------------------------------------------
(* The end of a sequence.                                                  *)

LEMMA ReverseIs ==
  ASSUME NEW S, NEW s \in Seq(S)
  PROVE  /\ Reverse(s) \in Seq(S) /\ Len(Reverse(s)) = Len(s)
         /\ \A i \in 1 .. Len(s) : Reverse(s)[i] = s[(Len(s) - i) + 1]
<1> DEFINE n == Len(s)
<1>1. n \in Nat /\ \A i \in 1 .. n : (n - i) + 1 \in 1 .. n
  OBVIOUS
<1>2. \A i \in 1 .. n : s[(n - i) + 1] \in S
  <2>1. \A k \in 1 .. n : s[k] \in S
    BY ElementOfSeq
  <2> HIDE DEF n
  <2>. QED  BY <1>1, <2>1
<1>3. Reverse(s) = [i \in 1 .. n |-> s[(n - i) + 1]]
  BY DEF Reverse
<1> HIDE DEF n
<1>4. Reverse(s) \in [1 .. n -> S]
  BY <1>2, <1>3
<1>. QED  BY <1>1, <1>3, <1>4 DEF n

LEMMA TailIsSuffix ==
  ASSUME NEW S, NEW W \in Seq(S), NEW m \in 0 .. Len(W)
  PROVE  IsSuffix(SubSeq(W, (Len(W) - m) + 1, Len(W)), W)
<1> DEFINE n == Len(W)
<1> DEFINE b == (n - m) + 1
<1> DEFINE s == SubSeq(W, b, n)
<1>1. n \in Nat /\ b \in 1 .. n + 1 /\ m \in Nat /\ m <= n
  OBVIOUS
<1>2. s \in Seq(S) /\ Len(s) = m /\ \A i \in 1 .. m : s[i] = W[(b + i) - 1]
  <2>1. \A i \in b .. n : W[i] \in S
    BY <1>1, ElementOfSeq
  <2> HIDE DEF b, n, s
  <2>2. /\ SubSeq(W, b, n) \in Seq(S)
        /\ Len(SubSeq(W, b, n)) = (IF b <= n THEN n - b + 1 ELSE 0)
        /\ \A i \in 1 .. n - b + 1 : SubSeq(W, b, n)[i] = W[b + i - 1]
    BY <1>1, <2>1, SubSeqProperties
  <2>3. n - b + 1 = m /\ (b <= n <=> m > 0)
    BY <1>1 DEF b
  <2>. QED  BY <1>1, <2>2, <2>3 DEF s
<1> HIDE DEF s
<1>3. /\ Reverse(s) \in Seq(S) /\ Len(Reverse(s)) = m
      /\ \A i \in 1 .. m : Reverse(s)[i] = s[(m - i) + 1]
  BY <1>2, ReverseIs
<1>4. /\ Reverse(W) \in Seq(S) /\ Len(Reverse(W)) = n
      /\ \A i \in 1 .. n : Reverse(W)[i] = W[(n - i) + 1]
  BY ReverseIs
<1>5. \A i \in 1 .. m : Reverse(s)[i] = Reverse(W)[i]
  <2> TAKE i \in 1 .. m
  <2> DEFINE k == (m - i) + 1
  <2>1. k \in 1 .. m /\ (b + k) - 1 = (n - i) + 1 /\ i \in 1 .. n
    BY <1>1
  <2> HIDE DEF k, b
  <2>2. Reverse(s)[i] = s[k] /\ s[k] = W[(b + k) - 1]
    BY <1>2, <1>3, <2>1 DEF k
  <2>. QED  BY <1>4, <2>1, <2>2
<1> DEFINE r == Reverse(s)
<1> DEFINE w == Reverse(W)
<1> HIDE DEF r, w, n, b
<1>6. SubSeq(r, 1, m) = SubSeq(w, 1, m)
  <2>1. \A i \in 1 .. m : r[i] \in S /\ w[i] \in S
    BY <1>1, <1>3, <1>4, ElementOfSeq DEF r, w
  <2>2. 1 \in Int /\ m \in Int /\ m - 1 + 1 = m
    BY <1>1
  <2>3. /\ SubSeq(r, 1, m) \in Seq(S)
        /\ Len(SubSeq(r, 1, m)) = (IF 1 <= m THEN m - 1 + 1 ELSE 0)
        /\ \A i \in 1 .. m - 1 + 1 : SubSeq(r, 1, m)[i] = r[1 + i - 1]
    BY <2>1, <2>2, SubSeqProperties
  <2>4. /\ SubSeq(w, 1, m) \in Seq(S)
        /\ Len(SubSeq(w, 1, m)) = (IF 1 <= m THEN m - 1 + 1 ELSE 0)
        /\ \A i \in 1 .. m - 1 + 1 : SubSeq(w, 1, m)[i] = w[1 + i - 1]
    BY <2>1, <2>2, SubSeqProperties
  <2>5. /\ Len(SubSeq(r, 1, m)) = m /\ Len(SubSeq(w, 1, m)) = m
        /\ \A i \in 1 .. m : SubSeq(r, 1, m)[i] = SubSeq(w, 1, m)[i]
    <3>1. \A i \in 1 .. m : 1 + i - 1 = i /\ i \in 1 .. m - 1 + 1
      BY <1>1
    <3>2. \A i \in 1 .. m : r[i] = w[i]
      BY <1>5 DEF r, w
    <3>. QED  BY <1>1, <2>2, <2>3, <2>4, <3>1, <3>2
  <2>. QED  BY <2>3, <2>4, <2>5, SeqEqual
<1>7. Len(r) = m /\ Len(w) = n
  BY <1>3, <1>4 DEF r, w
<1>8. IsSuffix(s, W)
  BY <1>1, <1>6, <1>7 DEF IsSuffix, IsPrefix, r, w
<1>. QED  BY <1>8 DEF s, b, n

-----------------------------------------------------------------------------
(* What one packet does to the receiver.                                   *)

UnitIds == Nat \X Nat \X Nat

\* NalsOf and PacketsOf, of any stream.
UnitsOf(s, a) == [n \in DOMAIN s[a] |-> [i \in 1 .. s[a][n].size |-> <<a, n, i>>]]
PacketOf(s, a, from, k) ==
    [sequence |-> (from + k - 1) % SequenceSpace, timestamp |-> a,
     marker |-> Bodies(UnitsOf(s, a))[k].marker, body |-> Bodies(UnitsOf(s, a))[k].body]
PlaceOf(nals) == CHOOSE place : Carried(Bodies(nals), Kept(nals), place)

IsStream(s) == s \in Seq(Seq([type : STRING, size : Nat]))
IsShort(s) == \A a \in DOMAIN s : Len(Bodies(UnitsOf(s, a))) < SequenceSpace

Times(a) == {NoTime, CaptureTime(a)}

\* The depacketizer holds the end of what the last sender of an access unit sent
\* of it, or nothing; first[a] is the number of the first packet of it.
DepacketizerIs(d, s, count, first) ==
    /\ d \in DepacketizersOver(UnitIds)
    /\ d.active =>
          /\ d.timestamp \in 1 .. count
          /\ d.captureTime \in Times(d.timestamp)
          /\ Keeps(d, Kept(UnitsOf(s, d.timestamp)), PlaceOf(UnitsOf(s, d.timestamp)),
                   first[d.timestamp])

\* What CompletedAreTails says of each access unit.
Tails(s) ==
    {unit \in [timestamp : Nat, captureTime : Seq(Nat), nals : Seq(Seq(UnitIds))] :
        /\ unit.nals # <<>> /\ IsSuffix(unit.nals, Kept(UnitsOf(s, unit.timestamp)))
        /\ unit.captureTime \in Times(unit.timestamp)}

LEMMA TimesAre ==
  ASSUME NEW a \in Nat
  PROVE  Times(a) \subseteq Seq(Nat)
<1>1. NoTime \in [1 .. 8 -> Nat]
  BY DEF NoTime, Zeros
<1>2. CaptureTime(a) \in Seq(Nat)
  BY DEF CaptureTime
<1>3. NoTime \in Seq(Nat)
  <2>1. 8 \in Nat
    OBVIOUS
  <2>. QED  BY <2>1, <1>1, SeqDef
<1>. QED  BY <1>2, <1>3 DEF Times

LEMMA UnitsAre ==
  ASSUME NEW s, IsStream(s), NEW a \in 1 .. Len(s)
  PROVE  UnitsOf(s, a) \in Seq(Seq(UnitIds))
<1> DEFINE unit == s[a]
<1> DEFINE R == [type : STRING, size : Nat]
<1> DEFINE Q == Seq(R)
<1>1. a \in Nat
  BY DEF IsStream
<1>2. unit \in Seq(R)
  <2>1. s \in Seq(Q)
    BY DEF IsStream
  <2> HIDE DEF Q
  <2>2. unit \in Q
    BY <2>1, ElementOfSeq
  <2>. QED  BY <2>2 DEF Q
<1> HIDE DEF unit
<1>3. Len(unit) \in Nat /\ DOMAIN unit = 1 .. Len(unit)
  BY <1>2, LenProperties
<1>4. ASSUME NEW n \in 1 .. Len(unit)
      PROVE  [i \in 1 .. unit[n].size |-> <<a, n, i>>] \in Seq(UnitIds)
  <2>1. unit[n].size \in Nat
    <3>1. unit[n] \in R
      BY <1>2, ElementOfSeq
    <3>. QED  BY <3>1
  <2>2. \A i \in 1 .. unit[n].size : <<a, n, i>> \in UnitIds
    BY <1>1, <1>3, <1>4, <2>1 DEF UnitIds
  <2> DEFINE z == unit[n].size
  <2> HIDE DEF z
  <2>3. z \in Nat /\ [i \in 1 .. z |-> <<a, n, i>>] \in [1 .. z -> UnitIds]
    BY <2>1, <2>2 DEF z
  <2>4. [i \in 1 .. z |-> <<a, n, i>>] \in Seq(UnitIds)
    BY <2>3, SeqDef
  <2>. QED  BY <2>4 DEF z
<1>5. UnitsOf(s, a) \in [1 .. Len(unit) -> Seq(UnitIds)]
  BY <1>3, <1>4 DEF UnitsOf, unit
<1> DEFINE S == Seq(UnitIds)
<1> HIDE DEF S
<1>6. UnitsOf(s, a) \in Seq(S)
  <2>1. UnitsOf(s, a) \in [1 .. Len(unit) -> S]
    BY <1>5 DEF S
  <2>. QED  BY <2>1, <1>3, SeqDef
<1>. QED  BY <1>6 DEF S

LEMMA UnitIsCarried ==
  ASSUME NEW s, IsStream(s), NEW a \in 1 .. Len(s)
  PROVE  /\ Bodies(UnitsOf(s, a)) \in Seq(MarkedOver(UnitIds))
         /\ Kept(UnitsOf(s, a)) \in Seq(Seq(UnitIds))
         /\ Carried(Bodies(UnitsOf(s, a)), Kept(UnitsOf(s, a)), PlaceOf(UnitsOf(s, a)))
<1> DEFINE nals == UnitsOf(s, a)
<1> DEFINE S == Seq(UnitIds)
<1>1. nals \in Seq(Seq(UnitIds))
  BY UnitsAre
<1> HIDE DEF nals
<1>2. /\ Bodies(nals) \in Seq(MarkedOver(UnitIds))
      /\ Kept(nals) \in Seq(Seq(UnitIds) \ {<<>>})
      /\ \E place : Carried(Bodies(nals), Kept(nals), place)
  BY <1>1, PacketizeCarries
<1>3. Carried(Bodies(nals), Kept(nals), PlaceOf(nals))
  BY <1>2 DEF PlaceOf
<1>4. Kept(nals) \in Seq(S \ {<<>>})
  BY <1>2
<1> HIDE DEF S
<1>5. Kept(nals) \in Seq(S)
  <2>1. S \ {<<>>} \subseteq S
    OBVIOUS
  <2>. QED  BY <2>1, <1>4, SeqMonotonic
<1>. QED  BY <1>2, <1>3, <1>5 DEF nals, S

LEMMA ResetIs ==
  ASSUME NEW U, NEW d \in DepacketizersOver(U)
  PROVE  Reset(d) \in DepacketizersOver(U) /\ ~Reset(d).active
<1>1. <<>> \in Seq(U) /\ <<>> \in Seq(Seq(U)) /\ 0 \in Nat
  OBVIOUS
<1>. QED  BY <1>1 DEF DepacketizersOver, Reset

\* What TakenKeeps asks of a packet p and of the depacketizer d it is given to.
Follows(bodies, W, place, f, d, j, p) ==
    /\ bodies \in Seq(MarkedOver(UnitIds)) /\ W \in Seq(Seq(UnitIds)) /\ Carried(bodies, W, place)
    /\ Len(bodies) < SequenceSpace /\ f \in Nat /\ j \in 1 .. Len(bodies)
    /\ d \in DepacketizersOver(UnitIds)
    /\ p.body = bodies[j].body /\ p.sequence = (f + j - 1) % SequenceSpace
    /\ p.timestamp \in Nat /\ p.captureTime \in Seq(Nat)
    /\ d.active /\ d.timestamp = p.timestamp => Keeps(d, W, place, f)

LEMMA FollowingIsKept ==
  ASSUME NEW bodies, NEW W, NEW place, NEW f, NEW d, NEW j, NEW p,
         Follows(bodies, W, place, f, d, j, p),
         NEW e, e = Taken(d, p, SequenceSpace)
  PROVE  /\ e \in DepacketizersOver(UnitIds) /\ e.active /\ e.timestamp = p.timestamp
         /\ e.lastSequence = p.sequence
         /\ \/ e.captureTime = p.captureTime
            \/ (d.active /\ d.timestamp = p.timestamp /\ e.captureTime = d.captureTime)
         /\ e.damaged \/ Holds(e, W, place[j])
<1>1. /\ bodies \in Seq(MarkedOver(UnitIds)) /\ W \in Seq(Seq(UnitIds)) /\ Carried(bodies, W, place)
      /\ Len(bodies) < SequenceSpace /\ f \in Nat /\ j \in 1 .. Len(bodies)
      /\ d \in DepacketizersOver(UnitIds)
      /\ p.body = bodies[j].body /\ p.sequence = (f + j - 1) % SequenceSpace
      /\ p.timestamp \in Nat /\ p.captureTime \in Seq(Nat)
      /\ d.active /\ d.timestamp = p.timestamp => Keeps(d, W, place, f)
  BY DEF Follows
<1>. QED  BY <1>1, TakenKeeps, SMTT(60)

LEMMA PushedKeeps ==
  ASSUME NEW s, IsStream(s), IsShort(s), NEW count \in 0 .. Len(s),
         NEW first \in [1 .. Len(s) -> Sequences16],
         NEW d, DepacketizerIs(d, s, count, first),
         NEW a \in 1 .. count, NEW j \in DOMAIN Bodies(UnitsOf(s, a)), NEW p,
         p.timestamp = a, p.sequence = (first[a] + j - 1) % SequenceSpace,
         p.body = Bodies(UnitsOf(s, a))[j].body, p.marker = Bodies(UnitsOf(s, a))[j].marker,
         p.captureTime \in Times(a)
  PROVE  /\ DepacketizerIs(Pushed(d, p, SequenceSpace), s, count, first)
         /\ Completes(d, p, SequenceSpace) =>
               [timestamp |-> a, captureTime |-> Taken(d, p, SequenceSpace).captureTime,
                nals |-> Taken(d, p, SequenceSpace).nals] \in Tails(s)
<1> DEFINE bodies == Bodies(UnitsOf(s, a))
<1> DEFINE W == Kept(UnitsOf(s, a))
<1> DEFINE place == PlaceOf(UnitsOf(s, a))
<1> DEFINE f == first[a]
<1>0. Len(s) \in Nat /\ a \in 1 .. Len(s) /\ a \in Nat /\ a \in DOMAIN s
  BY LenProperties DEF IsStream
<1>1. /\ bodies \in Seq(MarkedOver(UnitIds)) /\ W \in Seq(Seq(UnitIds))
      /\ Carried(bodies, W, place)
  BY <1>0, UnitIsCarried
<1>2. Len(bodies) < SequenceSpace
  BY <1>0 DEF IsShort
<1>3. f \in Nat
  BY <1>0, SequenceSpaceAssumption DEF Sequences16
<1>4. /\ d \in DepacketizersOver(UnitIds)
      /\ d.active /\ d.timestamp = p.timestamp => Keeps(d, W, place, f)
  BY DEF DepacketizerIs
<1>5. p.captureTime \in Seq(Nat) /\ p.timestamp \in Nat
  BY <1>0, TimesAre
<1>6. /\ p.body = bodies[j].body /\ p.marker = bodies[j].marker
      /\ p.sequence = (f + j - 1) % SequenceSpace
  OBVIOUS
<1>7. d.active /\ d.timestamp = p.timestamp => d.captureTime \in Times(a)
  BY DEF DepacketizerIs
<1> DEFINE e == Taken(d, p, SequenceSpace)
<1> HIDE DEF bodies, W, place, f
<1>8. Len(bodies) \in Nat /\ j \in 1 .. Len(bodies)
  BY <1>1, LenProperties DEF bodies
<1>9. /\ e \in DepacketizersOver(UnitIds) /\ e.active /\ e.timestamp = p.timestamp
      /\ e.lastSequence = p.sequence
      /\ \/ e.captureTime = p.captureTime
         \/ (d.active /\ d.timestamp = p.timestamp /\ e.captureTime = d.captureTime)
      /\ e.damaged \/ Holds(e, W, place[j])
  <2>1. Follows(bodies, W, place, f, d, j, p)
    BY <1>1, <1>2, <1>3, <1>4, <1>5, <1>6, <1>8 DEF Follows
  <2>. QED  BY <2>1, FollowingIsKept
<1>10. Pushed(d, p, SequenceSpace) = IF p.marker THEN Reset(e) ELSE e
  BY DEF Pushed
<1>11. Completes(d, p, SequenceSpace)
        <=> p.marker /\ ~e.fragmented /\ ~e.damaged /\ e.nals # <<>>
  BY DEF Completes
<1> HIDE DEF e
<1>12. e.captureTime \in Times(a)
  BY <1>7, <1>9
<1>13. j \in DOMAIN place \ {0} /\ place[Len(bodies)] = Place(Len(W), 0)
       /\ \A k \in 1 .. Len(bodies) - 1 : ~bodies[k].marker
  <2>1. j \in 0 .. Len(bodies) /\ j # 0
    BY <1>8
  <2>. QED  BY <2>1, <1>1 DEF Carried
<1>14. DepacketizerIs(e, s, count, first)
  <2>1. Keeps(e, W, place, f)
    BY <1>6, <1>9, <1>13 DEF Keeps
  <2>. QED  BY <2>1, <1>9, <1>12 DEF DepacketizerIs, W, place, f
<1>15. DepacketizerIs(Reset(e), s, count, first)
  BY <1>9, ResetIs DEF DepacketizerIs
<1>16. ASSUME Completes(d, p, SequenceSpace)
       PROVE  [timestamp |-> a, captureTime |-> e.captureTime, nals |-> e.nals] \in Tails(s)
  <2>1. p.marker /\ ~e.damaged /\ e.nals # <<>>
    BY <1>11, <1>16
  <2>2. j = Len(bodies)
    <3>1. j \in 1 .. Len(bodies) - 1 \/ j = Len(bodies)
      BY <1>8
    <3>. QED  BY <3>1, <2>1, <1>6, <1>13
  <2> DEFINE o == Place(Len(W), 0)
  <2>3. o.nals = Len(W)
    BY PlaceIs
  <2>4. Holds(e, W, o)
    BY <2>1, <2>2, <1>9, <1>13
  <2> HIDE DEF o
  <2> DEFINE m == Len(e.nals)
  <2>5. e.nals = SubSeq(W, (Len(W) - m) + 1, Len(W)) /\ m <= Len(W)
    BY <2>3, <2>4 DEF Holds
  <2>6. m \in 0 .. Len(W) /\ e.nals \in Seq(Seq(UnitIds))
    <3>1. e.nals \in Seq(Seq(UnitIds))
      BY <1>9 DEF DepacketizersOver
    <3>2. m \in Nat /\ Len(W) \in Nat
      BY <3>1, <1>1
    <3>. QED  BY <3>1, <3>2, <2>5
  <2> HIDE DEF m
  <2>7. IsSuffix(SubSeq(W, (Len(W) - m) + 1, Len(W)), W)
    BY <2>6, <1>1, TailIsSuffix
  <2>8. IsSuffix(e.nals, W)
    BY <2>5, <2>7
  <2>9. e.captureTime \in Seq(Nat)
    BY <1>9 DEF DepacketizersOver
  <2> DEFINE unit == [timestamp |-> a, captureTime |-> e.captureTime, nals |-> e.nals]
  <2>10. /\ unit \in [timestamp : Nat, captureTime : Seq(Nat), nals : Seq(Seq(UnitIds))]
         /\ unit.nals = e.nals /\ unit.timestamp = a /\ unit.captureTime = e.captureTime
    BY <2>6, <2>9, <1>0
  <2> HIDE DEF unit
  <2>11. unit \in Tails(s)
    BY <2>1, <2>8, <2>10, <1>12 DEF Tails, W
  <2>. QED  BY <2>11 DEF unit
<1>. QED  BY <1>10, <1>14, <1>15, <1>16 DEF e


-----------------------------------------------------------------------------
(* The path.                                                               *)

\* The packets that were sent of the first `count` access units.
SentPackets(s, count, first) ==
    UNION {{PacketOf(s, a, first[a], k) : k \in DOMAIN Bodies(UnitsOf(s, a))} : a \in 1 .. count}

\* Each access unit has had one sender: a single first number.
Sent(first) ==
    /\ first \in [1 .. Len(stream) -> Sequences16]
    /\ channel \in Seq(SentPackets(stream, auCount, first))
    /\ DepacketizerIs(depacketizer, stream, auCount, first)

TransportInv ==
    /\ \E session \in Sessions : stream = session.units /\ dressing = session.dressing
    /\ auCount \in 0 .. Len(stream)
    /\ sequence \in Sequences16
    /\ \E first : Sent(first)
    /\ completed \in Seq(Tails(stream))

\* No access unit has so many packets that their numbers repeat.
ShortUnits == \A session \in Sessions : IsShort(session.units)

\* The receiver reads what was written, in those it takes for such packets.
ReadsBack ==
    /\ \A k \in DOMAIN channel :
          IsH264(Wire(channel[k])) =>
             /\ Parse(Wire(channel[k])).sequence = channel[k].sequence
             /\ Parse(Wire(channel[k])).timestamp = channel[k].timestamp
             /\ Parse(Wire(channel[k])).marker = channel[k].marker
             /\ Parse(Wire(channel[k])).captureTime \in Times(channel[k].timestamp)
    /\ \A d \in Strays : ~IsH264(d)

LEMMA SentLater ==
  ASSUME NEW s, NEW count \in Nat, NEW more \in Nat, count <= more, NEW first, NEW later,
         \A a \in 1 .. count : later[a] = first[a]
  PROVE  SentPackets(s, count, first) \subseteq SentPackets(s, more, later)
<1>1. \A a \in 1 .. count : a \in 1 .. more
  OBVIOUS
<1>2. ASSUME NEW p \in SentPackets(s, count, first)
      PROVE  p \in SentPackets(s, more, later)
  <2>1. PICK a \in 1 .. count :
           p \in {PacketOf(s, a, first[a], k) : k \in DOMAIN Bodies(UnitsOf(s, a))}
    BY DEF SentPackets
  <2>2. p \in {PacketOf(s, a, later[a], k) : k \in DOMAIN Bodies(UnitsOf(s, a))}
    BY <2>1
  <2>. QED  BY <2>1, <2>2, <1>1 DEF SentPackets
<1>. QED  BY <1>2

LEMMA DepacketizerLater ==
  ASSUME NEW s, NEW d, NEW count \in Nat, NEW more \in Nat, count <= more, NEW first, NEW later,
         \A a \in 1 .. count : later[a] = first[a], DepacketizerIs(d, s, count, first)
  PROVE  DepacketizerIs(d, s, more, later)
<1>1. \A a \in 1 .. count : a \in 1 .. more
  OBVIOUS
<1>2. CASE d.active
  <2> DEFINE a == d.timestamp
  <2>1. a \in 1 .. count /\ d \in DepacketizersOver(UnitIds) /\ d.captureTime \in Times(a)
        /\ Keeps(d, Kept(UnitsOf(s, a)), PlaceOf(UnitsOf(s, a)), first[a])
    BY <1>2 DEF DepacketizerIs
  <2>2. Keeps(d, Kept(UnitsOf(s, a)), PlaceOf(UnitsOf(s, a)), later[a]) /\ a \in 1 .. more
    BY <2>1, <1>1
  <2>. QED  BY <2>1, <2>2 DEF DepacketizerIs
<1>3. CASE ~d.active
  BY <1>3 DEF DepacketizerIs
<1>. QED  BY <1>2, <1>3

\* The packets of the next access unit are among those sent once it is.
LEMMA PacketsOfNext ==
  ASSUME TransportInv, NEW a \in DOMAIN stream, NEW from \in Sequences16,
         NEW first, first[a] = from, NEW count \in Nat, a \in 1 .. count
  PROVE  PacketsOf(a, from) \in Seq(SentPackets(stream, count, first))
<1>1. IsStream(stream)
  BY TransportAssumption DEF TransportInv, IsStream
<1>2. a \in 1 .. Len(stream)
  BY <1>1, LenProperties DEF IsStream
<1> DEFINE bodies == Bodies(UnitsOf(stream, a))
<1> DEFINE S == SentPackets(stream, count, first)
<1>3. bodies \in Seq(MarkedOver(UnitIds))
  BY <1>1, <1>2, UnitIsCarried
<1>4. Len(bodies) \in Nat /\ DOMAIN bodies = 1 .. Len(bodies)
  BY <1>3, LenProperties
<1>5. PacketsOf(a, from) = [k \in DOMAIN bodies |-> PacketOf(stream, a, from, k)]
  BY DEF PacketsOf, PacketOf, NalsOf, UnitsOf
<1>6. \A k \in DOMAIN bodies : PacketOf(stream, a, from, k) \in S
  BY DEF SentPackets
<1> HIDE DEF bodies, S
<1>7. PacketsOf(a, from) \in [1 .. Len(bodies) -> S]
  BY <1>4, <1>5, <1>6
<1>8. PacketsOf(a, from) \in Seq(S)
  BY <1>4, <1>7, SeqDef
<1>. QED  BY <1>8 DEF S

LEMMA PartOfSeq ==
  ASSUME NEW S, NEW s \in Seq(S), NEW m \in Nat, NEW n \in Nat, m > 0, n <= Len(s)
  PROVE  SubSeq(s, m, n) \in Seq(S)
<1>1. \A i \in m .. n : s[i] \in S
  <2>1. \A i \in m .. n : i \in 1 .. Len(s)
    OBVIOUS
  <2>. QED  BY <2>1, ElementOfSeq
<1>. QED  BY <1>1, SubSeqProperties

LEMMA RemovedFromSeq ==
  ASSUME NEW S, NEW s \in Seq(S), NEW k \in DOMAIN s
  PROVE  RemoveAt(s, k) \in Seq(S)
<1>1. Len(s) \in Nat /\ k \in 1 .. Len(s)
  BY LenProperties
<1>2. SubSeq(s, 1, k - 1) \in Seq(S)
  <2>1. 1 \in Nat /\ k - 1 \in Nat /\ 1 > 0 /\ k - 1 <= Len(s)
    BY <1>1
  <2>. QED  BY <2>1, PartOfSeq
<1>3. SubSeq(s, k + 1, Len(s)) \in Seq(S)
  <2>1. k + 1 \in Nat /\ k + 1 > 0 /\ Len(s) <= Len(s)
    BY <1>1
  <2>. QED  BY <2>1, <1>1, PartOfSeq
<1>. QED  BY <1>2, <1>3, ConcatProperties DEF RemoveAt

LEMMA TransmitKeeps ==
  ASSUME NEW S, channel \in Seq(S), NEW packets \in Seq(S), Transmit(packets)
  PROVE  channel' \in Seq(S)
<1>1. PICK missed \in (IF listening THEN {0} ELSE 0 .. Len(packets)) :
         channel' = channel \o SubSeq(packets, missed + 1, Len(packets))
  BY DEF Transmit
<1>2. Len(packets) \in Nat /\ missed \in Nat
  BY <1>1
<1>3. SubSeq(packets, missed + 1, Len(packets)) \in Seq(S)
  <2>1. missed + 1 \in Nat /\ missed + 1 > 0 /\ Len(packets) <= Len(packets)
    BY <1>2
  <2>. QED  BY <2>1, <1>2, PartOfSeq
<1>. QED  BY <1>1, <1>3, ConcatProperties


LEMMA StreamIs ==
  ASSUME TransportInv
  PROVE  IsStream(stream) /\ Len(stream) \in Nat /\ DOMAIN stream = 1 .. Len(stream)
<1>1. IsStream(stream)
  BY TransportAssumption DEF TransportInv, IsStream
<1>. QED  BY <1>1, LenProperties DEF IsStream

\* What the senders have sent stays as it is.
SentOn(first) ==
    \E later : Sent(later)' /\ \A a \in 1 .. auCount : later[a] = first[a]

\* An access unit more has been sent, all of it or only part: the packets that are
\* under way now, and what the depacketizer holds, are still those of the senders.
LEMMA SentMore ==
  ASSUME TransportInv, NEW first, Sent(first), stream' = stream, depacketizer' = depacketizer, auCount < Len(stream),
         auCount' \in auCount + 1 .. Len(stream),
         NEW from \in Sequences16, from = sequence,
         \/ Transmit(PacketsOf(auCount + 1, from))
         \/ \E sent \in 0 .. Len(PacketsOf(auCount + 1, from)) :
               Transmit(SubSeq(PacketsOf(auCount + 1, from), 1, sent))
  PROVE  SentOn(first)
<1> DEFINE a == auCount + 1
<1> DEFINE packets == PacketsOf(a, from)
<1>1. Sent(first)
  OBVIOUS
<1> DEFINE later == [first EXCEPT ![a] = from]
<1>2. auCount \in Nat /\ a \in 1 .. Len(stream) /\ auCount' \in Nat /\ auCount <= auCount'
      /\ a \in 1 .. auCount' /\ Len(stream) \in Nat /\ a \in DOMAIN stream
  BY StreamIs DEF TransportInv
<1>3. later \in [1 .. Len(stream) -> Sequences16] /\ later[a] = from
      /\ \A b \in 1 .. auCount : later[b] = first[b]
  <2>1. \A b \in 1 .. auCount : b # a /\ b \in 1 .. Len(stream)
    BY <1>2
  <2>. QED  BY <1>1, <1>2, <2>1 DEF Sent
<1> HIDE DEF later, a
<1> DEFINE S == SentPackets(stream, auCount', later)
<1>4. channel \in Seq(S)
  <2>1. SentPackets(stream, auCount, first) \subseteq S
    BY <1>2, <1>3, SentLater
  <2>. QED  BY <1>1, <2>1, SeqMonotonic DEF Sent
<1>5. packets \in Seq(S)
  BY <1>2, <1>3, PacketsOfNext
<1> HIDE DEF S
<1>6. channel' \in Seq(S)
  <2>1. CASE Transmit(packets)
    <3> HIDE DEF packets
    <3>. QED  BY <1>4, <1>5, <2>1, TransmitKeeps
  <2>2. ASSUME NEW sent \in 0 .. Len(packets), Transmit(SubSeq(packets, 1, sent))
        PROVE  channel' \in Seq(S)
    <3> HIDE DEF packets
    <3> DEFINE part == SubSeq(packets, 1, sent)
    <3>1. part \in Seq(S)
      <4>1. 1 \in Nat /\ sent \in Nat /\ 1 > 0 /\ sent <= Len(packets)
        BY <1>5, <2>2
      <4>. QED  BY <4>1, <1>5, PartOfSeq
    <3>2. Transmit(part)
      BY <2>2
    <3> HIDE DEF part
    <3>. QED  BY <1>4, <3>1, <3>2, TransmitKeeps
  <2>. QED  BY <2>1, <2>2 DEF a
<1>7. DepacketizerIs(depacketizer', stream, auCount', later)
  <2>1. DepacketizerIs(depacketizer', stream, auCount, first)
    BY <1>1 DEF Sent
  <2>. QED  BY <1>2, <1>3, <2>1, DepacketizerLater
<1>8. channel' \in Seq(SentPackets(stream', auCount', later))
  BY <1>6 DEF S
<1>. QED  BY <1>3, <1>7, <1>8 DEF Sent, SentOn

\* The count goes on, or what is under way becomes less: nothing is sent.
LEMMA SentNoMore ==
  ASSUME TransportInv, NEW first, Sent(first), stream' = stream, depacketizer' = depacketizer,
         auCount' \in auCount .. Len(stream),
         channel' = channel \/ \E k \in DOMAIN channel : channel' = RemoveAt(channel, k)
  PROVE  SentOn(first)
<1>1. Sent(first)
  OBVIOUS
<1>2. auCount \in Nat /\ auCount' \in Nat /\ auCount <= auCount'
  BY StreamIs DEF TransportInv
<1> DEFINE S == SentPackets(stream, auCount', first)
<1>3. channel \in Seq(S)
  <2>1. SentPackets(stream, auCount, first) \subseteq S
    BY <1>2, SentLater
  <2>. QED  BY <1>1, <2>1, SeqMonotonic DEF Sent
<1> HIDE DEF S
<1>4. channel' \in Seq(S)
  BY <1>3, RemovedFromSeq
<1>5. DepacketizerIs(depacketizer', stream, auCount', first)
  <2>1. DepacketizerIs(depacketizer', stream, auCount, first)
    BY <1>1 DEF Sent
  <2>. QED  BY <1>2, <2>1, DepacketizerLater
<1>6. channel' \in Seq(SentPackets(stream', auCount', first))
  BY <1>4 DEF S
<1>7. Sent(first)'
  BY <1>1, <1>5, <1>6 DEF Sent
<1>. QED  BY <1>7 DEF SentOn

LEMMA InitTransport == Init => TransportInv
<1> SUFFICES ASSUME Init PROVE TransportInv
  OBVIOUS
<1>1. \E session \in Sessions : stream = session.units /\ dressing = session.dressing
  BY DEF Init
<1>2. IsStream(stream) /\ Len(stream) \in Nat
  <2>1. IsStream(stream)
    BY <1>1, TransportAssumption DEF IsStream
  <2>. QED  BY <2>1, LenProperties DEF IsStream
<1> DEFINE first == [a \in 1 .. Len(stream) |-> 0]
<1>3. first \in [1 .. Len(stream) -> Sequences16]
  BY SequenceSpaceAssumption DEF Sequences16
<1> HIDE DEF first
<1>4. EmptyDepacketizer \in DepacketizersOver(UnitIds) /\ ~EmptyDepacketizer.active
  <2>1. NoTime \in Seq(Nat)
    BY TimesAre DEF Times
  <2>2. <<>> \in Seq(UnitIds) /\ <<>> \in Seq(Seq(UnitIds)) /\ 0 \in Nat
    OBVIOUS
  <2>. QED  BY <2>1, <2>2 DEF EmptyDepacketizer, DepacketizersOver
<1>5. DepacketizerIs(depacketizer, stream, auCount, first)
  BY <1>4 DEF DepacketizerIs, Init
<1>6. channel \in Seq(SentPackets(stream, auCount, first))
  BY DEF Init
<1>7. auCount \in 0 .. Len(stream) /\ sequence \in Sequences16 /\ completed \in Seq(Tails(stream))
  BY <1>2, TransportAssumption DEF Init
<1>. QED  BY <1>1, <1>3, <1>5, <1>6, <1>7 DEF TransportInv, Sent

LEMMA SendAccessUnitKeeps ==
  ASSUME TransportInv, NEW first, Sent(first), SendAccessUnit
  PROVE  TransportInv' /\ SentOn(first)
<1>1. /\ auCount < Len(stream) /\ auCount' = auCount + 1
      /\ sequence' = (sequence + Len(PacketsOf(auCount', sequence))) % SequenceSpace
      /\ Transmit(PacketsOf(auCount', sequence))
      /\ stream' = stream /\ dressing' = dressing /\ completed' = completed
      /\ depacketizer' = depacketizer
  BY DEF SendAccessUnit, receiver
<1>2. auCount \in Nat /\ Len(stream) \in Nat /\ auCount + 1 \in DOMAIN stream
      /\ auCount' \in auCount + 1 .. Len(stream) /\ sequence \in Sequences16
  BY <1>1, StreamIs DEF TransportInv
<1>3. SentOn(first)
  BY <1>1, <1>2, SentMore
<1>4. sequence' \in Sequences16
  <2> DEFINE n == Len(PacketsOf(auCount + 1, sequence))
  <2>1. n \in Nat
    <3> DEFINE all == [a \in 1 .. Len(stream) |-> sequence]
    <3>1. all[auCount + 1] = sequence /\ auCount + 1 \in Nat /\ auCount + 1 \in 1 .. auCount + 1
      BY <1>2
    <3> HIDE DEF all
    <3>2. PacketsOf(auCount + 1, sequence) \in Seq(SentPackets(stream, auCount + 1, all))
      BY <1>2, <3>1, PacketsOfNext
    <3>. QED  BY <3>2, LenProperties
  <2> HIDE DEF n
  <2>2. sequence' = (sequence + n) % SequenceSpace
    BY <1>1 DEF n
  <2>. QED  BY <1>2, <2>1, <2>2, SequenceSpaceAssumption DEF Sequences16
<1>5. auCount' \in 0 .. Len(stream')
  BY <1>1, <1>2
<1>. QED  BY <1>1, <1>3, <1>4, <1>5 DEF TransportInv, SentOn

LEMMA TakeOverKeeps ==
  ASSUME TransportInv, NEW first, Sent(first), NEW t \in DOMAIN stream, TakeOver(t)
  PROVE  TransportInv' /\ SentOn(first)
<1>1. /\ t > auCount /\ auCount' = t - 1 /\ sequence' \in NextSequences
      /\ stream' = stream /\ dressing' = dressing /\ completed' = completed
      /\ depacketizer' = depacketizer
  BY DEF TakeOver, receiver
<1>2. auCount \in Nat /\ Len(stream) \in Nat /\ t \in 1 .. Len(stream) /\ sequence \in Sequences16
  BY StreamIs DEF TransportInv
<1>3. SentOn(first)
  <2>1. CASE t = auCount + 1
    <3>1. channel' = channel /\ auCount' \in auCount .. Len(stream)
      BY <1>1, <1>2, <2>1 DEF TakeOver
    <3>. QED  BY <3>1, <1>1, SentNoMore
  <2>2. CASE t # auCount + 1
    <3>1. auCount < Len(stream) /\ auCount' \in auCount + 1 .. Len(stream)
      BY <1>1, <1>2, <2>2
    <3>2. \E sent \in 0 .. Len(PacketsOf(auCount + 1, sequence)) :
             Transmit(SubSeq(PacketsOf(auCount + 1, sequence), 1, sent))
      BY <2>2 DEF TakeOver
    <3>. QED  BY <3>1, <3>2, <1>1, <1>2, SentMore
  <2>. QED  BY <2>1, <2>2
<1>4. sequence' \in Sequences16
  BY <1>1, TransportAssumption
<1>5. auCount' \in 0 .. Len(stream')
  BY <1>1, <1>2
<1>. QED  BY <1>1, <1>3, <1>4, <1>5 DEF TransportInv, SentOn

LEMMA LoseKeeps ==
  ASSUME TransportInv, NEW first, Sent(first), NEW k \in DOMAIN channel, Lose(k)
  PROVE  TransportInv' /\ SentOn(first)
<1>1. /\ stream' = stream /\ dressing' = dressing /\ completed' = completed
      /\ depacketizer' = depacketizer /\ auCount' = auCount /\ sequence' = sequence
      /\ channel' = RemoveAt(channel, k)
  BY DEF Lose, receiver, sender
<1>2. auCount' \in auCount .. Len(stream)
  BY <1>1, StreamIs DEF TransportInv
<1>3. SentOn(first)
  BY <1>1, <1>2, SentNoMore
<1>. QED  BY <1>1, <1>3 DEF TransportInv, SentOn

\* What the receiver reads of a packet is what was written into it.
Reading(k, read) ==
    /\ read.sequence = channel[k].sequence /\ read.timestamp = channel[k].timestamp
    /\ read.marker = channel[k].marker /\ read.captureTime \in Times(channel[k].timestamp)
    /\ read.body = channel[k].body

\* The loop's turn with a packet that it takes, and with one it does not.
LEMMA RefusedKeeps ==
  ASSUME TransportInv, NEW first, Sent(first), NEW d, NEW body, Receive(d, body), ~IsH264(d),
         UNCHANGED sender,
         channel' = channel \/ \E k \in DOMAIN channel : channel' = RemoveAt(channel, k)
  PROVE  TransportInv' /\ SentOn(first)
<1>1. /\ stream' = stream /\ dressing' = dressing /\ completed' = completed
      /\ depacketizer' = depacketizer /\ auCount' = auCount /\ sequence' = sequence
  BY DEF Receive, sender
<1>2. auCount' \in auCount .. Len(stream)
  BY <1>1, StreamIs DEF TransportInv
<1>3. SentOn(first)
  BY <1>1, <1>2, SentNoMore
<1>. QED  BY <1>1, <1>3 DEF TransportInv, SentOn

LEMMA TakenFromChannel ==
  ASSUME TransportInv, NEW first, Sent(first), NEW k \in DOMAIN channel
  PROVE  \E a \in 1 .. auCount : \E j \in DOMAIN Bodies(UnitsOf(stream, a)) :
            channel[k] = PacketOf(stream, a, first[a], j)
<1> DEFINE S == SentPackets(stream, auCount, first)
<1>1. channel \in Seq(S)
  BY DEF Sent
<1> HIDE DEF S
<1>2. channel[k] \in S
  BY <1>1, LenProperties, ElementOfSeq
<1>. QED  BY <1>2 DEF S, SentPackets

LEMMA FedKeeps ==
  ASSUME TransportInv, ShortUnits, NEW first, Sent(first), NEW k \in DOMAIN channel, NEW read,
         Reading(k, read),
         Feed(read), UNCHANGED sender, channel' = channel \/ channel' = RemoveAt(channel, k)
  PROVE  TransportInv' /\ Sent(first)'
<1>1. Sent(first)
  OBVIOUS
<1>12. PICK a \in 1 .. auCount : \E j \in DOMAIN Bodies(UnitsOf(stream, a)) :
          channel[k] = PacketOf(stream, a, first[a], j)
  BY <1>1, TakenFromChannel
<1>2. PICK j \in DOMAIN Bodies(UnitsOf(stream, a)) : channel[k] = PacketOf(stream, a, first[a], j)
  BY <1>12
<1>3. /\ read.timestamp = a /\ read.sequence = (first[a] + j - 1) % SequenceSpace
      /\ read.body = Bodies(UnitsOf(stream, a))[j].body
      /\ read.marker = Bodies(UnitsOf(stream, a))[j].marker
      /\ read.captureTime \in Times(a)
  BY <1>2 DEF PacketOf, Reading
<1>4. IsStream(stream) /\ IsShort(stream) /\ auCount \in 0 .. Len(stream)
      /\ first \in [1 .. Len(stream) -> Sequences16]
      /\ DepacketizerIs(depacketizer, stream, auCount, first)
  BY <1>1, StreamIs DEF TransportInv, ShortUnits, Sent
<1>5. /\ DepacketizerIs(Pushed(depacketizer, read, SequenceSpace), stream, auCount, first)
      /\ Completes(depacketizer, read, SequenceSpace) =>
            [timestamp |-> a, captureTime |-> Taken(depacketizer, read, SequenceSpace).captureTime,
             nals |-> Taken(depacketizer, read, SequenceSpace).nals] \in Tails(stream)
  BY <1>3, <1>4, PushedKeeps
<1>6. /\ stream' = stream /\ dressing' = dressing /\ auCount' = auCount /\ sequence' = sequence
      /\ depacketizer' = Pushed(depacketizer, read, SequenceSpace)
  BY DEF Feed, sender
<1>7. channel' \in Seq(SentPackets(stream, auCount, first))
  <2>1. channel \in Seq(SentPackets(stream, auCount, first))
    BY <1>1 DEF Sent
  <2> DEFINE S == SentPackets(stream, auCount, first)
  <2> HIDE DEF S
  <2>2. channel \in Seq(S)
    BY <2>1 DEF S
  <2>3. channel' \in Seq(S)
    BY <2>2, RemovedFromSeq
  <2>. QED  BY <2>3 DEF S
<1>8. Sent(first)'
  BY <1>4, <1>5, <1>6, <1>7 DEF Sent
<1>9. completed' \in Seq(Tails(stream))
  <2> DEFINE T == Tails(stream)
  <2>1. completed \in Seq(T)
    BY DEF TransportInv
  <2>2. CASE Completes(depacketizer, read, SequenceSpace)
    <3> DEFINE unit == [timestamp |-> a,
                        captureTime |-> Taken(depacketizer, read, SequenceSpace).captureTime,
                        nals |-> Taken(depacketizer, read, SequenceSpace).nals]
    <3>1. unit \in T
      BY <1>5, <2>2
    <3>2. completed' = Append(completed, unit)
      BY <2>2, <1>3 DEF Feed
    <3> HIDE DEF unit, T
    <3>3. completed' \in Seq(T)
      BY <2>1, <3>1, <3>2, AppendProperties
    <3>. QED  BY <3>3 DEF T
  <2>3. CASE ~Completes(depacketizer, read, SequenceSpace)
    BY <2>1, <2>3 DEF Feed
  <2>. QED  BY <2>2, <2>3
<1>10. auCount' \in 0 .. Len(stream') /\ sequence' \in Sequences16
  BY <1>4, <1>6 DEF TransportInv
<1>11. \E session \in Sessions : stream' = session.units /\ dressing' = session.dressing
  BY <1>6 DEF TransportInv
<1>13. completed' \in Seq(Tails(stream'))
  BY <1>6, <1>9
<1>. QED  BY <1>8, <1>10, <1>11, <1>13 DEF TransportInv

LEMMA DeliverKeeps ==
  ASSUME TransportInv, ShortUnits, NEW first, Sent(first), ReadsBack,
         NEW k \in DOMAIN channel, Deliver(k)
  PROVE  TransportInv' /\ SentOn(first)
<1> DEFINE d == Wire(channel[k])
<1>1. /\ Receive(d, channel[k].body) /\ UNCHANGED sender
      /\ channel' = channel \/ channel' = RemoveAt(channel, k)
  BY DEF Deliver
<1>2. CASE IsH264(d)
  <2> DEFINE read == [sequence |-> Parse(d).sequence, timestamp |-> Parse(d).timestamp,
                      marker |-> Parse(d).marker, captureTime |-> Parse(d).captureTime,
                      body |-> channel[k].body]
  <2>1. Feed(read)
    BY <1>1, <1>2 DEF Receive
  <2>2. Reading(k, read)
    BY <1>2 DEF ReadsBack, Reading
  <2> HIDE DEF read
  <2>3. TransportInv' /\ Sent(first)'
    BY <2>1, <2>2, <1>1, FedKeeps
  <2>. QED  BY <2>3 DEF SentOn
<1>3. CASE ~IsH264(d)
  <2> HIDE DEF d
  <2>. QED  BY <1>1, <1>3, RefusedKeeps
<1>. QED  BY <1>2, <1>3

LEMMA IntrudeKeeps ==
  ASSUME TransportInv, NEW first, Sent(first), ReadsBack, Intrude
  PROVE  TransportInv' /\ SentOn(first)
<1>1. PICK d \in Strays : Receive(d, Single(<<>>))
  BY DEF Intrude
<1>2. ~IsH264(d) /\ UNCHANGED sender /\ channel' = channel
  BY DEF ReadsBack, Intrude
<1>. QED  BY <1>1, <1>2, RefusedKeeps

LEMMA NextSent ==
  ASSUME TransportInv, ShortUnits, ReadsBack, [Next]_vars, NEW first, Sent(first)
  PROVE  TransportInv' /\ SentOn(first)
<1>1. CASE SendAccessUnit
  BY <1>1, SendAccessUnitKeeps
<1>2. ASSUME NEW t \in DOMAIN stream, TakeOver(t) PROVE TransportInv' /\ SentOn(first)
  BY <1>2, TakeOverKeeps
<1>3. CASE Intrude
  BY <1>3, IntrudeKeeps
<1>4. ASSUME NEW k \in DOMAIN channel, Lose(k) PROVE TransportInv' /\ SentOn(first)
  BY <1>4, LoseKeeps
<1>5. ASSUME NEW k \in DOMAIN channel, Deliver(k) PROVE TransportInv' /\ SentOn(first)
  BY <1>5, DeliverKeeps
<1>6. CASE UNCHANGED vars
  BY <1>6 DEF TransportInv, Sent, SentOn, vars, sender, receiver
<1>. QED  BY <1>1, <1>2, <1>3, <1>4, <1>5, <1>6 DEF Next

LEMMA NextTransport == TransportInv /\ ShortUnits /\ ReadsBack /\ [Next]_vars => TransportInv'
<1> SUFFICES ASSUME TransportInv, ShortUnits, ReadsBack, [Next]_vars PROVE TransportInv'
  OBVIOUS
<1>1. PICK first : Sent(first)
  BY DEF TransportInv
<1>. QED  BY <1>1, NextSent

LEMMA TailsFollow == TransportInv => CompletedAreTails
<1> SUFFICES ASSUME TransportInv, NEW c \in DOMAIN completed
             PROVE  /\ completed[c].nals # <<>>
                    /\ IsSuffix(completed[c].nals, Whole(completed[c].timestamp))
                    /\ completed[c].captureTime \in {NoTime, CaptureTime(completed[c].timestamp)}
  BY DEF CompletedAreTails
<1> DEFINE T == Tails(stream)
<1>1. completed \in Seq(T)
  BY DEF TransportInv
<1> HIDE DEF T
<1>2. completed[c] \in T
  BY <1>1, LenProperties, ElementOfSeq
<1>3. Whole(completed[c].timestamp) = Kept(UnitsOf(stream, completed[c].timestamp))
  BY DEF Whole, NalsOf, UnitsOf
<1>. QED  BY <1>2, <1>3 DEF T, Tails, Times

LEMMA WellFormedReadBack == PacketsAreWellFormed => ReadsBack
BY DEF PacketsAreWellFormed, ReadsBack, Times

\* Whatever the senders add to their packets: when these are well formed, and the
\* receiver reads of each what was written into it, every access unit that is completed
\* is the end of one that was sent, without a NAL missing or damaged in it and with
\* its own capture time or none (CompletedAreTails; H264Depacketizer::push).
THEOREM CompletedAreTailsIfRead ==
  ASSUME ShortUnits
  PROVE  Spec /\ []PacketsAreWellFormed => []CompletedAreTails
<1>1. Init => TransportInv
  BY InitTransport
<1>2. TransportInv /\ PacketsAreWellFormed /\ [Next]_vars => TransportInv'
  BY NextTransport, WellFormedReadBack
<1>3. TransportInv => CompletedAreTails
  BY TailsFollow
<1>. QED  BY <1>1, <1>2, <1>3, PTL DEF Spec


-----------------------------------------------------------------------------
(* What the receiver reads of a packet of this repository's sender.        *)

LEMMA Joined ==
  ASSUME NEW S, NEW s \in Seq(S), NEW t \in Seq(S)
  PROVE  /\ s \o t \in Seq(S) /\ Len(s \o t) = Len(s) + Len(t)
         /\ \A i \in 1 .. Len(s) : (s \o t)[i] = s[i]
         /\ \A i \in 1 .. Len(t) : (s \o t)[Len(s) + i] = t[i]
<1> DEFINE m == Len(s)
<1> DEFINE n == Len(t)
<1>1. /\ s \o t \in Seq(S) /\ Len(s \o t) = m + n
      /\ \A i \in 1 .. m + n : (s \o t)[i] = IF i <= m THEN s[i] ELSE t[i - m]
  BY ConcatProperties
<1>2. m \in Nat /\ n \in Nat
  BY LenProperties
<1> HIDE DEF m, n
<1>3. \A i \in 1 .. n : m + i \in 1 .. m + n /\ ~(m + i <= m) /\ (m + i) - m = i
  BY <1>2
<1>4. \A i \in 1 .. m : i \in 1 .. m + n /\ i <= m
  BY <1>2
<1>. QED  BY <1>1, <1>3, <1>4 DEF m, n

Numbers == Nat

LEMMA PairIs ==
  ASSUME NEW a \in Nat, NEW b \in Nat
  PROVE  /\ <<a, b>> \in Seq(Numbers) /\ Len(<<a, b>>) = 2
         /\ <<a, b>>[1] = a /\ <<a, b>>[2] = b
BY DEF Numbers

\* The octets of a number.
High(v) == (v \div 256) % 256
Low(v) == v % 256
Upper(v) == v \div 65536

LEMMA HighAndLowAre ==
  ASSUME NEW v \in Nat
  PROVE  High(v) \in Nat /\ Low(v) \in Nat /\ Upper(v) \in Nat
<1>1. v \div 256 \in Nat
  BY SMT
<1>. QED  BY <1>1, SMT DEF High, Low, Upper

LEMMA Octets16Are ==
  ASSUME NEW v \in Nat
  PROVE  /\ Octets16(v) \in Seq(Numbers) /\ Len(Octets16(v)) = 2
         /\ Octets16(v)[1] = High(v) /\ Octets16(v)[2] = Low(v)
<1>1. Octets16(v) = <<High(v), Low(v)>>
  BY DEF Octets16, High, Low
<1>. QED  BY <1>1, HighAndLowAre, PairIs

LEMMA Octets32Are ==
  ASSUME NEW v \in Nat
  PROVE  /\ Octets32(v) \in Seq(Numbers) /\ Len(Octets32(v)) = 4
         /\ Octets32(v)[1] = High(Upper(v)) /\ Octets32(v)[2] = Low(Upper(v))
         /\ Octets32(v)[3] = High(v) /\ Octets32(v)[4] = Low(v)
<1> DEFINE s == Octets16(Upper(v))
<1> DEFINE t == Octets16(v)
<1>2. Octets32(v) = s \o t
  BY DEF Octets32, Upper
<1>3. /\ s \in Seq(Numbers) /\ Len(s) = 2 /\ s[1] = High(Upper(v)) /\ s[2] = Low(Upper(v))
      /\ t \in Seq(Numbers) /\ Len(t) = 2 /\ t[1] = High(v) /\ t[2] = Low(v)
  BY HighAndLowAre, Octets16Are
<1> HIDE DEF s, t
<1>4. /\ s \o t \in Seq(Numbers) /\ Len(s \o t) = Len(s) + Len(t)
      /\ \A i \in 1 .. Len(s) : (s \o t)[i] = s[i]
      /\ \A i \in 1 .. Len(t) : (s \o t)[Len(s) + i] = t[i]
  <2>1. s \in Seq(Numbers) /\ t \in Seq(Numbers)
    BY <1>3
  <2>. QED  BY <2>1, Joined
<1>5. /\ s \o t \in Seq(Numbers) /\ Len(s \o t) = 4
      /\ (s \o t)[1] = s[1] /\ (s \o t)[2] = s[2] /\ (s \o t)[3] = t[1] /\ (s \o t)[4] = t[2]
  <2>1. 1 \in 1 .. 2 /\ 2 \in 1 .. 2 /\ 2 + 1 = 3 /\ 2 + 2 = 4
    OBVIOUS
  <2>2. Len(s) = 2 /\ Len(t) = 2
    BY <1>3
  <2>. QED  BY <1>4, <2>1, <2>2
<1>. QED  BY <1>2, <1>3, <1>5

LEMMA Read16Is ==
  ASSUME NEW v \in Nat, v < 65536
  PROVE  256 * ((v \div 256) % 256) + (v % 256) = v
<1> DEFINE q == v \div 256
<1> DEFINE r == v % 256
<1>1. q \in Nat /\ r \in 0 .. 255 /\ v = 256 * q + r
  BY SMT
<1> HIDE DEF q, r
<1>2. q < 256
  BY <1>1, SMT
<1>3. q % 256 = q
  BY <1>1, <1>2, SMT
<1>4. 256 * (q % 256) + r = v
  BY <1>1, <1>3, SMT
<1>. QED  BY <1>4, SMT DEF q, r

LEMMA HighAndLow ==
  ASSUME NEW w \in Nat, NEW y \in Nat, y < 65536, NEW b \in Nat, NEW z \in Nat, z < 65536,
         65536 * w + y = 65536 * b + z
  PROVE  w = b /\ y = z
<1>1. ~(w >= b + 1)
  BY SMT
<1>2. ~(b >= w + 1)
  BY SMT
<1>3. w = b
  BY <1>1, <1>2, SMT
<1>. QED  BY <1>3, SMT

LEMMA FourOctets ==
  ASSUME NEW v \in Nat, NEW w \in Nat, NEW y \in Nat, y < 65536, v = 65536 * w + y,
         NEW q \in Nat, NEW r \in Nat, r < 256, v = 256 * q + r,
         NEW b \in Nat, NEW c \in Nat, c < 256, q = 256 * b + c
  PROVE  65536 * w + (256 * c + r) = v
<1> DEFINE z == 256 * c + r
<1>1. z \in Nat /\ z < 65536
  BY SMT
<1>2. v = 65536 * b + z
  BY SMT
<1> HIDE DEF z
<1>3. b = w /\ z = y
  BY <1>1, <1>2, HighAndLow, SMT
<1>4. 65536 * w + z = v
  BY <1>3, SMT
<1>. QED  BY <1>4 DEF z

LEMMA Read32Is ==
  ASSUME NEW v \in Nat, v \div 65536 < 65536
  PROVE  65536 * (256 * (((v \div 65536) \div 256) % 256) + ((v \div 65536) % 256))
         + (256 * ((v \div 256) % 256) + (v % 256)) = v
<1> DEFINE w == v \div 65536
<1> DEFINE q == v \div 256
<1> DEFINE r == v % 256
<1> DEFINE b == q \div 256
<1> DEFINE c == q % 256
<1> DEFINE y == v % 65536
<1>1. w \in Nat /\ y \in Nat /\ y < 65536 /\ v = 65536 * w + y
  BY SMT
<1>2. q \in Nat /\ r \in Nat /\ r < 256 /\ v = 256 * q + r
  BY SMT
<1>3. 256 * ((w \div 256) % 256) + (w % 256) = w
  <2>1. w < 65536
    OBVIOUS
  <2> HIDE DEF w
  <2>. QED  BY <1>1, <2>1, Read16Is
<1> HIDE DEF w, q, r, y
<1>4. b \in Nat /\ c \in Nat /\ c < 256 /\ q = 256 * b + c
  BY <1>2, SMT
<1> HIDE DEF b, c
<1>7. 65536 * w + (256 * c + r) = v
  BY <1>1, <1>2, <1>4, FourOctets, SMT
<1> DEFINE u == 256 * ((w \div 256) % 256) + (w % 256)
<1>8. u = w
  BY <1>3
<1> HIDE DEF u
<1>9. 65536 * u + (256 * c + r) = v
  BY <1>7, <1>8, SMT
<1>. QED  BY <1>9, SMT DEF u, w, c, q, r

LEMMA Joins16 ==
  ASSUME NEW v \in Nat, v < 65536
  PROVE  256 * High(v) + Low(v) = v
BY Read16Is, SMT DEF High, Low

LEMMA Joins32 ==
  ASSUME NEW v \in Nat, Upper(v) < 65536
  PROVE  65536 * (256 * High(Upper(v)) + Low(Upper(v))) + (256 * High(v) + Low(v)) = v
BY Read32Is, SMT DEF High, Low, Upper


LEMMA ThreeLeft ==
  ASSUME NEW a \in Int, NEW q \in Int, a = 4 * q + 3
  PROVE  a % 4 = 3
BY SMT

LEMMA ThreeOver ==
  ASSUME NEW n \in Nat, n = 9
  PROVE  (-n) % 4 = 3
<1> DEFINE a == -n
<1>1. PICK q \in Int : q + 3 = 0
  <2>1. 0 - 3 \in Int /\ (0 - 3) + 3 = 0
    BY SMT
  <2>. QED  BY <2>1
<1>2. a \in Int /\ a = 4 * q + 3
  BY <1>1, SMT
<1> HIDE DEF a
<1>3. a % 4 = 3
  BY <1>2, ThreeLeft
<1>. QED  BY <1>3 DEF a

LEMMA JoinedOf ==
  ASSUME NEW S, NEW s \in Seq(S), NEW t \in Seq(S), NEW m, m = Len(s), NEW n, n = Len(t)
  PROVE  /\ s \o t \in Seq(S) /\ Len(s \o t) = m + n
         /\ \A i \in 1 .. m : (s \o t)[i] = s[i]
         /\ \A i \in 1 .. n : (s \o t)[m + i] = t[i]
BY Joined

Sized(s, n) == Len(s) = n

LEMMA OneMore ==
  ASSUME NEW S, NEW s \in Seq(S), Sized(s, 1), NEW t \in Seq(S), Sized(t, 8)
  PROVE  /\ s \o t \in Seq(S) /\ Len(s \o t) = 1 + 8
         /\ \A i \in 1 .. 1 : (s \o t)[i] = s[i]
         /\ \A i \in 1 .. 8 : (s \o t)[1 + i] = t[i]
<1>1. /\ s \o t \in Seq(S) /\ Len(s \o t) = Len(s) + Len(t)
      /\ \A i \in 1 .. Len(s) : (s \o t)[i] = s[i]
      /\ \A i \in 1 .. Len(t) : (s \o t)[Len(s) + i] = t[i]
  BY Joined
<1>. QED  BY <1>1 DEF Sized

\* The one-octet header, the capture time and three octets of padding.
LEMMA OwnElements ==
  ASSUME NEW marker, NEW time \in Seq(Numbers), Len(time) = 8
  PROVE  /\ Elements(OwnDressing, marker, time) \in Seq(Numbers)
         /\ Len(Elements(OwnDressing, marker, time)) = 12
         /\ Elements(OwnDressing, marker, time)[1] = 23
         /\ \A i \in 1 .. 8 : Elements(OwnDressing, marker, time)[1 + i] = time[i]
         /\ \A i \in 1 .. 3 : Elements(OwnDressing, marker, time)[9 + i] = 0
<1> DEFINE one == <<23>>
<1> DEFINE own == one \o time
<1> DEFINE zeros == Zeros(3)
<1>1. one \in Seq(Numbers) /\ Len(one) = 1 /\ one[1] = 23
  BY DEF Numbers
<1>2. /\ own \in Seq(Numbers) /\ Len(own) = 9 /\ own[1] = 23
      /\ \A i \in 1 .. 8 : own[1 + i] = time[i]
  <2>1. /\ own \in Seq(Numbers) /\ Len(own) = 1 + 8
        /\ \A i \in 1 .. 1 : own[i] = one[i]
        /\ \A i \in 1 .. 8 : own[1 + i] = time[i]
    <3>1. one \in Seq(Numbers) /\ Len(one) = 1
      BY <1>1
    <3> HIDE DEF one
    <3>2. /\ one \o time \in Seq(Numbers) /\ Len(one \o time) = 1 + 8
          /\ \A i \in 1 .. 1 : (one \o time)[i] = one[i]
          /\ \A i \in 1 .. 8 : (one \o time)[1 + i] = time[i]
      BY <3>1, OneMore, SMTT(60) DEF Sized
    <3>. QED  BY <3>2
  <2> HIDE DEF own
  <2>. QED  BY <1>1, <2>1
<1>3. zeros \in Seq(Numbers) /\ Len(zeros) = 3 /\ \A i \in 1 .. 3 : zeros[i] = 0
  <2>1. 3 \in Nat /\ zeros \in [1 .. 3 -> Numbers]
    BY DEF Zeros, Numbers
  <2>2. zeros \in Seq(Numbers)
    <3> DEFINE n == 3
    <3>1. n \in Nat /\ zeros \in [1 .. n -> Numbers]
      BY <2>1
    <3> HIDE DEF n, zeros
    <3>. QED  BY <3>1, SeqDef
  <2>. QED  BY <2>2 DEF Zeros
<1>4. Elements(OwnDressing, marker, time) = own \o zeros
  <2>1. (<<>> \o own) \o <<>> = own
    <3> HIDE DEF own
    <3>. QED  BY <1>2, ConcatEmptySeq
  <2>2. CarriesTime(OwnDressing, marker) /\ OwnDressing.before = <<>> /\ OwnDressing.after = <<>>
        /\ 16 * CaptureTimeId + 7 = 23
    BY DEF CarriesTime, OwnDressing, CaptureTimeId
  <2>4. Elements(OwnDressing, marker, time) = own \o Zeros((-Len(own)) % 4)
    BY <2>1, <2>2 DEF Elements
  <2> HIDE DEF own
  <2>5. (-Len(own)) % 4 = 3
    <3>1. Len(own) \in Nat /\ Len(own) = 9
      BY <1>2
    <3>. QED  BY <3>1, ThreeOver
  <2>. QED  BY <2>4, <2>5, <1>2
<1> HIDE DEF own, zeros
<1>5. /\ own \o zeros \in Seq(Numbers) /\ Len(own \o zeros) = 9 + 3
      /\ \A i \in 1 .. 9 : (own \o zeros)[i] = own[i]
      /\ \A i \in 1 .. 3 : (own \o zeros)[9 + i] = zeros[i]
  <2>1. own \in Seq(Numbers) /\ zeros \in Seq(Numbers)
    BY <1>2, <1>3
  <2>2. Len(own) = 9 /\ Len(zeros) = 3
    BY <1>2, <1>3
  <2>3. /\ own \o zeros \in Seq(Numbers) /\ Len(own \o zeros) = Len(own) + Len(zeros)
        /\ \A i \in 1 .. Len(own) : (own \o zeros)[i] = own[i]
        /\ \A i \in 1 .. Len(zeros) : (own \o zeros)[Len(own) + i] = zeros[i]
    BY <2>1, Joined
  <2>. QED  BY <2>2, <2>3
<1>6. /\ Len(own \o zeros) = 12 /\ (own \o zeros)[1] = 23
      /\ \A i \in 1 .. 8 : (own \o zeros)[1 + i] = time[i]
      /\ \A i \in 1 .. 3 : (own \o zeros)[9 + i] = 0
  <2>1. 9 + 3 = 12 /\ 1 \in 1 .. 9 /\ \A i \in 1 .. 8 : 1 + i \in 1 .. 9
    OBVIOUS
  <2>. QED  BY <1>2, <1>3, <1>5, <2>1, ZenonT(60)
<1>. QED  BY <1>4, <1>5, <1>6

ExtensionOctets(x, time) ==
    /\ x \in Seq(Numbers) /\ Len(x) = 16
    /\ x[1] = 190 /\ x[2] = 222 /\ x[3] = 0 /\ x[4] = 3 /\ x[5] = 23
    /\ \A i \in 1 .. 8 : x[5 + i] = time[i]
    /\ \A i \in 1 .. 3 : x[13 + i] = 0

LEMMA OwnExtension ==
  ASSUME NEW marker, NEW time \in Seq(Numbers), Len(time) = 8
  PROVE  ExtensionOctets(Extension(OwnDressing, marker, time), time)
<1> DEFINE e == Elements(OwnDressing, marker, time)
<1> DEFINE u == Octets16(48862)
<1> DEFINE v == Octets16(3)
<1>1. /\ e \in Seq(Numbers) /\ Len(e) = 12 /\ e[1] = 23
      /\ \A i \in 1 .. 8 : e[1 + i] = time[i]
      /\ \A i \in 1 .. 3 : e[9 + i] = 0
  BY OwnElements, SMTT(60)
<1>2. Extension(OwnDressing, marker, time) = (u \o v) \o e
  <2>1. OwnDressing.profile = 48862 /\ 12 \div 4 = 3
    BY DEF OwnDressing, CaptureTimeProfile
  <2>. QED  BY <2>1, <1>1 DEF Extension
<1>3. u \in Seq(Numbers) /\ Len(u) = 2 /\ u[1] = 190 /\ u[2] = 222
  <2>1. 48862 \in Nat /\ High(48862) = 190 /\ Low(48862) = 222
    BY SMT DEF High, Low
  <2>. QED  BY <2>1, Octets16Are
<1>4. v \in Seq(Numbers) /\ Len(v) = 2 /\ v[1] = 0 /\ v[2] = 3
  <2>1. 3 \in Nat /\ High(3) = 0 /\ Low(3) = 3
    BY SMT DEF High, Low
  <2>. QED  BY <2>1, Octets16Are
<1> HIDE DEF e, u, v
<1> DEFINE w == u \o v
<1>5. /\ w \in Seq(Numbers) /\ Len(w) = 2 + 2
      /\ \A i \in 1 .. 2 : w[i] = u[i]
      /\ \A i \in 1 .. 2 : w[2 + i] = v[i]
  <2>1. u \in Seq(Numbers) /\ v \in Seq(Numbers)
    BY <1>3, <1>4
  <2>2. Len(u) = 2 /\ Len(v) = 2
    BY <1>3, <1>4
  <2>3. /\ w \in Seq(Numbers) /\ Len(w) = Len(u) + Len(v)
        /\ \A i \in 1 .. Len(u) : w[i] = u[i]
        /\ \A i \in 1 .. Len(v) : w[Len(u) + i] = v[i]
    BY <2>1, Joined
  <2>. QED  BY <2>2, <2>3
<1> HIDE DEF w
<1>6. w \in Seq(Numbers) /\ Len(w) = 4 /\ w[1] = 190 /\ w[2] = 222 /\ w[3] = 0 /\ w[4] = 3
  <2>1. 1 \in 1 .. 2 /\ 2 \in 1 .. 2 /\ 2 + 1 = 3 /\ 2 + 2 = 4
    OBVIOUS
  <2>. QED  BY <1>3, <1>4, <1>5, <2>1
<1>7. /\ w \o e \in Seq(Numbers) /\ Len(w \o e) = 4 + 12
      /\ \A i \in 1 .. 4 : (w \o e)[i] = w[i]
      /\ \A i \in 1 .. 12 : (w \o e)[4 + i] = e[i]
  <2>1. w \in Seq(Numbers) /\ e \in Seq(Numbers)
    BY <1>1, <1>6
  <2>2. Len(w) = 4 /\ Len(e) = 12
    BY <1>1, <1>6
  <2>3. /\ w \o e \in Seq(Numbers) /\ Len(w \o e) = Len(w) + Len(e)
        /\ \A i \in 1 .. Len(w) : (w \o e)[i] = w[i]
        /\ \A i \in 1 .. Len(e) : (w \o e)[Len(w) + i] = e[i]
    BY <2>1, Joined
  <2>. QED  BY <2>2, <2>3
<1> DEFINE x == w \o e
<1> HIDE DEF x
<1>8. /\ x \in Seq(Numbers) /\ Len(x) = 16 /\ x[1] = 190 /\ x[2] = 222 /\ x[3] = 0 /\ x[4] = 3
      /\ x[5] = 23
  <2>1. 4 + 12 = 16 /\ 4 + 1 = 5 /\ 1 \in 1 .. 12
        /\ 1 \in 1 .. 4 /\ 2 \in 1 .. 4 /\ 3 \in 1 .. 4 /\ 4 \in 1 .. 4
    OBVIOUS
  <2>2. /\ x \in Seq(Numbers) /\ Len(x) = 4 + 12
        /\ \A i \in 1 .. 4 : x[i] = w[i]
        /\ \A i \in 1 .. 12 : x[4 + i] = e[i]
    BY <1>7 DEF x
  <2>3. x[4 + 1] = e[1]
    BY <2>1, <2>2
  <2>. QED  BY <1>1, <1>6, <2>1, <2>2, <2>3
<1>9. \A i \in 1 .. 8 : x[5 + i] = time[i]
  <2> TAKE i \in 1 .. 8
  <2>1. 1 + i \in 1 .. 12 /\ 4 + (1 + i) = 5 + i
    OBVIOUS
  <2>2. x[4 + (1 + i)] = e[1 + i]
    BY <1>7, <2>1 DEF x
  <2>. QED  BY <2>1, <2>2, <1>1
<1>10. \A i \in 1 .. 3 : x[13 + i] = 0
  <2> TAKE i \in 1 .. 3
  <2>1. 9 + i \in 1 .. 12 /\ 4 + (9 + i) = 13 + i
    OBVIOUS
  <2>2. x[4 + (9 + i)] = e[9 + i]
    BY <1>7, <2>1 DEF x
  <2>. QED  BY <2>1, <2>2, <1>1
<1>11. Extension(OwnDressing, marker, time) = x
  BY <1>2 DEF x, w
<1>. QED  BY <1>8, <1>9, <1>10, <1>11 DEF ExtensionOctets

\* The datagram of one of its packets.
HeaderOctets(header, p) ==
    /\ header \in Seq(Numbers) /\ Len(header) = 28
    /\ header[1] = 144 /\ header[2] = (IF p.marker THEN 224 ELSE 96)
    /\ header[3] = High(p.sequence) /\ header[4] = Low(p.sequence)
    /\ header[5] = High(Upper(p.timestamp))
    /\ header[6] = Low(Upper(p.timestamp))
    /\ header[7] = High(p.timestamp) /\ header[8] = Low(p.timestamp)
    /\ header[13] = 190 /\ header[14] = 222 /\ header[15] = 0 /\ header[16] = 3
    /\ header[17] = 23
    /\ \A i \in 1 .. 8 : header[17 + i] = p.captureTime[i]
    /\ \A i \in 1 .. 3 : header[25 + i] = 0

LEMMA OwnHeader ==
  ASSUME NEW p, p.sequence \in Nat, p.timestamp \in Nat, p.marker \in BOOLEAN,
         p.captureTime \in Seq(Numbers), Len(p.captureTime) = 8, NEW size, NEW d,
         d = Datagram(p, size, Ssrc, OwnDressing)
  PROVE  /\ HeaderOctets(d.header, p)
         /\ d.padding = <<>> /\ d.size = size
<1> DEFINE b == IF p.marker THEN 224 ELSE 96
<1> DEFINE h == <<144, b>>
<1> DEFINE s == Octets16(p.sequence)
<1> DEFINE t == Octets32(p.timestamp)
<1> DEFINE x == Extension(OwnDressing, p.marker, p.captureTime)
<1>1. h \in Seq(Numbers) /\ Len(h) = 2 /\ h[1] = 144 /\ h[2] = b
  <2>1. 144 \in Nat /\ b \in Nat
    OBVIOUS
  <2> HIDE DEF b
  <2>. QED  BY <2>1, PairIs
<1>2. /\ s \in Seq(Numbers) /\ Len(s) = 2
      /\ s[1] = High(p.sequence) /\ s[2] = Low(p.sequence)
  BY Octets16Are
<1>3. /\ t \in Seq(Numbers) /\ Len(t) = 4
      /\ t[1] = High(Upper(p.timestamp))
      /\ t[2] = Low(Upper(p.timestamp))
      /\ t[3] = High(p.timestamp) /\ t[4] = Low(p.timestamp)
  BY Octets32Are
<1>4. /\ x \in Seq(Numbers) /\ Len(x) = 16
      /\ x[1] = 190 /\ x[2] = 222 /\ x[3] = 0 /\ x[4] = 3 /\ x[5] = 23
      /\ \A i \in 1 .. 8 : x[5 + i] = p.captureTime[i]
      /\ \A i \in 1 .. 3 : x[13 + i] = 0
  <2>1. ExtensionOctets(x, p.captureTime)
    BY OwnExtension
  <2> HIDE DEF x
  <2>. QED  BY <2>1 DEF ExtensionOctets
<1>5. Ssrc \in Seq(Numbers) /\ Len(Ssrc) = 4
  BY DEF Ssrc, Numbers
<1>6. Zeros(0) = <<>>
  BY DEF Zeros
<1>7. /\ d.header = ((((h \o s) \o t) \o Ssrc) \o Zeros(0)) \o x
      /\ d.size = size /\ d.padding = <<>>
  <2>1. /\ OwnDressing.padding = 0 /\ OwnDressing.extension = TRUE /\ OwnDressing.csrcs = 0
    BY DEF OwnDressing
  <2>2. 128 + FlagOf(0 > 0, 32) + FlagOf(TRUE, 16) + 0 = 144 /\ 4 * 0 = 0
    BY DEF FlagOf
  <2>3. FlagOf(p.marker, 128) + H264PayloadType = b
    BY DEF FlagOf, H264PayloadType
  <2> HIDE DEF b
  <2>4. d.header = ((((h \o s) \o t) \o Ssrc) \o Zeros(0)) \o x
    BY <2>1, <2>2, <2>3, ZenonT(60) DEF Datagram
  <2>5. d.size = size /\ d.padding = <<>>
    BY <2>1 DEF Datagram
  <2>. QED  BY <2>4, <2>5
<1> HIDE DEF h, s, t, x, b
<1> DEFINE h1 == h \o s
<1> DEFINE h2 == h1 \o t
<1> DEFINE h3 == h2 \o Ssrc
<1> DEFINE y == h3 \o x
<1>8. /\ h1 \in Seq(Numbers) /\ Len(h1) = 2 + 2
      /\ \A i \in 1 .. 2 : h1[i] = h[i]
      /\ \A i \in 1 .. 2 : h1[2 + i] = s[i]
  <2>1. h \in Seq(Numbers) /\ s \in Seq(Numbers)
    BY <1>1, <1>2
  <2>2. Len(h) = 2 /\ Len(s) = 2
    BY <1>1, <1>2
  <2>3. /\ h1 \in Seq(Numbers) /\ Len(h1) = Len(h) + Len(s)
        /\ \A i \in 1 .. Len(h) : h1[i] = h[i]
        /\ \A i \in 1 .. Len(s) : h1[Len(h) + i] = s[i]
    BY <2>1, Joined
  <2>. QED  BY <2>2, <2>3
<1> HIDE DEF h1
<1>9. /\ h1 \in Seq(Numbers) /\ Len(h1) = 4
      /\ h1[1] = h[1] /\ h1[2] = h[2] /\ h1[3] = s[1] /\ h1[4] = s[2]
  <2>1. 1 \in 1 .. 2 /\ 2 \in 1 .. 2 /\ 2 + 1 = 3 /\ 2 + 2 = 4
    OBVIOUS
  <2>. QED  BY <1>8, <2>1
<1>10. /\ h2 \in Seq(Numbers) /\ Len(h2) = 4 + 4
       /\ \A i \in 1 .. 4 : h2[i] = h1[i]
       /\ \A i \in 1 .. 4 : h2[4 + i] = t[i]
  <2>1. h1 \in Seq(Numbers) /\ t \in Seq(Numbers)
    BY <1>3, <1>9
  <2>2. Len(h1) = 4 /\ Len(t) = 4
    BY <1>3, <1>9
  <2>3. /\ h2 \in Seq(Numbers) /\ Len(h2) = Len(h1) + Len(t)
        /\ \A i \in 1 .. Len(h1) : h2[i] = h1[i]
        /\ \A i \in 1 .. Len(t) : h2[Len(h1) + i] = t[i]
    BY <2>1, Joined
  <2>. QED  BY <2>2, <2>3
<1> HIDE DEF h2
<1>11. /\ h2 \in Seq(Numbers) /\ Len(h2) = 8
       /\ h2[1] = h[1] /\ h2[2] = h[2] /\ h2[3] = s[1] /\ h2[4] = s[2]
       /\ h2[5] = t[1] /\ h2[6] = t[2] /\ h2[7] = t[3] /\ h2[8] = t[4]
  <2>1. /\ 1 \in 1 .. 4 /\ 2 \in 1 .. 4 /\ 3 \in 1 .. 4 /\ 4 \in 1 .. 4
        /\ 4 + 1 = 5 /\ 4 + 2 = 6 /\ 4 + 3 = 7 /\ 4 + 4 = 8
    OBVIOUS
  <2>. QED  BY <1>9, <1>10, <2>1
<1>12. /\ h3 \in Seq(Numbers) /\ Len(h3) = 8 + 4
       /\ \A i \in 1 .. 8 : h3[i] = h2[i]
       /\ \A i \in 1 .. 4 : h3[8 + i] = Ssrc[i]
  <2>1. h2 \in Seq(Numbers) /\ Ssrc \in Seq(Numbers)
    BY <1>5, <1>11
  <2>2. Len(h2) = 8 /\ Len(Ssrc) = 4
    BY <1>5, <1>11
  <2>3. /\ h3 \in Seq(Numbers) /\ Len(h3) = Len(h2) + Len(Ssrc)
        /\ \A i \in 1 .. Len(h2) : h3[i] = h2[i]
        /\ \A i \in 1 .. Len(Ssrc) : h3[Len(h2) + i] = Ssrc[i]
    BY <2>1, Joined
  <2>. QED  BY <2>2, <2>3
<1> HIDE DEF h3
<1>13. h3 \in Seq(Numbers) /\ Len(h3) = 12
  BY <1>12
<1>14. /\ y \in Seq(Numbers) /\ Len(y) = 12 + 16
       /\ \A i \in 1 .. 12 : y[i] = h3[i]
       /\ \A i \in 1 .. 16 : y[12 + i] = x[i]
  <2>1. h3 \in Seq(Numbers) /\ x \in Seq(Numbers)
    BY <1>4, <1>13
  <2>2. Len(h3) = 12 /\ Len(x) = 16
    BY <1>4, <1>13
  <2>3. /\ y \in Seq(Numbers) /\ Len(y) = Len(h3) + Len(x)
        /\ \A i \in 1 .. Len(h3) : y[i] = h3[i]
        /\ \A i \in 1 .. Len(x) : y[Len(h3) + i] = x[i]
    BY <2>1, Joined
  <2>. QED  BY <2>2, <2>3
<1>15. d.header = y
  <2>2. h3 \o Zeros(0) = h3
    BY <1>13, <1>6, ConcatEmptySeq
  <2>3. d.header = (h3 \o Zeros(0)) \o x
    BY <1>7 DEF h3, h2, h1
  <2>. QED  BY <2>2, <2>3
<1> HIDE DEF y
<1>16. Len(y) = 28 /\ \A i \in 1 .. 8 : y[i] = h2[i]
  <2>1. 12 + 16 = 28 /\ \A i \in 1 .. 8 : i \in 1 .. 12
    OBVIOUS
  <2>. QED  BY <1>12, <1>14, <2>1
<1>17. /\ y[1] = 144 /\ y[2] = b
       /\ y[3] = High(p.sequence) /\ y[4] = Low(p.sequence)
       /\ y[5] = High(Upper(p.timestamp))
       /\ y[6] = Low(Upper(p.timestamp))
       /\ y[7] = High(p.timestamp) /\ y[8] = Low(p.timestamp)
  <2>1. /\ 1 \in 1 .. 8 /\ 2 \in 1 .. 8 /\ 3 \in 1 .. 8 /\ 4 \in 1 .. 8
        /\ 5 \in 1 .. 8 /\ 6 \in 1 .. 8 /\ 7 \in 1 .. 8 /\ 8 \in 1 .. 8
    OBVIOUS
  <2>2. /\ y[1] = h[1] /\ y[2] = h[2] /\ y[3] = s[1] /\ y[4] = s[2]
        /\ y[5] = t[1] /\ y[6] = t[2] /\ y[7] = t[3] /\ y[8] = t[4]
    BY <1>11, <1>16, <2>1
  <2>. QED  BY <1>1, <1>2, <1>3, <2>2, SMT
<1>18. y[13] = 190 /\ y[14] = 222 /\ y[15] = 0 /\ y[16] = 3 /\ y[17] = 23
  <2>1. /\ 1 \in 1 .. 16 /\ 2 \in 1 .. 16 /\ 3 \in 1 .. 16 /\ 4 \in 1 .. 16 /\ 5 \in 1 .. 16
        /\ 12 + 1 = 13 /\ 12 + 2 = 14 /\ 12 + 3 = 15 /\ 12 + 4 = 16 /\ 12 + 5 = 17
    OBVIOUS
  <2>. QED  BY <1>4, <1>14, <2>1
<1>19. \A i \in 1 .. 8 : y[17 + i] = p.captureTime[i]
  <2> TAKE i \in 1 .. 8
  <2>1. 5 + i \in 1 .. 16 /\ 12 + (5 + i) = 17 + i
    OBVIOUS
  <2>2. y[12 + (5 + i)] = x[5 + i]
    BY <1>14, <2>1
  <2>. QED  BY <2>1, <2>2, <1>4
<1>20. \A i \in 1 .. 3 : y[25 + i] = 0
  <2> TAKE i \in 1 .. 3
  <2>1. 13 + i \in 1 .. 16 /\ 12 + (13 + i) = 25 + i
    OBVIOUS
  <2>2. y[12 + (13 + i)] = x[13 + i]
    BY <1>14, <2>1
  <2>. QED  BY <2>1, <2>2, <1>4
<1>21. HeaderOctets(y, p)
  BY <1>14, <1>16, <1>17, <1>18, <1>19, <1>20 DEF b, HeaderOctets
<1>. QED  BY <1>7, <1>15, <1>21


\* The elements from a cursor on, when `from` has those from each later one on.
ElementsAt(d, end, from, cursor) ==
    IF cursor >= end \/ Octet(d, cursor) \div 16 = 15
    THEN [valid |-> TRUE, times |-> <<>>]
    ELSE IF Octet(d, cursor) = 0 THEN from[cursor + 1]
    ELSE LET next == cursor + 2 + (Octet(d, cursor) % 16)
         IN  IF next > end THEN [valid |-> FALSE, times |-> <<>>]
             ELSE IF Octet(d, cursor) = 16 * CaptureTimeId + 7
             THEN [from[next] EXCEPT
                     !.times = <<SubSeq(d.header, cursor + 2, cursor + 9)>> \o @]
             ELSE from[next]
ElementsFrom(d) ==
    CHOOSE from : from = [cursor \in ExtensionBegin(d) .. ExtensionEnd(d) |->
                             ElementsAt(d, ExtensionEnd(d), from, cursor)]
ElementsRead(d, begin, end, from) ==
    from = [cursor \in begin .. end |-> ElementsAt(d, end, from, cursor)]

LEMMA ElementsAreFrom ==
  ASSUME NEW d
  PROVE  ReadElements(d) = ElementsFrom(d)[ExtensionBegin(d)]
BY DEF ReadElements, ElementsFrom, ElementsAt

LEMMA ElementsLookAhead ==
  ASSUME NEW d, NEW end \in Nat, NEW cursor \in 0 .. end,
         cursor < end => Octet(d, cursor) \in Nat, NEW f, NEW g,
         \A i \in cursor + 1 .. end : f[i] = g[i]
  PROVE  ElementsAt(d, end, f, cursor) = ElementsAt(d, end, g, cursor)
<1> DEFINE next == cursor + 2 + (Octet(d, cursor) % 16)
<1>1. CASE cursor >= end
  BY <1>1 DEF ElementsAt
<1>2. CASE cursor < end
  <2>1. Octet(d, cursor) % 16 \in Nat
    <3>1. Octet(d, cursor) \in Nat
      BY <1>2
    <3> DEFINE o == Octet(d, cursor)
    <3> HIDE DEF o
    <3>2. o \in Nat
      BY <3>1 DEF o
    <3>3. o % 16 \in Nat
      BY <3>2
    <3>. QED  BY <3>3 DEF o
  <2>2. next \in Nat /\ next > cursor
    BY <2>1
  <2> HIDE DEF next
  <2>3. f[cursor + 1] = g[cursor + 1]
    BY <1>2
  <2>4. ~(next > end) => f[next] = g[next]
    BY <2>2
  <2>5. CASE next > end
    <3>1. \A h : ElementsAt(d, end, h, cursor) =
             IF cursor >= end \/ Octet(d, cursor) \div 16 = 15
             THEN [valid |-> TRUE, times |-> <<>>]
             ELSE IF Octet(d, cursor) = 0 THEN h[cursor + 1]
             ELSE [valid |-> FALSE, times |-> <<>>]
      BY <2>5 DEF ElementsAt, next
    <3>. QED  BY <2>3, <3>1
  <2>6. CASE ~(next > end)
    <3> DEFINE Longer(read) ==
                 [read EXCEPT !.times = <<SubSeq(d.header, cursor + 2, cursor + 9)>> \o @]
    <3>1. \A h : ElementsAt(d, end, h, cursor) =
             IF cursor >= end \/ Octet(d, cursor) \div 16 = 15
             THEN [valid |-> TRUE, times |-> <<>>]
             ELSE IF Octet(d, cursor) = 0 THEN h[cursor + 1]
             ELSE IF Octet(d, cursor) = 16 * CaptureTimeId + 7 THEN Longer(h[next])
             ELSE h[next]
      BY <2>6 DEF ElementsAt, next
    <3>2. f[next] = g[next]
      BY <2>4, <2>6
    <3> HIDE DEF Longer
    <3>. QED  BY <2>3, <3>1, <3>2
  <2>. QED  BY <2>5, <2>6
<1>. QED  BY <1>1, <1>2

LEMMA ElementsReadExists ==
  ASSUME NEW d, NEW begin \in Nat, NEW end \in Nat, begin <= end,
         \A c \in begin .. end - 1 : Octet(d, c) \in Nat
  PROVE  \E from : ElementsRead(d, begin, end, from)
<1> DEFINE size == end - begin
<1> DEFINE bad == {n \in 0 .. size : ~ \E from : ElementsRead(d, end - n, end, from)}
<1> SUFFICES ASSUME ~ \E from : ElementsRead(d, begin, end, from) PROVE FALSE
  OBVIOUS
<1>0. ASSUME NEW c \in begin .. end, NEW f, NEW g, \A i \in c + 1 .. end : f[i] = g[i]
      PROVE  ElementsAt(d, end, f, c) = ElementsAt(d, end, g, c)
  <2>1. c \in 0 .. end /\ (c < end => c \in begin .. end - 1)
    OBVIOUS
  <2>. QED  BY <1>0, <2>1, ElementsLookAhead
<1>1. bad \subseteq Nat /\ size \in bad
  <2>1. end - size = begin /\ size \in 0 .. size
    OBVIOUS
  <2>. QED  BY <2>1
<1>2. PICK n \in bad : \A m \in bad : n <= m
  BY <1>1, LeastNumber
<1>3. n # 0
  <2> DEFINE from == [cursor \in end .. end |-> ElementsAt(d, end, <<>>, cursor)]
  <2>1. \A c \in end .. end : ElementsAt(d, end, <<>>, c) = ElementsAt(d, end, from, c)
    <3>1. \A c \in end .. end : c \in begin .. end /\ \A i \in c + 1 .. end : FALSE
      OBVIOUS
    <3> HIDE DEF from
    <3>. QED  BY <3>1, <1>0
  <2>2. ElementsRead(d, end, end, from)
    BY <2>1 DEF ElementsRead
  <2>3. end - 0 = end
    OBVIOUS
  <2>. QED  BY <1>2, <2>2, <2>3
<1>4. n - 1 \in 0 .. size /\ ~(n - 1 \in bad)
  <2>1. n \in 0 .. size /\ size \in Nat /\ \A m \in bad : n <= m
    BY <1>2
  <2> HIDE DEF bad, size
  <2>. QED  BY <1>3, <2>1
<1> DEFINE first == end - n
<1>5. PICK from : ElementsRead(d, first + 1, end, from)
  <2>1. end - (n - 1) = first + 1
    BY <1>2
  <2>2. \E from : ElementsRead(d, end - (n - 1), end, from)
    BY <1>4
  <2>. QED  BY <2>1, <2>2
<1>6. first \in begin .. end
  BY <1>2
<1> HIDE DEF first
<1> DEFINE longer == [cursor \in first .. end |->
                        IF cursor = first THEN ElementsAt(d, end, from, first) ELSE from[cursor]]
<1>7. \A i \in first + 1 .. end : longer[i] = from[i] /\ from[i] = ElementsAt(d, end, from, i)
  <2>1. \A i \in first + 1 .. end : i \in first .. end /\ i # first
    BY <1>6
  <2>2. from = [cursor \in first + 1 .. end |-> ElementsAt(d, end, from, cursor)]
    BY <1>5 DEF ElementsRead
  <2>. QED  BY <2>1, <2>2
<1>8. longer[first] = ElementsAt(d, end, from, first) /\ DOMAIN longer = first .. end
  BY <1>6
<1>9. longer = [cursor \in first .. end |-> longer[cursor]]
  OBVIOUS
<1> HIDE DEF longer
<1>10. \A c \in first .. end : longer[c] = ElementsAt(d, end, longer, c)
  <2> TAKE c \in first .. end
  <2>1. c \in begin .. end /\ \A i \in c + 1 .. end : i \in first + 1 .. end
    BY <1>6
  <2>2. ElementsAt(d, end, longer, c) = ElementsAt(d, end, from, c)
    BY <2>1, <1>7, <1>0
  <2>3. c = first \/ c \in first + 1 .. end
    BY <1>6
  <2>. QED  BY <2>2, <2>3, <1>7, <1>8
<1>11. ElementsRead(d, first, end, longer)
  BY <1>9, <1>10 DEF ElementsRead
<1>. QED  BY <1>2, <1>11 DEF first

LEMMA ElementsSteps ==
  ASSUME NEW d, ExtensionBegin(d) \in Nat, ExtensionEnd(d) \in Nat,
         ExtensionBegin(d) <= ExtensionEnd(d),
         \A c \in ExtensionBegin(d) .. ExtensionEnd(d) - 1 : Octet(d, c) \in Nat
  PROVE  \A c \in ExtensionBegin(d) .. ExtensionEnd(d) :
            ElementsFrom(d)[c] = ElementsAt(d, ExtensionEnd(d), ElementsFrom(d), c)
<1>1. ElementsRead(d, ExtensionBegin(d), ExtensionEnd(d), ElementsFrom(d))
  BY ElementsReadExists DEF ElementsRead, ElementsFrom
<1> DEFINE f == ElementsFrom(d)
<1> HIDE DEF f
<1>2. f = [c \in ExtensionBegin(d) .. ExtensionEnd(d) |-> ElementsAt(d, ExtensionEnd(d), f, c)]
  BY <1>1 DEF ElementsRead, f
<1>3. \A c \in ExtensionBegin(d) .. ExtensionEnd(d) : f[c] = ElementsAt(d, ExtensionEnd(d), f, c)
  BY <1>2
<1>. QED  BY <1>3 DEF f


LEMMA OwnOffsets ==
  ASSUME NEW d, NEW p, HeaderOctets(d.header, p)
  PROVE  /\ Octet(d, 0) = 144 /\ Flagged(d, 16)
         /\ SourcesEnd(d) = 12 /\ Read16(d, 12) = CaptureTimeProfile
         /\ ExtensionBegin(d) = 16 /\ ExtensionEnd(d) = 28
<1>1. /\ Octet(d, 0) = 144 /\ Octet(d, 12) = 190 /\ Octet(d, 13) = 222
      /\ Octet(d, 14) = 0 /\ Octet(d, 15) = 3
  <2>1. 0 + 1 = 1 /\ 12 + 1 = 13 /\ 13 + 1 = 14 /\ 14 + 1 = 15 /\ 15 + 1 = 16
    OBVIOUS
  <2>. QED  BY <2>1 DEF HeaderOctets, Octet
<1>2. Flagged(d, 16)
  <2>1. (144 \div 16) % 2 = 1
    BY SMT
  <2>. QED  BY <2>1, <1>1 DEF Flagged
<1>3. SourcesEnd(d) = 12
  <2>1. 12 + 4 * (144 % 16) = 12
    BY SMT
  <2>. QED  BY <2>1, <1>1 DEF SourcesEnd, BaseHeader
<1>4. ExtensionBegin(d) = 16
  <2>1. 12 + 4 = 16
    OBVIOUS
  <2>. QED  BY <2>1, <1>3 DEF ExtensionBegin
<1>5. Read16(d, 14) = 3 /\ Read16(d, 12) = CaptureTimeProfile
  <2>1. 14 + 1 = 15 /\ 12 + 1 = 13 /\ 256 * 0 + 3 = 3 /\ 256 * 190 + 222 = 48862
    BY SMT
  <2>. QED  BY <2>1, <1>1, SMT DEF Read16, CaptureTimeProfile
<1>6. ExtensionEnd(d) = 28
  <2>1. 12 + 2 = 14 /\ 16 + 4 * 3 = 28
    BY SMT
  <2>. QED  BY <2>1, <1>3, <1>4, <1>5 DEF ExtensionEnd
<1>. QED  BY <1>1, <1>2, <1>3, <1>4, <1>5, <1>6

LEMMA OwnOctets ==
  ASSUME NEW d, NEW p, HeaderOctets(d.header, p)
  PROVE  /\ Octet(d, 16) = 23
         /\ Octet(d, 25) = 0 /\ Octet(d, 26) = 0 /\ Octet(d, 27) = 0
         /\ \A c \in 16 .. 27 : Octet(d, c) \in Nat
<1> DEFINE h == d.header
<1>1. /\ h \in Seq(Numbers) /\ Len(h) = 28 /\ h[17] = 23 /\ \A i \in 1 .. 3 : h[25 + i] = 0
  BY DEF HeaderOctets
<1>2. \A c \in 16 .. 27 : c + 1 \in 1 .. 28
  OBVIOUS
<1>3. \A c : Octet(d, c) = h[c + 1]
  BY DEF Octet
<1> HIDE DEF h
<1>4. h[25 + 1] = 0 /\ h[25 + 2] = 0 /\ h[25 + 3] = 0
  BY <1>1
<1>5. 16 + 1 = 17 /\ 25 + 1 = 26 /\ 25 + 2 = 27 /\ 25 + 3 = 28 /\ 26 + 1 = 27 /\ 27 + 1 = 28
  OBVIOUS
<1>6. \A i \in 1 .. Len(h) : h[i] \in Numbers
  BY <1>1, ElementOfSeq
<1>7. \A i \in 1 .. 28 : h[i] \in Nat
  BY <1>1, <1>6 DEF Numbers
<1>8. Octet(d, 16) = 23
  BY <1>1, <1>3, <1>5
<1>9. Octet(d, 25) = 0 /\ Octet(d, 26) = 0 /\ Octet(d, 27) = 0
  <2>1. Octet(d, 25) = h[26] /\ Octet(d, 26) = h[27] /\ Octet(d, 27) = h[28]
    BY <1>3, <1>5
  <2>2. h[26] = 0 /\ h[27] = 0 /\ h[28] = 0
    BY <1>4, <1>5
  <2>. QED  BY <2>1, <2>2
<1>10. \A c \in 16 .. 27 : Octet(d, c) \in Nat
  BY <1>2, <1>3, <1>7, Zenon
<1>. QED  BY <1>8, <1>9, <1>10, Zenon

LEMMA OneMoreTime ==
  ASSUME NEW read, read = [valid |-> TRUE, times |-> <<>>], NEW times
  PROVE  /\ [read EXCEPT !.times = times \o @].valid = TRUE
         /\ [read EXCEPT !.times = times \o @].times = times \o <<>>
OBVIOUS

LEMMA OwnElementsRead ==
  ASSUME NEW d, NEW p, HeaderOctets(d.header, p)
  PROVE  ReadElements(d).valid = TRUE /\ ReadElements(d).times = <<SubSeq(d.header, 18, 25)>>
<1> DEFINE f == ElementsFrom(d)
<1> DEFINE none == [valid |-> TRUE, times |-> <<>>]
<1>1. \A c \in 16 .. 28 : f[c] = ElementsAt(d, 28, f, c)
  <2>1. /\ ExtensionBegin(d) = 16 /\ ExtensionEnd(d) = 28 /\ 16 \in Nat /\ 28 \in Nat
        /\ 16 <= 28 /\ 28 - 1 = 27 /\ \A c \in 16 .. 27 : Octet(d, c) \in Nat
    BY OwnOffsets, OwnOctets
  <2>2. \A c \in ExtensionBegin(d) .. ExtensionEnd(d) - 1 : Octet(d, c) \in Nat
    BY <2>1
  <2> HIDE DEF f
  <2>3. \A c \in ExtensionBegin(d) .. ExtensionEnd(d) :
           ElementsFrom(d)[c] = ElementsAt(d, ExtensionEnd(d), ElementsFrom(d), c)
    BY <2>1, <2>2, ElementsSteps
  <2>. QED  BY <2>1, <2>3 DEF f
<1>2. ReadElements(d) = f[16]
  BY ElementsAreFrom, OwnOffsets
<1>3. /\ Octet(d, 16) = 23 /\ Octet(d, 25) = 0 /\ Octet(d, 26) = 0 /\ Octet(d, 27) = 0
  BY OwnOctets
<1> HIDE DEF f
<1>4. 0 \div 16 # 15 /\ 23 \div 16 # 15 /\ 23 # 0 /\ 16 * CaptureTimeId + 7 = 23
  BY SMT DEF CaptureTimeId
<1>5. f[28] = none
  <2>1. 28 >= 28 /\ 28 \in 16 .. 28
    OBVIOUS
  <2>. QED  BY <2>1, <1>1, Zenon DEF ElementsAt
<1>6. f[27] = none
  <2>1. 27 \in 16 .. 28 /\ ~(27 >= 28) /\ 27 + 1 = 28
    OBVIOUS
  <2>2. ElementsAt(d, 28, f, 27) = f[27 + 1]
    BY <2>1, <1>3, <1>4 DEF ElementsAt
  <2>. QED  BY <2>1, <2>2, <1>1, <1>5
<1>7. f[26] = none
  <2>1. 26 \in 16 .. 28 /\ ~(26 >= 28) /\ 26 + 1 = 27
    OBVIOUS
  <2>2. ElementsAt(d, 28, f, 26) = f[26 + 1]
    BY <2>1, <1>3, <1>4 DEF ElementsAt
  <2>. QED  BY <2>1, <2>2, <1>1, <1>6
<1>8. f[25] = none
  <2>1. 25 \in 16 .. 28 /\ ~(25 >= 28) /\ 25 + 1 = 26
    OBVIOUS
  <2>2. ElementsAt(d, 28, f, 25) = f[25 + 1]
    BY <2>1, <1>3, <1>4 DEF ElementsAt
  <2>. QED  BY <2>1, <2>2, <1>1, <1>7
<1>9. f[16] = [f[25] EXCEPT !.times = <<SubSeq(d.header, 18, 25)>> \o @]
  <2>1. 16 \in 16 .. 28 /\ ~(16 >= 28) /\ 16 + 2 + (23 % 16) = 25 /\ ~(25 > 28)
        /\ 16 + 2 = 18 /\ 16 + 9 = 25
    BY SMT
  <2>2. ElementsAt(d, 28, f, 16) = [f[25] EXCEPT !.times = <<SubSeq(d.header, 18, 25)>> \o @]
    BY <2>1, <1>3, <1>4 DEF ElementsAt
  <2>. QED  BY <2>1, <2>2, <1>1
<1>10. <<SubSeq(d.header, 18, 25)>> \o <<>> = <<SubSeq(d.header, 18, 25)>>
  OBVIOUS
<1> DEFINE times == <<SubSeq(d.header, 18, 25)>>
<1>11. f[16] = [none EXCEPT !.times = times \o @] /\ times \o <<>> = times
  BY <1>8, <1>9, <1>10
<1> HIDE DEF times
<1>12. /\ [none EXCEPT !.times = times \o @].valid = TRUE
       /\ [none EXCEPT !.times = times \o @].times = times \o <<>>
  BY OneMoreTime
<1>13. f[16].valid = TRUE /\ f[16].times = times
  BY <1>11, <1>12
<1>. QED  BY <1>2, <1>13 DEF times

LEMMA OwnTimeRead ==
  ASSUME NEW h, NEW p, HeaderOctets(h, p), p.captureTime \in Seq(Numbers), Len(p.captureTime) = 8
  PROVE  SubSeq(h, 18, 25) = p.captureTime
<1> DEFINE t == p.captureTime
<1> DEFINE m == 18
<1> DEFINE n == 25
<1>1. h \in Seq(Numbers) /\ Len(h) = 28 /\ \A i \in 1 .. 8 : h[17 + i] = t[i]
  BY DEF HeaderOctets
<1>2. t \in Seq(Numbers) /\ Len(t) = 8
  OBVIOUS
<1> HIDE DEF t
<1>3. m \in Int /\ n \in Int /\ \A i \in m .. n : i \in 1 .. 28
  OBVIOUS
<1>4. \A i \in 1 .. 28 : h[i] \in Numbers
  BY <1>1, ElementOfSeq
<1>5. \A i \in m .. n : h[i] \in Numbers
  BY <1>3, <1>4
<1> DEFINE s == SubSeq(h, m, n)
<1> HIDE DEF m, n
<1>6. /\ SubSeq(h, m, n) \in Seq(Numbers)
      /\ Len(SubSeq(h, m, n)) = (IF m <= n THEN n - m + 1 ELSE 0)
      /\ \A i \in 1 .. n - m + 1 : SubSeq(h, m, n)[i] = h[m + i - 1]
  BY <1>3, <1>5, SubSeqProperties
<1>7. /\ s \in Seq(Numbers) /\ Len(s) = 8
      /\ \A i \in 1 .. 8 : s[i] = h[17 + i]
  <2>1. m <= n /\ n - m + 1 = 8 /\ \A i \in 1 .. 8 : m + i - 1 = 17 + i
    BY DEF m, n
  <2>. QED  BY <2>1, <1>6
<1> HIDE DEF s
<1>8. s \in Seq(Numbers) /\ t \in Seq(Numbers) /\ Len(s) = Len(t)
      /\ \A i \in 1 .. Len(s) : s[i] = t[i]
  BY <1>1, <1>2, <1>7
<1>9. s = t
  BY <1>8, SeqEqual
<1>. QED  BY <1>9 DEF s, t, m, n

LEMMA OwnExtensionRead ==
  ASSUME NEW p, p.captureTime \in Seq(Numbers), Len(p.captureTime) = 8,
         NEW d, HeaderOctets(d.header, p), IsH264(d)
  PROVE  ReadExtension(d).times = <<p.captureTime>>
<1>1. Flagged(d, 16) /\ SourcesEnd(d) = 12 /\ Read16(d, 12) = CaptureTimeProfile
  BY OwnOffsets, Zenon
<1>2. SubSeq(d.header, 18, 25) = p.captureTime
  BY OwnTimeRead, Zenon
<1>3. ReadElements(d).valid = TRUE /\ ReadElements(d).times = <<SubSeq(d.header, 18, 25)>>
  BY OwnElementsRead, Zenon
<1>4. ReadElements(d).valid = TRUE /\ ReadElements(d).times = <<p.captureTime>>
  BY <1>2, <1>3
<1>5. ReadExtension(d).valid
  BY DEF IsH264, HasValidHeader
<1>6. ~(ExtensionBegin(d) > DatagramSize(d) \/ ExtensionEnd(d) > DatagramSize(d))
  <2> SUFFICES ASSUME ExtensionBegin(d) > DatagramSize(d) \/ ExtensionEnd(d) > DatagramSize(d)
               PROVE  FALSE
    OBVIOUS
  <2>1. ReadExtension(d) = [valid |-> FALSE]
    BY <1>1 DEF ReadExtension
  <2>. QED  BY <2>1, <1>5
<1> DEFINE t == <<p.captureTime>>
<1> DEFINE r == ReadElements(d)
<1>7. r.times = t /\ r.valid = TRUE
  BY <1>4
<1> HIDE DEF t, r
<1>8. ReadExtension(d) = [valid |-> r.valid, times |-> r.times, end |-> ExtensionEnd(d)]
  BY <1>1, <1>6, Zenon DEF ReadExtension, r
<1>9. ReadExtension(d).times = t
  BY <1>7, <1>8
<1>. QED  BY <1>9 DEF t

\* What the fields of the header can hold.
Fits(p) ==
    /\ p.sequence \in Nat /\ p.sequence < 65536
    /\ p.timestamp \in Nat /\ Upper(p.timestamp) < 65536
    /\ p.marker \in BOOLEAN
    /\ p.captureTime \in Seq(Numbers) /\ Len(p.captureTime) = 8

LEMMA OwnParse ==
  ASSUME NEW p, Fits(p),
         NEW d, HeaderOctets(d.header, p), IsH264(d)
  PROVE  /\ Parse(d).sequence = p.sequence /\ Parse(d).timestamp = p.timestamp
         /\ Parse(d).marker = p.marker /\ Parse(d).captureTime = p.captureTime
<1>1. Read16(d, 2) = p.sequence
  <2>1. Octet(d, 2) = High(p.sequence) /\ Octet(d, 3) = Low(p.sequence)
    <3>1. 2 + 1 = 3 /\ 3 + 1 = 4
      OBVIOUS
    <3>. QED  BY <3>1 DEF HeaderOctets, Octet
  <2>2. 2 + 1 = 3
    OBVIOUS
  <2>3. Read16(d, 2) = 256 * High(p.sequence) + Low(p.sequence)
    BY <2>1, <2>2 DEF Read16
  <2>4. p.sequence \in Nat /\ p.sequence < 65536
    BY DEF Fits
  <2>. QED  BY <2>3, <2>4, Joins16
<1>2. Read32(d, 4) = p.timestamp
  <2> DEFINE v == p.timestamp
  <2>1. /\ Octet(d, 4) = High(Upper(v)) /\ Octet(d, 5) = Low(Upper(v))
        /\ Octet(d, 6) = High(v) /\ Octet(d, 7) = Low(v)
    <3>1. 4 + 1 = 5 /\ 5 + 1 = 6 /\ 6 + 1 = 7 /\ 7 + 1 = 8
      OBVIOUS
    <3>. QED  BY <3>1 DEF HeaderOctets, Octet
  <2>2. 4 + 2 = 6 /\ 4 + 1 = 5 /\ 6 + 1 = 7
    OBVIOUS
  <2>3. Read16(d, 4) = 256 * High(Upper(v)) + Low(Upper(v))
    BY <2>1, <2>2 DEF Read16
  <2>4. Read16(d, 6) = 256 * High(v) + Low(v)
    BY <2>1, <2>2 DEF Read16
  <2>5. Read32(d, 4) = 65536 * Read16(d, 4) + Read16(d, 6)
    BY <2>2, SMT DEF Read32
  <2>6. v \in Nat /\ Upper(v) < 65536
    BY DEF Fits
  <2> HIDE DEF v
  <2>7. 65536 * (256 * High(Upper(v)) + Low(Upper(v))) + (256 * High(v) + Low(v)) = v
    BY <2>6, Joins32, SMT
  <2>8. Read32(d, 4) = v
    BY <2>3, <2>4, <2>5, <2>7, SMT
  <2>. QED  BY <2>8 DEF v
<1>3. (Octet(d, 1) >= 128) = p.marker
  <2>1. Octet(d, 1) = (IF p.marker THEN 224 ELSE 96)
    <3>1. 1 + 1 = 2
      OBVIOUS
    <3>. QED  BY <3>1 DEF HeaderOctets, Octet
  <2>2. 224 >= 128 /\ ~(96 >= 128)
    OBVIOUS
  <2>3. (Octet(d, 1) >= 128) <=> p.marker
    BY <2>1, <2>2
  <2>. QED  BY <2>3 DEF Fits
<1>4. ReadExtension(d).times = <<p.captureTime>>
  <2>1. p.captureTime \in Seq(Numbers) /\ Len(p.captureTime) = 8
    BY DEF Fits
  <2>. QED  BY <2>1, OwnExtensionRead, Zenon
<1>5. Parse(d).captureTime = p.captureTime
  <2> DEFINE t == p.captureTime
  <2>1. <<t>> # <<>> /\ Last(<<t>>) = t
    BY DEF Last
  <2>2. ReadExtension(d).times = <<t>>
    BY <1>4
  <2> HIDE DEF t
  <2>3. Parse(d).captureTime = t
    BY <2>1, <2>2 DEF Parse
  <2>. QED  BY <2>3 DEF t
<1>6. /\ Parse(d).sequence = Read16(d, 2) /\ Parse(d).timestamp = Read32(d, 4)
      /\ Parse(d).marker = (Octet(d, 1) >= 128)
  BY DEF Parse
<1>. QED  BY <1>1, <1>2, <1>3, <1>5, <1>6


\* The senders are those of this repository, and no other datagram is taken for
\* one of theirs.
OwnSenders == \A session \in Sessions : session.dressing = OwnDressing
NoOthers == \A d \in Strays : ~IsH264(d)

LEMMA UpperFits ==
  ASSUME NEW a \in Nat, NEW n \in Nat, a <= n, FitsTimestamp(n)
  PROVE  Upper(a) < 65536
<1> DEFINE u == a \div 65536
<1> DEFINE v == n \div 65536
<1> DEFINE x == a % 65536
<1> DEFINE y == n % 65536
<1>1. /\ u \in Nat /\ x \in Nat /\ x < 65536 /\ a = 65536 * u + x
      /\ v \in Nat /\ y \in Nat /\ y < 65536 /\ n = 65536 * v + y
  BY SMT
<1>2. v < 65536
  BY SMT DEF FitsTimestamp
<1> HIDE DEF u, v, x, y
<1>3. u <= v
  <2> SUFFICES ASSUME u >= v + 1 PROVE FALSE
    BY <1>1, SMT
  <2>1. 65536 * u >= 65536 * v + 65536
    BY <1>1, SMT
  <2>. QED  BY <1>1, <2>1, SMT
<1>4. u < 65536
  BY <1>1, <1>2, <1>3, SMT
<1>. QED  BY <1>4, SMT DEF u, Upper

LEMMA CaptureTimeIs ==
  ASSUME NEW a \in Nat
  PROVE  CaptureTime(a) \in Seq(Numbers) /\ Len(CaptureTime(a)) = 8
BY DEF CaptureTime, Numbers

LEMMA OwnReadBack ==
  ASSUME TransportInv, OwnSenders, NoOthers
  PROVE  ReadsBack
<1>1. PICK first : Sent(first)
  BY DEF TransportInv
<1>2. dressing = OwnDressing
  BY DEF TransportInv, OwnSenders
<1>3. Len(stream) \in Nat /\ FitsTimestamp(Len(stream))
  <2>1. PICK session \in Sessions : stream = session.units
    BY DEF TransportInv
  <2>2. FitsTimestamp(Len(session.units))
    BY FieldsAssumption
  <2>. QED  BY <2>1, <2>2, StreamIs
<1>4. ASSUME NEW k \in DOMAIN channel, IsH264(Wire(channel[k]))
      PROVE  /\ Parse(Wire(channel[k])).sequence = channel[k].sequence
             /\ Parse(Wire(channel[k])).timestamp = channel[k].timestamp
             /\ Parse(Wire(channel[k])).marker = channel[k].marker
             /\ Parse(Wire(channel[k])).captureTime \in Times(channel[k].timestamp)
  <2>1. PICK a \in 1 .. auCount : \E j \in DOMAIN Bodies(UnitsOf(stream, a)) :
                channel[k] = PacketOf(stream, a, first[a], j)
    BY <1>1, TakenFromChannel
  <2>2. PICK j \in DOMAIN Bodies(UnitsOf(stream, a)) : channel[k] = PacketOf(stream, a, first[a], j)
    BY <2>1
  <2>3. a \in 1 .. Len(stream) /\ a \in Nat /\ a <= Len(stream)
    BY <1>3, <2>1 DEF TransportInv
  <2> DEFINE bodies == Bodies(UnitsOf(stream, a))
  <2>4. bodies \in Seq(MarkedOver(UnitIds))
    BY <2>3, StreamIs, UnitIsCarried
  <2>5. bodies[j].marker \in BOOLEAN /\ j \in Nat
    <3>1. j \in 1 .. Len(bodies) /\ j \in Nat
      BY <2>2, <2>4, LenProperties
    <3> HIDE DEF bodies
    <3>2. bodies[j] \in MarkedOver(UnitIds)
      BY <2>4, <3>1, ElementOfSeq
    <3>. QED  BY <3>1, <3>2 DEF MarkedOver
  <2> DEFINE c == channel[k]
  <2>6. /\ c.sequence = (first[a] + j - 1) % SequenceSpace /\ c.timestamp = a
        /\ c.marker = bodies[j].marker /\ c.body = bodies[j].body
    BY <2>2 DEF PacketOf
  <2> HIDE DEF bodies
  <2>7. c.sequence \in Nat /\ c.sequence < 65536
    <3> DEFINE n == first[a] + j - 1
    <3>1. first[a] \in Sequences16
      BY <1>1, <2>3 DEF Sent
    <3>2. n \in Int
      BY <2>5, <3>1, SequenceSpaceAssumption DEF Sequences16
    <3> HIDE DEF n
    <3>3. n % SequenceSpace \in 0 .. SequenceSpace - 1
      BY <3>2, SequenceSpaceAssumption
    <3>4. SequenceSpace \in Nat /\ SequenceSpace <= 65536
      <4>1. SequenceSpace <= 65536
        BY FieldsAssumption, SMT
      <4>. QED  BY <4>1, SequenceSpaceAssumption
    <3>5. c.sequence = n % SequenceSpace
      BY <2>6 DEF n
    <3> HIDE DEF c
    <3>. QED  BY <3>3, <3>4, <3>5, SMT
  <2> DEFINE p == [sequence |-> c.sequence, timestamp |-> c.timestamp, marker |-> c.marker,
                   captureTime |-> CaptureTime(c.timestamp)]
  <2>8. /\ p.sequence = c.sequence /\ p.timestamp = a /\ p.marker = c.marker
        /\ p.captureTime = CaptureTime(a)
    BY <2>6
  <2> DEFINE d == Wire(c)
  <2>9. d = Datagram(p, PayloadSize(c.body), Ssrc, OwnDressing)
    BY <1>2 DEF Wire
  <2>10. IsH264(d)
    BY <1>4
  <2> HIDE DEF p, d, c
  <2>11. CaptureTime(a) \in Seq(Numbers) /\ Len(CaptureTime(a)) = 8
    BY <2>3, CaptureTimeIs
  <2>12. a \in Nat /\ Upper(a) < 65536
    BY <1>3, <2>3, UpperFits
  <2>13. Fits(p)
    <3>1. p.sequence \in Nat /\ p.sequence < 65536
      BY <2>7, <2>8, SMT
    <3>2. p.timestamp \in Nat /\ Upper(p.timestamp) < 65536
      BY <2>8, <2>12, SMT
    <3>3. p.marker \in BOOLEAN
      BY <2>5, <2>6, <2>8
    <3>4. p.captureTime \in Seq(Numbers) /\ Len(p.captureTime) = 8
      BY <2>8, <2>11
    <3>. QED  BY <3>1, <3>2, <3>3, <3>4, SMT DEF Fits
  <2>14. HeaderOctets(d.header, p)
    <3>1. /\ p.sequence \in Nat /\ p.timestamp \in Nat /\ p.marker \in BOOLEAN
          /\ p.captureTime \in Seq(Numbers) /\ Len(p.captureTime) = 8
      BY <2>13, SMT DEF Fits
    <3>. QED  BY <2>9, <3>1, OwnHeader, Zenon
  <2>15. /\ Parse(d).sequence = p.sequence /\ Parse(d).timestamp = p.timestamp
         /\ Parse(d).marker = p.marker /\ Parse(d).captureTime = p.captureTime
    BY <2>10, <2>13, <2>14, OwnParse, Zenon
  <2>. QED  BY <2>6, <2>8, <2>15 DEF d, c, Times
<1>. QED  BY <1>4 DEF ReadsBack, NoOthers

\* TransportInv is inductive for these senders.
LEMMA NextOwn ==
  ASSUME ShortUnits, OwnSenders, NoOthers
  PROVE  TransportInv /\ [Next]_vars => TransportInv'
BY NextTransport, OwnReadBack

\* Of every packet of make_packet that it accepts, the receiver reads what was written:
\* the number, the timestamp, the marker and the capture time, from the octets of the
\* header and its extension.
THEOREM OwnPacketsAreRead ==
  ASSUME ShortUnits, OwnSenders, NoOthers
  PROVE  Spec => []ReadsBack
<1>1. Init => TransportInv
  BY InitTransport
<1>2. TransportInv /\ [Next]_vars => TransportInv'
  BY NextOwn
<1>3. TransportInv => ReadsBack
  BY OwnReadBack
<1>. QED  BY <1>1, <1>2, <1>3, PTL DEF Spec

\* With the senders of this repository, whatever is lost, duplicated or reordered, and
\* wherever one stops and another takes over: every access unit that is completed is
\* the end of one that was sent, without a NAL missing or damaged in it and with its
\* own capture time or none (CompletedAreTails; packetize, parse_rtp_packet and push).
THEOREM CompletedAreTailsHolds ==
  ASSUME ShortUnits, OwnSenders, NoOthers
  PROVE  Spec => []CompletedAreTails
<1>1. Init => TransportInv
  BY InitTransport
<1>2. TransportInv /\ [Next]_vars => TransportInv'
  BY NextOwn
<1>3. TransportInv => CompletedAreTails
  BY TailsFollow
<1>. QED  BY <1>1, <1>2, <1>3, PTL DEF Spec

-----------------------------------------------------------------------------
(* Sizes.  FoldLeft goes through the positions from the last one back.     *)

UnitsAt(nals, total, s) == IF s = {} THEN 0 ELSE total[s \ {Max(s)}] + Len(nals[Max(s)])
UnitsFrom(nals) == CHOOSE total : total = [s \in SUBSET (DOMAIN nals) |-> UnitsAt(nals, total, s)]

\* The units of the first k NALs.
UnitsUpTo(nals, k) == UnitsFrom(nals)[1 .. k]

LEMMA TotalIsFrom ==
  ASSUME NEW nals
  PROVE  TotalUnits(nals) = UnitsFrom(nals)[DOMAIN nals]
BY DEF TotalUnits, FoldLeft, MapThenFoldSet, UnitsFrom, UnitsAt

LEMMA MaxIsLargest ==
  ASSUME NEW n \in Nat, NEW S, S \subseteq 1 .. n, S # {}
  PROVE  Max(S) \in S /\ \A y \in S : y <= Max(S)
<1> DEFINE below == {n - i : i \in S}
<1>1. below \subseteq Nat /\ below # {}
  <2>1. \A i \in S : n - i \in Nat
    OBVIOUS
  <2>. QED  BY <2>1
<1>2. PICK b \in below : \A m \in below : b <= m
  BY <1>1, LeastNumber
<1>3. PICK x \in S : b = n - x
  BY <1>2
<1>4. \A y \in S : n - x <= n - y
  BY <1>2, <1>3
<1>5. \A y \in S : x >= y
  BY <1>4
<1>6. Max(S) \in S /\ \A y \in S : Max(S) >= y
  BY <1>5 DEF Max
<1>. QED  BY <1>6

UnitsRead(nals, n, total) == total = [s \in SUBSET (1 .. n) |-> UnitsAt(nals, total, s)]

LEMMA UnitsReadExists ==
  ASSUME NEW nals, NEW N \in Nat
  PROVE  \E total : UnitsRead(nals, N, total)
<1> DEFINE bad == {n \in 0 .. N : ~ \E total : UnitsRead(nals, n, total)}
<1> SUFFICES ASSUME ~ \E total : UnitsRead(nals, N, total) PROVE FALSE
  OBVIOUS
<1>1. bad \subseteq Nat /\ N \in bad
  OBVIOUS
<1>2. PICK n \in bad : \A m \in bad : n <= m
  BY <1>1, LeastNumber
<1>3. n # 0
  <2> DEFINE total == [s \in SUBSET (1 .. 0) |-> 0]
  <2>1. \A s \in SUBSET (1 .. 0) : s = {}
    OBVIOUS
  <2>2. \A s \in SUBSET (1 .. 0) : UnitsAt(nals, total, s) = 0
    BY <2>1 DEF UnitsAt
  <2>3. UnitsRead(nals, 0, total)
    BY <2>2 DEF UnitsRead
  <2>. QED  BY <1>2, <2>3
<1>4. n - 1 \in 0 .. N /\ ~(n - 1 \in bad)
  <2>1. n \in 0 .. N /\ \A m \in bad : n <= m
    BY <1>2
  <2> HIDE DEF bad
  <2>. QED  BY <1>3, <2>1
<1>5. PICK total : UnitsRead(nals, n - 1, total)
  BY <1>4
<1> DEFINE longer == [s \in SUBSET (1 .. n) |->
                        IF n \in s THEN total[s \ {n}] + Len(nals[n]) ELSE total[s]]
<1>6. /\ \A s \in SUBSET (1 .. n) : n \in s => longer[s] = total[s \ {n}] + Len(nals[n])
      /\ \A s \in SUBSET (1 .. n) : n \notin s => longer[s] = total[s]
      /\ longer = [s \in SUBSET (1 .. n) |-> longer[s]]
  OBVIOUS
<1>7. n \in Nat /\ \A i \in 1 .. n : i # n => i \in 1 .. n - 1
  BY <1>2
<1> HIDE DEF longer
<1>8. ASSUME NEW s \in SUBSET (1 .. n)
      PROVE  longer[s] = UnitsAt(nals, longer, s)
  <2>1. CASE n \in s
    <3>1. Max(s) = n
      <4>1. Max(s) \in s /\ n <= Max(s)
        BY <1>7, <2>1, MaxIsLargest
      <4>2. Max(s) \in 1 .. n
        BY <4>1
      <4>. QED  BY <4>1, <4>2, <1>7
    <3>2. s \ {n} \in SUBSET (1 .. n) /\ n \notin s \ {n}
      OBVIOUS
    <3>3. longer[s \ {n}] = total[s \ {n}]
      BY <3>2, <1>6
    <3>. QED  BY <2>1, <3>1, <3>3, <1>6 DEF UnitsAt
  <2>2. CASE n \notin s
    <3>1. s \in SUBSET (1 .. n - 1)
      BY <2>2, <1>7
    <3>2. total[s] = UnitsAt(nals, total, s)
      BY <1>5, <3>1 DEF UnitsRead
    <3>3. s # {} => longer[s \ {Max(s)}] = total[s \ {Max(s)}]
      <4>1. s \ {Max(s)} \in SUBSET (1 .. n) /\ n \notin s \ {Max(s)}
        BY <2>2
      <4>. QED  BY <4>1, <1>6
    <3>. QED  BY <2>2, <3>2, <3>3, <1>6 DEF UnitsAt
  <2>. QED  BY <2>1, <2>2
<1>9. UnitsRead(nals, n, longer)
  BY <1>6, <1>8 DEF UnitsRead
<1>. QED  BY <1>2, <1>9

LEMMA UnitsSteps ==
  ASSUME NEW U, NEW nals \in Seq(Seq(U))
  PROVE  /\ UnitsUpTo(nals, 0) = 0
         /\ \A k \in 1 .. Len(nals) : UnitsUpTo(nals, k) = UnitsUpTo(nals, k - 1) + Len(nals[k])
         /\ \A k \in 0 .. Len(nals) : UnitsUpTo(nals, k) \in Nat
         /\ TotalUnits(nals) = UnitsUpTo(nals, Len(nals))
<1> DEFINE N == Len(nals)
<1> DEFINE f == UnitsFrom(nals)
<1>1. N \in Nat /\ DOMAIN nals = 1 .. N
  BY LenProperties
<1>2. UnitsRead(nals, N, f)
  <2>1. \E total : UnitsRead(nals, N, total)
    BY <1>1, UnitsReadExists
  <2>. QED  BY <2>1, <1>1 DEF UnitsRead, UnitsFrom
<1> HIDE DEF f
<1>3. \A s \in SUBSET (1 .. N) : f[s] = UnitsAt(nals, f, s)
  BY <1>2 DEF UnitsRead
<1>4. f[1 .. 0] = 0
  <2>1. 1 .. 0 = {} /\ 1 .. 0 \in SUBSET (1 .. N)
    OBVIOUS
  <2>. QED  BY <2>1, <1>3 DEF UnitsAt
<1>5. ASSUME NEW k \in 1 .. N
      PROVE  f[1 .. k] = f[1 .. k - 1] + Len(nals[k])
  <2>1. k \in Nat /\ 1 .. k # {} /\ 1 .. k \in SUBSET (1 .. N) /\ k \in 1 .. k
    <3>1. k \in Nat /\ k \in 1 .. k /\ \A i \in 1 .. k : i \in 1 .. N
      BY <1>1
    <3> HIDE DEF N
    <3>. QED  BY <3>1
  <2>2. Max(1 .. k) = k
    <3> DEFINE S == 1 .. k
    <3>1. S \subseteq 1 .. k /\ S # {} /\ k \in S
      BY <2>1
    <3>2. Max(S) \in S /\ k <= Max(S)
      <4> HIDE DEF S
      <4>. QED  BY <2>1, <3>1, MaxIsLargest
    <3>3. Max(S) \in 1 .. k
      BY <3>2
    <3>4. Max(S) = k
      <4> HIDE DEF S
      <4>. QED  BY <2>1, <3>2, <3>3
    <3>. QED  BY <3>4
  <2>3. (1 .. k) \ {k} = 1 .. k - 1
    BY <2>1
  <2>. QED  BY <2>1, <2>2, <2>3, <1>3 DEF UnitsAt
<1>6. \A k \in 1 .. N : Len(nals[k]) \in Nat
  <2> DEFINE S == Seq(U)
  <2>1. \A k \in 1 .. N : nals[k] \in S
    <3> HIDE DEF S
    <3>1. nals \in Seq(S)
      BY DEF S
    <3>. QED  BY <3>1, ElementOfSeq
  <2>. QED  BY <2>1, LenProperties
<1> DEFINE bad == {k \in 0 .. N : f[1 .. k] \notin Nat}
<1>7. bad = {}
  <2> SUFFICES ASSUME bad # {} PROVE FALSE
    OBVIOUS
  <2>1. bad \subseteq Nat
    BY <1>1
  <2>2. PICK k \in bad : \A m \in bad : k <= m
    <3> HIDE DEF bad
    <3>. QED  BY <2>1, LeastNumber
  <2>3. k \in 0 .. N /\ f[1 .. k] \notin Nat
    BY <2>2
  <2>4. k # 0
    BY <2>3, <1>4
  <2>5. k \in 1 .. N /\ k - 1 \in 0 .. N /\ ~(k <= k - 1)
    BY <2>3, <2>4, <1>1
  <2>6. k - 1 \notin bad
    <3> HIDE DEF bad
    <3>. QED  BY <2>2, <2>5
  <2>7. f[1 .. k - 1] \in Nat
    BY <2>5, <2>6
  <2>8. f[1 .. k] = f[1 .. k - 1] + Len(nals[k]) /\ Len(nals[k]) \in Nat
    BY <2>5, <1>5, <1>6
  <2> HIDE DEF bad, N
  <2> DEFINE x == f[1 .. k - 1]
  <2> DEFINE y == Len(nals[k])
  <2>9. x \in Nat /\ y \in Nat /\ f[1 .. k] = x + y
    BY <2>7, <2>8
  <2> HIDE DEF x, y
  <2>. QED  BY <2>3, <2>9
<1>8. \A k \in 0 .. N : f[1 .. k] \in Nat
  BY <1>7
<1>9. TotalUnits(nals) = f[1 .. N]
  BY <1>1, TotalIsFrom DEF f
<1>. QED  BY <1>4, <1>5, <1>8, <1>9 DEF UnitsUpTo, f

\* The units of equal beginnings.
LEMMA SameUnits ==
  ASSUME NEW U, NEW s \in Seq(Seq(U)), NEW t \in Seq(Seq(U)),
         NEW n \in Nat, n <= Len(s), n <= Len(t), \A i \in 1 .. n : s[i] = t[i]
  PROVE  UnitsUpTo(s, n) = UnitsUpTo(t, n)
<1> DEFINE bad == {k \in 0 .. n : UnitsUpTo(s, k) # UnitsUpTo(t, k)}
<1>1. Len(s) \in Nat /\ Len(t) \in Nat
  BY LenProperties
<1>2. bad = {}
  <2> SUFFICES ASSUME bad # {} PROVE FALSE
    OBVIOUS
  <2>1. bad \subseteq Nat
    OBVIOUS
  <2>2. PICK k \in bad : \A m \in bad : k <= m
    <3> HIDE DEF bad
    <3>. QED  BY <2>1, LeastNumber
  <2>3. k \in 0 .. n /\ UnitsUpTo(s, k) # UnitsUpTo(t, k)
    BY <2>2
  <2>4. k # 0
    BY <2>3, UnitsSteps
  <2>5. /\ k \in 1 .. n /\ k - 1 \in 0 .. n /\ ~(k <= k - 1)
        /\ k \in 1 .. Len(s) /\ k \in 1 .. Len(t)
    BY <2>3, <2>4, <1>1
  <2>6. k - 1 \notin bad
    <3> HIDE DEF bad
    <3>. QED  BY <2>2, <2>5
  <2>7. UnitsUpTo(s, k - 1) = UnitsUpTo(t, k - 1)
    BY <2>5, <2>6
  <2>8. /\ UnitsUpTo(s, k) = UnitsUpTo(s, k - 1) + Len(s[k])
        /\ UnitsUpTo(t, k) = UnitsUpTo(t, k - 1) + Len(t[k])
    BY <2>5, UnitsSteps
  <2>9. s[k] = t[k]
    BY <2>5
  <2>. QED  BY <2>3, <2>7, <2>8, <2>9
<1>3. n \in 0 .. n
  OBVIOUS
<1>. QED  BY <1>2, <1>3

LEMMA TotalAppended ==
  ASSUME NEW U, NEW nals \in Seq(Seq(U)), NEW nal \in Seq(U)
  PROVE  /\ TotalUnits(Append(nals, nal)) = TotalUnits(nals) + Len(nal)
         /\ TotalUnits(nals) \in Nat /\ Len(nal) \in Nat
<1> DEFINE S == Seq(U)
<1> DEFINE more == Append(nals, nal)
<1> DEFINE n == Len(nals)
<1>1. /\ more \in Seq(Seq(U)) /\ Len(more) = n + 1 /\ more[n + 1] = nal
      /\ \A i \in 1 .. n : more[i] = nals[i]
  <2> HIDE DEF S
  <2>1. nals \in Seq(S) /\ nal \in S
    BY DEF S
  <2>2. /\ more \in Seq(S) /\ Len(more) = n + 1 /\ more[n + 1] = nal
        /\ \A i \in 1 .. n : more[i] = nals[i]
    BY <2>1, AppendProperties
  <2>. QED  BY <2>2 DEF S
<1>2. n \in Nat /\ Len(nal) \in Nat
  BY LenProperties
<1> HIDE DEF more, n
<1>3. UnitsUpTo(more, n) = UnitsUpTo(nals, n)
  <2>1. n <= Len(more) /\ n <= Len(nals)
    BY <1>1, <1>2 DEF n
  <2>. QED  BY <1>1, <1>2, <2>1, SameUnits
<1>4. n + 1 \in 1 .. Len(more) /\ (n + 1) - 1 = n /\ n \in 0 .. Len(nals)
  BY <1>1, <1>2 DEF n
<1>5. UnitsUpTo(more, n + 1) = UnitsUpTo(more, n) + Len(nal)
  BY <1>1, <1>4, UnitsSteps
<1>6. TotalUnits(nals) = UnitsUpTo(nals, n) /\ TotalUnits(nals) \in Nat
  BY <1>4, UnitsSteps DEF n
<1>7. TotalUnits(more) = UnitsUpTo(more, n + 1)
  BY <1>1, UnitsSteps
<1>. QED  BY <1>2, <1>3, <1>5, <1>6, <1>7 DEF more

-----------------------------------------------------------------------------
(* Every packet has a payload and fits in a datagram, and the last one has *)
(* the marker if the last NAL is not empty.                                *)

WellSized(bodies) == \A k \in 1 .. Len(bodies) : PayloadSize(bodies[k].body) \in 1 .. MaxPayload
MarksEnd(bodies) == bodies # <<>> /\ bodies[Len(bodies)].marker
EndsFull(nals) == nals # <<>> => nals[Len(nals)] # <<>>

SizedFrom(nals, index) ==
    /\ WellSized(BodiesFrom(nals)[index])
    /\ index <= Len(nals) /\ EndsFull(nals) => MarksEnd(BodiesFrom(nals)[index])

LEMMA EveryCarriedFrom ==
  ASSUME NEW U, NEW nals \in Seq(Seq(U))
  PROVE  \A index \in 1 .. Len(nals) + 1 : CarriedFrom(nals, index, U)
<1> DEFINE last == Len(nals) + 1
<1> DEFINE bad == {n \in 0 .. Len(nals) : ~CarriedFrom(nals, last - n, U)}
<1>0. Len(nals) \in Nat /\ bad \subseteq Nat
  OBVIOUS
<1>1. bad = {}
  <2> SUFFICES ASSUME bad # {} PROVE FALSE
    OBVIOUS
  <2>1. PICK n \in bad : \A m \in bad : n <= m
    BY <1>0, LeastNumber
  <2> DEFINE index == last - n
  <2>2. n \in 0 .. Len(nals) /\ index \in 1 .. Len(nals) + 1 /\ ~CarriedFrom(nals, index, U)
    BY <1>0
  <2>3. \A i \in index + 1 .. Len(nals) + 1 : CarriedFrom(nals, i, U)
    <3> TAKE i \in index + 1 .. Len(nals) + 1
    <3> DEFINE m == last - i
    <3>1. m \in 0 .. Len(nals) /\ m < n /\ last - m = i
      BY <1>0, <2>2
    <3>2. ~(m \in bad)
      <4> HIDE DEF bad, m
      <4>. QED  BY <2>1, <2>2, <3>1
    <3>3. CarriedFrom(nals, last - m, U)
      BY <3>1, <3>2
    <3>. QED  BY <3>1, <3>3
  <2>. QED  BY <2>2, <2>3, StepCarried
<1>2. TAKE index \in 1 .. Len(nals) + 1
<1> DEFINE n == last - index
<1>3. n \in 0 .. Len(nals) /\ last - n = index
  BY <1>0
<1>4. ~CarriedFrom(nals, last - n, U) => n \in bad
  BY <1>3
<1> HIDE DEF bad
<1>. QED  BY <1>1, <1>3, <1>4

LEMMA FragmentSize ==
  ASSUME NEW header, NEW data, NEW start, NEW last
  PROVE  PayloadSize(Fragment(header, data, start, last)) = 2 + Len(data)
BY DEF PayloadSize, Fragment

LEMMA FragmentsFit ==
  ASSUME NEW U, NEW nal \in Seq(U), Len(nal) > MaxPayload, NEW k \in 1 .. Len(Fragments(nal))
  PROVE  PayloadSize(Fragments(nal)[k]) \in 1 .. MaxPayload
<1> DEFINE room == MaxPayload - 2
<1> DEFINE data == Tail(nal)
<1> DEFINE x == (k - 1) * room
<1> DEFINE y == Min({k * room, Len(data)})
<1>1. /\ FragmentCount(nal) \in Nat /\ Len(Fragments(nal)) = FragmentCount(nal)
      /\ k \in 1 .. FragmentCount(nal)
  BY FragmentsAre
<1>2. Fragments(nal)[k] = Fragment(Head(nal), SubSeq(data, x + 1, y), k = 1, k = FragmentCount(nal))
  BY <1>1 DEF Fragments, FragmentCount
<1>3. /\ room \in Nat /\ room > 0 /\ nal # <<>> /\ Len(nal) \in Nat
  BY PayloadAssumption
<1>4. data \in Seq(U) /\ Len(data) \in Nat
  BY <1>3, HeadTailProperties
<1>5. k \in Nat /\ k - 1 \in Nat /\ k = (k - 1) + 1
  BY <1>1
<1>6. x \in Nat /\ k * room = x + room
  <2> DEFINE j == k - 1
  <2>1. j \in Nat /\ k = j + 1
    BY <1>5
  <2> HIDE DEF j
  <2>2. j * room \in Nat /\ (j + 1) * room = j * room + room
    BY <2>1, <1>3
  <2>. QED  BY <2>1, <2>2 DEF j
<1>7. y \in Nat /\ y <= x + room /\ y <= Len(data)
  <2> DEFINE a == k * room
  <2> DEFINE b == Len(data)
  <2>1. a \in Nat /\ b \in Nat
    BY <1>3, <1>4, <1>6
  <2> HIDE DEF a, b
  <2>2. Min({a, b}) \in Nat /\ Min({a, b}) <= a /\ Min({a, b}) <= b
    <3>1. a \in Int /\ b \in Int
      BY <2>1
    <3>2. Min({a, b}) \in {a, b} /\ Min({a, b}) <= a /\ Min({a, b}) <= b
      BY <3>1, MinOfTwo
    <3> HIDE DEF y
    <3>. QED  BY <2>1, <3>2
  <2>. QED  BY <2>2, <1>6 DEF a, b
<1> HIDE DEF x, y, data
<1> DEFINE part == SubSeq(data, x + 1, y)
<1>8. Len(part) = IF x + 1 <= y THEN y - (x + 1) + 1 ELSE 0
  <2>1. \A i \in x + 1 .. y : data[i] \in U
    BY <1>4, <1>6, <1>7, ElementOfSeq
  <2> DEFINE m == x + 1
  <2>2. m \in Int /\ y \in Int /\ \A i \in m .. y : data[i] \in U
    BY <2>1, <1>6, <1>7
  <2> HIDE DEF m
  <2>3. Len(SubSeq(data, m, y)) = IF m <= y THEN y - m + 1 ELSE 0
    BY <2>2, <1>4, SubSeqProperties
  <2>. QED  BY <2>3 DEF m
<1>9. Len(part) \in Nat /\ Len(part) <= room
  BY <1>3, <1>6, <1>7, <1>8
<1> HIDE DEF part
<1>10. PayloadSize(Fragments(nal)[k]) = 2 + Len(part)
  <2>1. Fragments(nal)[k] = Fragment(Head(nal), part, k = 1, k = FragmentCount(nal))
    BY <1>2 DEF part
  <2>. QED  BY <2>1, FragmentSize
<1>. QED  BY <1>9, <1>10, PayloadAssumption

LEMMA MarkedSizes ==
  ASSUME NEW U, NEW nals, NEW X \in Seq(BodiesOver(U)), X # <<>>, NEW end,
         \A k \in 1 .. Len(X) : PayloadSize(X[k]) \in 1 .. MaxPayload
  PROVE  /\ WellSized(Marked(nals, X, end)) /\ Len(Marked(nals, X, end)) = Len(X)
         /\ end = Len(nals) + 1 => MarksEnd(Marked(nals, X, end))
<1> DEFINE marked == Marked(nals, X, end)
<1> DEFINE n == Len(X)
<1>1. n \in Nat /\ DOMAIN X = 1 .. n /\ n > 0
  OBVIOUS
<1>2. marked = [k \in 1 .. n |-> [body |-> X[k], marker |-> end = Len(nals) + 1 /\ k = n]]
  BY <1>1 DEF Marked
<1> HIDE DEF marked
<1>3. marked \in Seq(MarkedOver(U))
  BY MarkedAre DEF marked
<1>4. Len(marked) = n
  <2>1. DOMAIN marked = 1 .. n /\ DOMAIN marked = 1 .. Len(marked) /\ Len(marked) \in Nat
    BY <1>2, <1>3, LenProperties
  <2>. QED  BY <2>1, <1>1
<1>5. \A k \in 1 .. n : marked[k].body = X[k] /\ marked[k].marker = (end = Len(nals) + 1 /\ k = n)
  BY <1>2
<1>6. marked # <<>>
  BY <1>1, <1>4
<1> HIDE DEF n
<1>7. WellSized(marked)
  BY <1>4, <1>5 DEF WellSized, n
<1>8. end = Len(nals) + 1 => MarksEnd(marked)
  <2>1. n \in 1 .. n
    BY <1>1
  <2>. QED  BY <2>1, <1>4, <1>5, <1>6 DEF MarksEnd
<1>. QED  BY <1>4, <1>7, <1>8 DEF marked, n

LEMMA BlockSized ==
  ASSUME NEW U, NEW nals \in Seq(Seq(U)), NEW index \in 1 .. Len(nals),
         NEW end \in index + 1 .. Len(nals) + 1,
         NEW X \in Seq(BodiesOver(U)), X # <<>>,
         \A k \in 1 .. Len(X) : PayloadSize(X[k]) \in 1 .. MaxPayload,
         BodiesFrom(nals)[index] = Marked(nals, X, end) \o BodiesFrom(nals)[end],
         SizedFrom(nals, end)
  PROVE  SizedFrom(nals, index)
<1> DEFINE marked == Marked(nals, X, end)
<1> DEFINE rest == BodiesFrom(nals)[end]
<1>1. Len(nals) \in Nat /\ end \in 1 .. Len(nals) + 1
  OBVIOUS
<1>2. marked \in Seq(MarkedOver(U)) /\ rest \in Seq(MarkedOver(U))
  BY <1>1, MarkedAre, EveryCarriedFrom DEF CarriedFrom
<1>3. /\ WellSized(marked) /\ Len(marked) = Len(X)
      /\ end = Len(nals) + 1 => MarksEnd(marked)
  BY MarkedSizes
<1>4. end = Len(nals) + 1 => rest = <<>>
  <2>1. rest = BodiesAt(nals, BodiesFrom(nals), end)
    BY <1>1, FromSteps
  <2>2. end = Len(nals) + 1 => end > Len(nals)
    BY <1>1
  <2> HIDE DEF rest
  <2>. QED  BY <2>1, <2>2 DEF BodiesAt
<1>5. WellSized(rest) /\ (end <= Len(nals) /\ EndsFull(nals) => MarksEnd(rest))
  BY DEF SizedFrom
<1>6. Len(marked) > 0
  BY <1>3
<1> DEFINE M == MarkedOver(U)
<1> DEFINE all == marked \o rest
<1> DEFINE m == Len(marked)
<1> DEFINE n == Len(rest)
<1> HIDE DEF marked, rest, M
<1>7. m \in Nat /\ n \in Nat /\ m > 0
  BY <1>2, <1>6, LenProperties
<1>8. /\ all \in Seq(M) /\ Len(all) = m + n
      /\ \A k \in 1 .. m + n : all[k] = IF k <= m THEN marked[k] ELSE rest[k - m]
  <2>1. marked \in Seq(M) /\ rest \in Seq(M)
    BY <1>2 DEF M
  <2>. QED  BY <2>1, ConcatProperties
<1> HIDE DEF all, m, n
<1>9. WellSized(all)
  <2> SUFFICES ASSUME NEW k \in 1 .. Len(all) PROVE PayloadSize(all[k].body) \in 1 .. MaxPayload
    BY DEF WellSized
  <2>1. CASE k <= m
    <3>1. k \in 1 .. m /\ all[k] = marked[k]
      BY <2>1, <1>7, <1>8
    <3>. QED  BY <3>1, <1>3 DEF WellSized, m
  <2>2. CASE ~(k <= m)
    <3>1. k - m \in 1 .. n /\ all[k] = rest[k - m]
      BY <2>2, <1>7, <1>8
    <3>. QED  BY <3>1, <1>5 DEF WellSized, n
  <2>. QED  BY <2>1, <2>2
<1>10. ASSUME EndsFull(nals)
       PROVE  MarksEnd(all)
  <2>1. all # <<>>
    BY <1>7, <1>8
  <2>2. CASE end = Len(nals) + 1
    <3>1. n = 0
      BY <2>2, <1>4 DEF n
    <3>2. Len(all) = m /\ all[m] = marked[m]
      BY <3>1, <1>7, <1>8
    <3>3. marked[m].marker
      BY <2>2, <1>3 DEF MarksEnd, m
    <3>. QED  BY <2>1, <3>2, <3>3 DEF MarksEnd
  <2>3. CASE end # Len(nals) + 1
    <3>1. MarksEnd(rest)
      <4>1. end <= Len(nals)
        <5> DEFINE size == Len(nals)
        <5>1. size \in Nat /\ end \in 1 .. size + 1 /\ end # size + 1
          BY <2>3, <1>1
        <5> HIDE DEF size
        <5>2. end <= size
          BY <5>1
        <5>. QED  BY <5>2 DEF size
      <4>. QED  BY <4>1, <1>5, <1>10
    <3>2. n > 0
      BY <3>1, <1>2, EmptySeq DEF MarksEnd, n
    <3>3. Len(all) = m + n /\ all[m + n] = rest[n]
      BY <3>2, <1>7, <1>8
    <3>. QED  BY <2>1, <3>1, <3>3 DEF MarksEnd, n
  <2>. QED  BY <2>2, <2>3
<1>11. BodiesFrom(nals)[index] = all
  BY DEF all, marked, rest
<1>. QED  BY <1>9, <1>10, <1>11 DEF SizedFrom

LEMMA OneSized ==
  ASSUME NEW U, NEW nals \in Seq(Seq(U)), NEW index \in 1 .. Len(nals),
         NEW end \in index + 1 .. Len(nals) + 1,
         NEW body \in BodiesOver(U), PayloadSize(body) \in 1 .. MaxPayload,
         BodiesFrom(nals)[index] = Marked(nals, <<body>>, end) \o BodiesFrom(nals)[end],
         SizedFrom(nals, end)
  PROVE  SizedFrom(nals, index)
<1> DEFINE B == BodiesOver(U)
<1> DEFINE X == <<body>>
<1>1. X \in Seq(B) /\ Len(X) = 1 /\ X # <<>> /\ X[1] = body
  <2> HIDE DEF B
  <2>1. body \in B
    BY DEF B
  <2>. QED  BY <2>1
<1>2. \A k \in 1 .. Len(X) : PayloadSize(X[k]) \in 1 .. MaxPayload
  BY <1>1
<1> HIDE DEF X
<1>3. BodiesFrom(nals)[index] = Marked(nals, X, end) \o BodiesFrom(nals)[end]
  BY DEF X
<1>. QED  BY <1>1, <1>2, <1>3, BlockSized DEF B

LEMMA StepSized ==
  ASSUME NEW U, NEW nals \in Seq(Seq(U)), NEW index \in 1 .. Len(nals) + 1,
         \A i \in index + 1 .. Len(nals) + 1 : SizedFrom(nals, i)
  PROVE  SizedFrom(nals, index)
<1> DEFINE from == BodiesFrom(nals)
<1>1. Len(nals) \in Nat /\ index \in Nat
  OBVIOUS
<1>2. from[index] = BodiesAt(nals, from, index)
  BY <1>1, FromSteps
<1>3. CASE index > Len(nals)
  <2>1. from[index] = <<>>
    BY <1>2, <1>3 DEF BodiesAt
  <2>2. WellSized(<<>>)
    <3>1. Len(<<>>) = 0 /\ 1 .. 0 = {}
      OBVIOUS
    <3>. QED  BY <3>1 DEF WellSized
  <2>3. ~(index <= Len(nals))
    BY <1>1, <1>3
  <2>. QED  BY <2>1, <2>2, <2>3 DEF SizedFrom
<1>4. CASE ~(index > Len(nals))
  <2> DEFINE nal == nals[index]
  <2>1. /\ index \in 1 .. Len(nals) /\ index + 1 \in index + 1 .. Len(nals) + 1
        /\ nal \in Seq(U)
    BY <1>4, <1>1, ElementOfSeq
  <2>2. SizedFrom(nals, index + 1)
    BY <2>1
  <2>3. CASE nal = <<>>
    <3>1. from[index] = from[index + 1]
      BY <1>2, <1>4, <2>3 DEF BodiesAt
    <3>2. EndsFull(nals) => index + 1 <= Len(nals)
      <4>1. nals # <<>>
        BY <2>1, EmptySeq
      <4>2. EndsFull(nals) => index # Len(nals)
        BY <4>1, <2>3 DEF EndsFull
      <4>. QED  BY <4>2, <2>1, <1>1
    <3>. QED  BY <3>1, <3>2, <2>2 DEF SizedFrom
  <2>4. CASE nal # <<>>
    <3> DEFINE end == RunEnd(nals, index)
    <3>3. CASE end > index + 1
      <4> DEFINE some == SubSeq(nals, index, end - 1)
      <4> DEFINE body == Aggregate(some)
      <4>1. end \in index + 1 .. Len(nals) + 1 /\ AggregateSize(some) <= MaxPayload
        BY <2>1, <1>1, <3>3, RunEndIs
      <4>2. from[index] = Marked(nals, <<body>>, end) \o from[end]
        BY <1>2, <1>4, <2>4, <3>3 DEF BodiesAt
      <4>3. some \in Seq(Seq(U))
        <5>1. \A i \in index .. end - 1 : nals[i] \in Seq(U)
          BY <4>1, <2>1, ElementOfSeq
        <5>2. end - 1 \in Int /\ index <= end - 1 /\ end \in Int
          BY <4>1
        <5> HIDE DEF end
        <5>. QED  BY <5>1, <5>2, <1>1, SubSeqProperties
      <4>4. SizedFrom(nals, end)
        BY <4>1
      <4> HIDE DEF some, end
      <4>5. body \in BodiesOver(U)
        BY <4>3 DEF Aggregate, BodiesOver
      <4>6. PayloadSize(body) \in 1 .. MaxPayload
        <5>1. PayloadSize(body) = 1 + 2 * Len(some) + TotalUnits(some)
          BY DEF PayloadSize, Aggregate
        <5>2. Len(some) \in Nat /\ TotalUnits(some) \in Nat
          <6>1. Len(some) \in Nat /\ Len(some) \in 0 .. Len(some)
            BY <4>3, LenProperties
          <6>. QED  BY <6>1, <4>3, UnitsSteps
        <5>3. 1 + 2 * Len(some) + TotalUnits(some) <= MaxPayload
          BY <4>1 DEF AggregateSize
        <5> DEFINE x == Len(some)
        <5> DEFINE y == TotalUnits(some)
        <5> HIDE DEF x, y, body
        <5>4. x \in Nat /\ y \in Nat /\ PayloadSize(body) = 1 + 2 * x + y /\ 1 + 2 * x + y <= MaxPayload
          BY <5>1, <5>2, <5>3 DEF x, y
        <5>. QED  BY <5>4, PayloadAssumption
      <4> HIDE DEF body
      <4>. QED  BY <2>1, <4>1, <4>2, <4>4, <4>5, <4>6, OneSized
    <3>4. CASE ~(end > index + 1) /\ Len(nal) <= MaxPayload
      <4> DEFINE body == Single(nal)
      <4>1. from[index] = Marked(nals, <<body>>, index + 1) \o from[index + 1]
        BY <1>2, <1>4, <2>4, <3>4 DEF BodiesAt
      <4>2. Len(nal) \in Nat /\ Len(nal) > 0
        BY <2>1, <2>4, EmptySeq, LenProperties
      <4>3. body \in BodiesOver(U) /\ PayloadSize(body) = Len(nal)
        <5> HIDE DEF nal
        <5>1. <<nal>> \in Seq(Seq(U)) /\ <<nal>>[1] = nal
          BY <2>1
        <5>. QED  BY <5>1 DEF Single, BodiesOver, PayloadSize
      <4>4. PayloadSize(body) \in 1 .. MaxPayload
        BY <4>2, <4>3, <3>4, PayloadAssumption
      <4> HIDE DEF body
      <4>. QED  BY <2>1, <2>2, <4>1, <4>3, <4>4, OneSized
    <3>5. CASE ~(end > index + 1) /\ ~(Len(nal) <= MaxPayload)
      <4>1. from[index] = Marked(nals, Fragments(nal), index + 1) \o from[index + 1]
        BY <1>2, <1>4, <2>4, <3>5 DEF BodiesAt
      <4>2. Len(nal) > MaxPayload
        BY <3>5, <2>1, PayloadAssumption
      <4> HIDE DEF nal
      <4>3. /\ Fragments(nal) \in Seq(BodiesOver(U))
            /\ Len(Fragments(nal)) = FragmentCount(nal) /\ FragmentCount(nal) > 0
        BY <2>1, <4>2, FragmentsAre
      <4>4. Fragments(nal) # <<>>
        BY <4>3
      <4>5. \A k \in 1 .. Len(Fragments(nal)) : PayloadSize(Fragments(nal)[k]) \in 1 .. MaxPayload
        BY <2>1, <4>2, FragmentsFit
      <4>. QED  BY <2>1, <2>2, <4>1, <4>3, <4>4, <4>5, BlockSized
    <3>. QED  BY <3>3, <3>4, <3>5
  <2>. QED  BY <2>3, <2>4
<1>. QED  BY <1>3, <1>4

LEMMA PacketsAreSized ==
  ASSUME NEW U, NEW nals \in Seq(Seq(U))
  PROVE  /\ WellSized(Bodies(nals))
         /\ nals # <<>> /\ EndsFull(nals) => MarksEnd(Bodies(nals))
<1> DEFINE last == Len(nals) + 1
<1> DEFINE bad == {n \in 0 .. Len(nals) : ~SizedFrom(nals, last - n)}
<1>0. Len(nals) \in Nat /\ bad \subseteq Nat
  OBVIOUS
<1>1. bad = {}
  <2> SUFFICES ASSUME bad # {} PROVE FALSE
    OBVIOUS
  <2>1. PICK n \in bad : \A m \in bad : n <= m
    BY <1>0, LeastNumber
  <2> DEFINE index == last - n
  <2>2. n \in 0 .. Len(nals) /\ index \in 1 .. Len(nals) + 1 /\ ~SizedFrom(nals, index)
    BY <1>0
  <2>3. \A i \in index + 1 .. Len(nals) + 1 : SizedFrom(nals, i)
    <3> TAKE i \in index + 1 .. Len(nals) + 1
    <3> DEFINE m == last - i
    <3>1. m \in 0 .. Len(nals) /\ m < n /\ last - m = i
      BY <1>0, <2>2
    <3>2. ~(m \in bad)
      <4> HIDE DEF bad, m
      <4>. QED  BY <2>1, <2>2, <3>1
    <3>3. SizedFrom(nals, last - m)
      BY <3>1, <3>2
    <3>. QED  BY <3>1, <3>3
  <2>. QED  BY <2>2, <2>3, StepSized
<1>2. SizedFrom(nals, 1)
  <2>1. Len(nals) \in 0 .. Len(nals) /\ last - Len(nals) = 1
    BY <1>0
  <2>2. ~SizedFrom(nals, last - Len(nals)) => Len(nals) \in bad
    BY <2>1
  <2> HIDE DEF bad
  <2>. QED  BY <1>1, <2>1, <2>2
<1>3. nals # <<>> => 1 <= Len(nals)
  BY <1>0, EmptySeq
<1>. QED  BY <1>2, <1>3, BodiesAreFrom DEF SizedFrom

-----------------------------------------------------------------------------
(* The packets of an access unit differ: no other one is as the last one.  *)

\* The header of NAL n, when the NALs are those of an access unit.
Headed(nals) == \A n \in DOMAIN nals : nals[n] # <<>> => nals[n][1][2] = n

OrderedFrom(nals, index) ==
    LET kept == KeptFrom(nals)[index]
    IN  /\ \A i \in 1 .. Len(kept) : kept[i][1][2] \in index .. Len(nals)
        /\ \A i, j \in 1 .. Len(kept) : i < j => kept[i][1][2] < kept[j][1][2]

DistinctHeads(W) == \A i, j \in 1 .. Len(W) : W[i][1] = W[j][1] => i = j

LEMMA StepOrdered ==
  ASSUME NEW U, NEW nals \in Seq(Seq(U)), Headed(nals), NEW index \in 1 .. Len(nals) + 1,
         index <= Len(nals) => OrderedFrom(nals, index + 1)
  PROVE  OrderedFrom(nals, index)
<1> DEFINE kept == KeptFrom(nals)
<1>1. Len(nals) \in Nat /\ index \in Nat
  OBVIOUS
<1>2. kept[index] = KeptAt(nals, kept, index)
  BY <1>1, FromSteps
<1>3. CASE index > Len(nals)
  <2>1. kept[index] = <<>>
    BY <1>2, <1>3 DEF KeptAt
  <2>2. Len(<<>>) = 0 /\ 1 .. 0 = {}
    OBVIOUS
  <2>. QED  BY <2>1, <2>2 DEF OrderedFrom
<1>4. CASE ~(index > Len(nals))
  <2> DEFINE nal == nals[index]
  <2> DEFINE rest == kept[index + 1]
  <2>1. index \in 1 .. Len(nals) /\ index + 1 \in 1 .. Len(nals) + 1 /\ nal \in Seq(U)
    BY <1>4, <1>1, ElementOfSeq
  <2>2. /\ \A i \in 1 .. Len(rest) : rest[i][1][2] \in index + 1 .. Len(nals)
        /\ \A i, j \in 1 .. Len(rest) : i < j => rest[i][1][2] < rest[j][1][2]
    BY <1>1, <1>4 DEF OrderedFrom
  <2>3. CASE nal = <<>>
    <3>1. kept[index] = rest
      BY <1>2, <1>4, <2>3 DEF KeptAt
    <3>2. \A i \in 1 .. Len(rest) : rest[i][1][2] \in index .. Len(nals)
      BY <2>2, <1>1, SMTT(60)
    <3>. QED  BY <3>1, <3>2, <2>2 DEF OrderedFrom
  <2>4. CASE nal # <<>>
    <3> DEFINE all == <<nal>> \o rest
    <3> DEFINE S == Seq(U)
    <3> DEFINE n == Len(rest)
    <3>1. kept[index] = all
      BY <1>2, <1>4, <2>4 DEF KeptAt
    <3>2. nal[1][2] = index
      BY <2>1, <2>4 DEF Headed
    <3>3. rest \in Seq(S)
      <4>1. rest \in Seq(Seq(U) \ {<<>>})
        BY <2>1, KeptIsTyped
      <4>. QED  BY <4>1
    <3> HIDE DEF S, rest, nal
    <3>4. /\ n \in Nat /\ Len(all) = n + 1 /\ all[1] = nal
          /\ \A i \in 1 .. n + 1 : i # 1 => i - 1 \in 1 .. n /\ all[i] = rest[i - 1]
      <4>1. nal \in S
        BY <2>1 DEF S
      <4>2. <<nal>> \in Seq(S) /\ Len(<<nal>>) = 1 /\ <<nal>>[1] = nal
        BY <4>1
      <4>. QED  BY <3>3, <4>2, ConcatProperties, LenProperties
    <3> HIDE DEF all, n
    <3>5. \A i \in 1 .. n + 1 : all[i][1][2] \in index .. Len(nals)
      <4> TAKE i \in 1 .. n + 1
      <4>1. CASE i = 1
        BY <4>1, <3>2, <3>4, <2>1, SMTT(60)
      <4>2. CASE i # 1
        <5>1. i - 1 \in 1 .. n /\ all[i] = rest[i - 1]
          BY <4>2, <3>4
        <5>2. rest[i - 1][1][2] \in index + 1 .. Len(nals)
          BY <5>1, <2>2 DEF n
        <5>. QED  BY <5>1, <5>2, <1>1, SMTT(60)
      <4>. QED  BY <4>1, <4>2
    <3>6. ASSUME NEW i \in 1 .. n + 1, NEW j \in 1 .. n + 1, i < j
          PROVE  all[i][1][2] < all[j][1][2]
      <4>1. j # 1 /\ j - 1 \in 1 .. n /\ all[j] = rest[j - 1]
        BY <3>4, <3>6
      <4>2. CASE i = 1
        <5>1. rest[j - 1][1][2] \in index + 1 .. Len(nals)
          BY <4>1, <2>2 DEF n
        <5> DEFINE x == rest[j - 1][1][2]
        <5>2. all[i][1][2] = index /\ all[j][1][2] = x
          BY <4>1, <4>2, <3>2, <3>4
        <5> HIDE DEF x
        <5>. QED  BY <5>1, <5>2, <1>1 DEF x
      <4>3. CASE i # 1
        <5>1. i - 1 \in 1 .. n /\ all[i] = rest[i - 1] /\ i - 1 < j - 1
          BY <4>3, <3>4, <3>6
        <5>. QED  BY <5>1, <4>1, <2>2 DEF n
      <4>. QED  BY <4>2, <4>3
    <3>. QED  BY <3>1, <3>4, <3>5, <3>6 DEF OrderedFrom
  <2>. QED  BY <2>3, <2>4
<1>. QED  BY <1>3, <1>4

LEMMA KeptAreDistinct ==
  ASSUME NEW U, NEW nals \in Seq(Seq(U)), Headed(nals)
  PROVE  DistinctHeads(Kept(nals))
<1> DEFINE last == Len(nals) + 1
<1> DEFINE bad == {n \in 0 .. Len(nals) : ~OrderedFrom(nals, last - n)}
<1>0. Len(nals) \in Nat /\ bad \subseteq Nat
  OBVIOUS
<1>1. bad = {}
  <2> SUFFICES ASSUME bad # {} PROVE FALSE
    OBVIOUS
  <2>1. PICK n \in bad : \A m \in bad : n <= m
    BY <1>0, LeastNumber
  <2> DEFINE index == last - n
  <2>2. n \in 0 .. Len(nals) /\ index \in 1 .. Len(nals) + 1 /\ ~OrderedFrom(nals, index)
    BY <1>0
  <2>3. index <= Len(nals) => OrderedFrom(nals, index + 1)
    <3> SUFFICES ASSUME index <= Len(nals) PROVE OrderedFrom(nals, index + 1)
      OBVIOUS
    <3> DEFINE m == n - 1
    <3>1. m \in 0 .. Len(nals) /\ ~(n <= m) /\ last - m = index + 1
      BY <1>0, <2>2
    <3>2. ~(m \in bad)
      <4> HIDE DEF bad, m
      <4>. QED  BY <2>1, <2>2, <3>1
    <3>3. OrderedFrom(nals, last - m)
      BY <3>1, <3>2
    <3>. QED  BY <3>1, <3>3
  <2>. QED  BY <2>2, <2>3, StepOrdered
<1>2. OrderedFrom(nals, 1)
  <2>1. Len(nals) \in 0 .. Len(nals) /\ last - Len(nals) = 1
    BY <1>0
  <2>2. ~OrderedFrom(nals, last - Len(nals)) => Len(nals) \in bad
    BY <2>1
  <2> HIDE DEF bad
  <2>. QED  BY <1>1, <2>1, <2>2
<1> DEFINE W == Kept(nals)
<1>3. /\ \A i \in 1 .. Len(W) : W[i][1][2] \in 1 .. Len(nals)
      /\ \A i, j \in 1 .. Len(W) : i < j => W[i][1][2] < W[j][1][2]
  BY <1>2, BodiesAreFrom DEF OrderedFrom
<1>4. Len(W) \in Nat
  BY KeptIsTyped, BodiesAreFrom, LenProperties
<1> HIDE DEF W
<1>5. ASSUME NEW i \in 1 .. Len(W), NEW j \in 1 .. Len(W), W[i][1] = W[j][1]
      PROVE  i = j
  <2>1. W[i][1][2] = W[j][1][2] /\ W[i][1][2] \in 1 .. Len(nals)
    BY <1>3, <1>5
  <2>2. ~(i < j)
    BY <1>0, <1>3, <2>1
  <2>3. ~(j < i)
    BY <1>0, <1>3, <2>1
  <2>. QED  BY <2>2, <2>3
<1>. QED  BY <1>5 DEF DistinctHeads, W

LEMMA LastDiffers ==
  ASSUME NEW U, NEW W \in Seq(Seq(U)), DistinctHeads(W), NEW bodies, Len(bodies) \in Nat,
         NEW place, Carried(bodies, W, place), NEW k \in 1 .. Len(bodies), k # Len(bodies)
  PROVE  bodies[k].body # bodies[Len(bodies)].body
<1> DEFINE n == Len(bodies)
<1> DEFINE body == bodies[n].body
<1> DEFINE p == place[n - 1]
<1> DEFINE r == place[k - 1]
<1> DEFINE t == place[k]
<1> SUFFICES ASSUME bodies[k].body = body PROVE FALSE
  OBVIOUS
<1>1. /\ p \in Places /\ r \in Places /\ t \in Places /\ place[n] = Place(Len(W), 0)
      /\ Carries(body, W, p, Place(Len(W), 0)) /\ Carries(body, W, r, t)
      /\ t.nals < Len(W)
  <2>1. n \in 1 .. n /\ k + 1 \in 1 .. n /\ (k + 1) - 1 = k /\ n - 1 \in 0 .. n /\ k - 1 \in 0 .. n /\ k \in 0 .. n
    OBVIOUS
  <2>2. Carries(bodies[k + 1].body, W, place[(k + 1) - 1], place[k + 1])
    BY <2>1 DEF Carried
  <2>3. t.nals < Len(W)
    BY <2>1, <2>2 DEF Carries
  <2>. QED  BY <2>1, <2>3 DEF Carried
<1> DEFINE q == Place(Len(W), 0)
<1>2. q.nals = Len(W) /\ q.units = 0
  BY DEF Place
<1>3. Carries(body, W, p, q) /\ Carries(body, W, r, t)
  BY <1>1
<1> HIDE DEF p, q, r, t, body, n
<1>4. Len(W) \in Nat /\ p.nals \in Nat /\ r.nals \in Nat /\ t.nals \in Nat /\ p.units \in Nat /\ t.nals < Len(W)
  BY <1>1, LenProperties DEF Places
<1>5. p.nals < Len(W) /\ r.nals < Len(W) /\ body.kind \in {"single", "stap", "fu"}
  BY <1>3 DEF Carries
<1>6. CASE body.kind # "fu"
  <2>1. /\ r.nals < t.nals /\ body.nals = SubSeq(W, p.nals + 1, Len(W))
        /\ body.nals = SubSeq(W, r.nals + 1, t.nals)
    BY <1>2, <1>3, <1>6 DEF Carries
  <2>5. r.nals < t.nals
    BY <2>1
  <2> DEFINE S == Seq(U)
  <2> DEFINE x == SubSeq(W, p.nals + 1, Len(W))
  <2> DEFINE y == SubSeq(W, r.nals + 1, t.nals)
  <2>2. /\ Len(x) = Len(W) - p.nals /\ x[Len(W) - p.nals] = W[Len(W)]
        /\ Len(y) = t.nals - r.nals /\ y[t.nals - r.nals] = W[t.nals]
    <3> HIDE DEF S
    <3>1. W \in Seq(S)
      BY DEF S
    <3> DEFINE m == Len(W)
    <3> DEFINE a == p.nals
    <3> DEFINE b == r.nals
    <3> DEFINE c == t.nals
    <3>2. m \in Nat /\ a \in Nat /\ b \in Nat /\ c \in Nat /\ a < m /\ b < c /\ c < m
      BY <1>4, <1>5, <2>5
    <3>3. \A i \in 1 .. m : W[i] \in S
      BY <3>1, ElementOfSeq
    <3> HIDE DEF m, a, b, c
    <3>4. /\ \A i \in a + 1 .. m : W[i] \in S
          /\ \A i \in b + 1 .. c : W[i] \in S
      BY <3>2, <3>3
    <3> DEFINE a1 == a + 1
    <3> DEFINE b1 == b + 1
    <3>5. a1 \in Int /\ b1 \in Int /\ a1 <= m /\ b1 <= c /\ m \in Int /\ c \in Int
      BY <3>2
    <3>6. /\ \A i \in a1 .. m : W[i] \in S
          /\ \A i \in b1 .. c : W[i] \in S
      BY <3>4
    <3> HIDE DEF a1, b1
    <3>7. /\ Len(SubSeq(W, a1, m)) = m - a1 + 1
          /\ \A i \in 1 .. m - a1 + 1 : SubSeq(W, a1, m)[i] = W[a1 + i - 1]
          /\ Len(SubSeq(W, b1, c)) = c - b1 + 1
          /\ \A i \in 1 .. c - b1 + 1 : SubSeq(W, b1, c)[i] = W[b1 + i - 1]
      BY <3>5, <3>6, SubSeqProperties
    <3>8. /\ m - a1 + 1 = m - a /\ m - a \in 1 .. m - a /\ a1 + (m - a) - 1 = m
          /\ c - b1 + 1 = c - b /\ c - b \in 1 .. c - b /\ b1 + (c - b) - 1 = c
      BY <3>2 DEF a1, b1
    <3>9. /\ Len(SubSeq(W, a1, m)) = m - a /\ SubSeq(W, a1, m)[m - a] = W[m]
          /\ Len(SubSeq(W, b1, c)) = c - b /\ SubSeq(W, b1, c)[c - b] = W[c]
      BY <3>7, <3>8
    <3>. QED  BY <3>9 DEF a, b, c, m, a1, b1
  <2>3. W[Len(W)] = W[t.nals]
    <3>1. x = y
      BY <2>1
    <3> HIDE DEF x, y
    <3>. QED  BY <2>2, <3>1
  <2>4. Len(W) = t.nals
    <3>1. Len(W) \in 1 .. Len(W) /\ t.nals \in 1 .. Len(W)
      BY <1>4, <2>5
    <3>. QED  BY <2>3, <3>1 DEF DistinctHeads
  <2>. QED  BY <2>4, <1>4
<1>7. CASE body.kind = "fu"
  <2>1. body.header = W[p.nals + 1][1] /\ body.header = W[r.nals + 1][1]
    BY <1>3, <1>7 DEF Carries
  <2>2. p.nals = r.nals
    <3>1. p.nals + 1 \in 1 .. Len(W) /\ r.nals + 1 \in 1 .. Len(W)
      BY <1>4, <1>5, SMTT(60)
    <3>2. p.nals + 1 = r.nals + 1
      BY <2>1, <3>1 DEF DistinctHeads
    <3>. QED  BY <3>2, <1>4, SMTT(60)
  <2>3. body.last
    <3> SUFFICES ASSUME ~body.last PROVE FALSE
      OBVIOUS
    <3>1. PICK end \in p.units + 1 .. Len(W[p.nals + 1]) : q = Place(p.nals, end)
      BY <1>3, <1>7 DEF Carries
    <3>2. q.nals = p.nals
      BY <3>1 DEF Place
    <3>. QED  BY <3>2, <1>2, <1>4, <1>5
  <2>4. q = Place(p.nals + 1, 0) /\ t = Place(r.nals + 1, 0)
    BY <1>3, <1>7, <2>3 DEF Carries
  <2>5. q.nals = p.nals + 1 /\ t.nals = r.nals + 1
    BY <2>4 DEF Place
  <2>. QED  BY <2>2, <2>5, <1>2, <1>4
<1>. QED  BY <1>6, <1>7

-----------------------------------------------------------------------------
(* The packets of these senders are well formed.                           *)

LEMMA OwnDatagram ==
  \A p, size : /\ Datagram(p, size, Ssrc, OwnDressing).size = size
               /\ Datagram(p, size, Ssrc, OwnDressing).padding = <<>>
<1> TAKE p, size
<1> DEFINE d == Datagram(p, size, Ssrc, OwnDressing)
<1> DEFINE header == <<128 + FlagOf(OwnDressing.padding > 0, 32) + FlagOf(OwnDressing.extension, 16)
              + OwnDressing.csrcs, FlagOf(p.marker, 128) + H264PayloadType>>
        \o Octets16(p.sequence) \o Octets32(p.timestamp) \o Ssrc
        \o Zeros(4 * OwnDressing.csrcs)
        \o (IF OwnDressing.extension THEN Extension(OwnDressing, p.marker, p.captureTime) ELSE <<>>)
<1> DEFINE padding == IF OwnDressing.padding = 0 THEN <<>>
                      ELSE Zeros(OwnDressing.padding - 1) \o <<OwnDressing.padding>>
<1>1. OwnDressing.padding = 0
  BY DEF OwnDressing
<1>2. d = [header |-> header, size |-> size, padding |-> padding]
  BY DEF Datagram
<1>3. padding = <<>>
  BY <1>1
<1> HIDE DEF header, padding, d
<1>4. d.size = size /\ d.padding = <<>>
  BY <1>2, <1>3
<1>. QED  BY <1>4 DEF d

LEMMA OwnIsValid ==
  ASSUME NEW p, Fits(p), NEW d, HeaderOctets(d.header, p), NEW size \in Nat, size > 0,
         d.size = size, d.padding = <<>>
  PROVE  IsH264(d) /\ Len(d.header) = 28 /\ Parse(d).begin = 28 /\ Parse(d).end = 28 + size
<1>1. /\ Octet(d, 0) = 144 /\ Flagged(d, 16) /\ SourcesEnd(d) = 12
      /\ Read16(d, 12) = CaptureTimeProfile /\ ExtensionBegin(d) = 16 /\ ExtensionEnd(d) = 28
  BY OwnOffsets, ZenonT(60)
<1>2. ReadElements(d).valid = TRUE
  BY OwnElementsRead, Zenon
<1>3. Len(d.header) = 28
  BY DEF HeaderOctets
<1>4. DatagramSize(d) = 28 + size
  <2>1. Len(d.padding) = 0
    OBVIOUS
  <2>2. 28 + size + 0 = 28 + size
    OBVIOUS
  <2>. QED  BY <2>1, <2>2, <1>3 DEF DatagramSize
<1>5. ~Flagged(d, 32)
  <2>1. (144 \div 32) % 2 = 0
    BY SMT
  <2>. QED  BY <2>1, <1>1 DEF Flagged
<1>6. PaddingSize(d) = 0
  BY <1>5 DEF PaddingSize
<1> DEFINE r == ReadElements(d)
<1> HIDE DEF r
<1>7. ReadExtension(d) = [valid |-> r.valid, times |-> r.times, end |-> ExtensionEnd(d)]
  <2>1. ~(ExtensionBegin(d) > DatagramSize(d) \/ ExtensionEnd(d) > DatagramSize(d))
    BY <1>1, <1>4
  <2>. QED  BY <2>1, <1>1, Zenon DEF ReadExtension, r
<1>8. ReadExtension(d).valid = TRUE /\ ReadExtension(d).end = 28
  <2>1. r.valid = TRUE
    BY <1>2 DEF r
  <2>. QED  BY <2>1, <1>7, <1>1
<1>9. Octet(d, 0) \div 64 = 2
  <2>1. 144 \div 64 = 2
    BY SMT
  <2>. QED  BY <2>1, <1>1
<1>10. Octet(d, 1) % 128 = 96
  <2>1. Octet(d, 1) = (IF p.marker THEN 224 ELSE 96)
    <3>1. 1 + 1 = 2
      OBVIOUS
    <3>. QED  BY <3>1 DEF HeaderOctets, Octet
  <2>2. 224 % 128 = 96 /\ 96 % 128 = 96
    BY SMT
  <2>. QED  BY <2>1, <2>2
<1>11. HasValidHeader(d)
  <2>1. DatagramSize(d) >= BaseHeader /\ SourcesEnd(d) <= DatagramSize(d)
        /\ ReadExtension(d).end < DatagramSize(d) - PaddingSize(d)
    BY <1>1, <1>4, <1>6, <1>8 DEF BaseHeader
  <2>. QED  BY <2>1, <1>5, <1>8, <1>9 DEF HasValidHeader
<1>12. /\ Parse(d).payloadType = Octet(d, 1) % 128 /\ Parse(d).begin = ReadExtension(d).end
       /\ Parse(d).end = DatagramSize(d) - PaddingSize(d)
  BY DEF Parse
<1>13. (28 + size) - 0 = 28 + size
  OBVIOUS
<1>14. Parse(d).payloadType = H264PayloadType
  BY <1>10, <1>12 DEF H264PayloadType
<1>. QED  BY <1>3, <1>4, <1>6, <1>8, <1>11, <1>12, <1>13, <1>14 DEF IsH264

\* No access unit ends with an empty NAL, which packetize passes over with its marker.
ClosedUnits ==
    \A session \in Sessions : \A a \in DOMAIN session.units :
       session.units[a] # <<>> => session.units[a][Len(session.units[a])].size > 0

LEMMA UnitsAreHeaded ==
  ASSUME NEW s, IsStream(s), NEW a \in 1 .. Len(s)
  PROVE  /\ Headed(UnitsOf(s, a)) /\ Len(UnitsOf(s, a)) = Len(s[a])
         /\ s[a] # <<>> /\ s[a][Len(s[a])].size > 0 => EndsFull(UnitsOf(s, a))
         /\ UnitsOf(s, a) # <<>> => s[a] # <<>>
<1> DEFINE unit == s[a]
<1> DEFINE R == [type : STRING, size : Nat]
<1> DEFINE Q == Seq(R)
<1> DEFINE nals == UnitsOf(s, a)
<1>1. unit \in Seq(R)
  <2>1. s \in Seq(Q)
    BY DEF IsStream
  <2> HIDE DEF Q
  <2>2. unit \in Q
    BY <2>1, ElementOfSeq
  <2>. QED  BY <2>2 DEF Q
<1>2. nals \in Seq(Seq(UnitIds))
  BY UnitsAre
<1>3. nals = [n \in DOMAIN unit |-> [i \in 1 .. unit[n].size |-> <<a, n, i>>]]
  BY DEF UnitsOf
<1> HIDE DEF unit, nals
<1>4. DOMAIN unit = 1 .. Len(unit) /\ Len(unit) \in Nat /\ DOMAIN nals = 1 .. Len(nals) /\ Len(nals) \in Nat
  BY <1>1, <1>2, LenProperties
<1>5. DOMAIN nals = DOMAIN unit
  BY <1>3
<1>6. Len(nals) = Len(unit)
  <2> DEFINE x == Len(nals)
  <2> DEFINE y == Len(unit)
  <2>1. x \in Nat /\ y \in Nat /\ \A i \in Nat : i \in 1 .. x <=> i \in 1 .. y
    BY <1>4, <1>5
  <2> HIDE DEF x, y
  <2>2. ~(x < y)
    <3>1. x < y => y \in 1 .. y /\ y \notin 1 .. x
      BY <2>1
    <3>. QED  BY <2>1, <3>1
  <2>3. ~(y < x)
    <3>1. y < x => x \in 1 .. x /\ x \notin 1 .. y
      BY <2>1
    <3>. QED  BY <2>1, <3>1
  <2>. QED  BY <2>1, <2>2, <2>3 DEF x, y
<1>7. ASSUME NEW n \in 1 .. Len(unit)
      PROVE  /\ nals[n] # <<>> => nals[n][1][2] = n
             /\ unit[n].size > 0 => nals[n] # <<>>
  <2> DEFINE z == unit[n].size
  <2>1. z \in Nat
    <3>1. unit[n] \in R
      BY <1>1, ElementOfSeq
    <3>. QED  BY <3>1
  <2>2. nals[n] = [i \in 1 .. z |-> <<a, n, i>>]
    BY <1>3, <1>4
  <2> HIDE DEF z
  <2>3. z > 0 => 1 \in DOMAIN nals[n] /\ nals[n][1] = <<a, n, 1>>
    BY <2>1, <2>2
  <2>4. z = 0 => nals[n] = <<>>
    <3> SUFFICES ASSUME z = 0 PROVE nals[n] = <<>>
      OBVIOUS
    <3>1. 1 .. z = {}
      BY <2>1
    <3>2. \A f \in [{} -> {}] : f = <<>>
      OBVIOUS
    <3>3. nals[n] \in [{} -> {}]
      BY <2>2, <3>1
    <3>. QED  BY <3>2, <3>3
  <2>5. 1 \in DOMAIN nals[n] => nals[n] # <<>>
    OBVIOUS
  <2>. QED  BY <2>1, <2>3, <2>4, <2>5 DEF z
<1>8. Headed(nals)
  BY <1>4, <1>5, <1>7 DEF Headed
<1>9. unit # <<>> /\ unit[Len(unit)].size > 0 => EndsFull(nals)
  <2>1. unit # <<>> => Len(unit) \in 1 .. Len(unit)
    BY <1>1, <1>4, EmptySeq
  <2>. QED  BY <2>1, <1>6, <1>7 DEF EndsFull
<1>10. nals # <<>> => unit # <<>>
  <2>1. nals # <<>> => Len(nals) # 0
    BY <1>2, EmptySeq
  <2>2. unit = <<>> => Len(unit) = 0
    BY <1>1, EmptySeq
  <2>. QED  BY <2>1, <2>2, <1>6
<1>. QED  BY <1>6, <1>8, <1>9, <1>10 DEF unit, nals

\* What a packet under way is.
LEMMA PacketFacts ==
  ASSUME TransportInv, NEW first, Sent(first), NEW k \in DOMAIN channel
  PROVE  \E a \in 1 .. auCount : \E j \in 1 .. Len(Bodies(UnitsOf(stream, a))) :
            /\ channel[k].timestamp = a /\ a \in Nat /\ a \in 1 .. Len(stream) /\ a <= Len(stream)
            /\ channel[k].marker = Bodies(UnitsOf(stream, a))[j].marker
            /\ channel[k].marker \in BOOLEAN
            /\ channel[k].body = Bodies(UnitsOf(stream, a))[j].body
            /\ channel[k].sequence = (first[a] + j - 1) % SequenceSpace
            /\ channel[k].sequence \in Nat /\ channel[k].sequence < 65536
<1>1. PICK a \in 1 .. auCount : \E j \in DOMAIN Bodies(UnitsOf(stream, a)) :
              channel[k] = PacketOf(stream, a, first[a], j)
  BY TakenFromChannel
<1>2. PICK j \in DOMAIN Bodies(UnitsOf(stream, a)) : channel[k] = PacketOf(stream, a, first[a], j)
  BY <1>1
<1>3. a \in 1 .. Len(stream) /\ a \in Nat /\ a <= Len(stream)
  <2>1. Len(stream) \in Nat /\ auCount \in 0 .. Len(stream)
    BY StreamIs DEF TransportInv
  <2>. QED  BY <2>1
<1> DEFINE bodies == Bodies(UnitsOf(stream, a))
<1> DEFINE M == MarkedOver(UnitIds)
<1>4. bodies \in Seq(M)
  BY <1>3, StreamIs, UnitIsCarried
<1> HIDE DEF M, bodies
<1>5. j \in 1 .. Len(bodies) /\ j \in Nat
  <2>1. DOMAIN bodies = 1 .. Len(bodies) /\ Len(bodies) \in Nat
    BY <1>4, LenProperties
  <2>2. j \in 1 .. Len(bodies)
    BY <1>2, <2>1 DEF bodies
  <2>. QED  BY <2>1, <2>2
<1>6. bodies[j].marker \in BOOLEAN
  <2>1. bodies[j] \in M
    BY <1>4, <1>5, ElementOfSeq
  <2>. QED  BY <2>1 DEF M, MarkedOver
<1> DEFINE c == channel[k]
<1>7. /\ c.sequence = (first[a] + j - 1) % SequenceSpace /\ c.timestamp = a
      /\ c.marker = bodies[j].marker /\ c.body = bodies[j].body
  BY <1>2 DEF PacketOf, bodies
<1> HIDE DEF c
<1>8. c.sequence \in Nat /\ c.sequence < 65536
  <2> DEFINE n == first[a] + j - 1
  <2>1. first[a] \in Sequences16
    BY <1>3 DEF Sent
  <2>2. n \in Int
    BY <1>5, <2>1, SequenceSpaceAssumption DEF Sequences16
  <2> HIDE DEF n
  <2>3. n % SequenceSpace \in 0 .. SequenceSpace - 1
    BY <2>2, SequenceSpaceAssumption
  <2>4. SequenceSpace \in Nat /\ SequenceSpace <= 65536
    <3>1. SequenceSpace <= 65536
      BY FieldsAssumption, SMT
    <3>. QED  BY <3>1, SequenceSpaceAssumption
  <2>5. c.sequence = n % SequenceSpace
    BY <1>7 DEF n
  <2>. QED  BY <2>3, <2>4, <2>5, SMT
<1>. QED  BY <1>3, <1>5, <1>6, <1>7, <1>8 DEF c, bodies

LEMMA OwnAreWellFormed ==
  ASSUME TransportInv, OwnSenders, NoOthers, ClosedUnits
  PROVE  PacketsAreWellFormed
<1>1. PICK first : Sent(first)
  BY DEF TransportInv
<1>2. dressing = OwnDressing
  BY DEF TransportInv, OwnSenders
<1>3. Len(stream) \in Nat /\ FitsTimestamp(Len(stream)) /\ IsStream(stream)
  <2>1. PICK session \in Sessions : stream = session.units
    BY DEF TransportInv
  <2>2. FitsTimestamp(Len(session.units))
    BY FieldsAssumption
  <2>. QED  BY <2>1, <2>2, StreamIs
<1>4. \A a \in 1 .. Len(stream) : stream[a] # <<>> => stream[a][Len(stream[a])].size > 0
  <2>1. PICK session \in Sessions : stream = session.units
    BY DEF TransportInv
  <2>2. DOMAIN stream = 1 .. Len(stream)
    BY StreamIs
  <2>. QED  BY <2>1, <2>2 DEF ClosedUnits
<1> DEFINE WellFormed(k) ==
             /\ Wire(channel[k]).size <= MaxPayload
             /\ Len(Wire(channel[k]).header) = 28 /\ Wire(channel[k]).padding = <<>>
             /\ channel[k].marker
                   <=> channel[k].body = Last(Bodies(NalsOf(channel[k].timestamp))).body
             /\ IsH264(Wire(channel[k]))
             /\ Parse(Wire(channel[k])).sequence = channel[k].sequence
             /\ Parse(Wire(channel[k])).timestamp = channel[k].timestamp
             /\ Parse(Wire(channel[k])).marker = channel[k].marker
             /\ Parse(Wire(channel[k])).begin = Len(Wire(channel[k]).header)
             /\ Parse(Wire(channel[k])).end
                   = Len(Wire(channel[k]).header) + Wire(channel[k]).size
             /\ Parse(Wire(channel[k])).captureTime = CaptureTime(channel[k].timestamp)
<1>5. ASSUME NEW k \in DOMAIN channel
      PROVE  WellFormed(k)
  <2>1. PICK a \in 1 .. auCount : \E j \in 1 .. Len(Bodies(UnitsOf(stream, a))) :
            /\ channel[k].timestamp = a /\ a \in Nat /\ a \in 1 .. Len(stream) /\ a <= Len(stream)
            /\ channel[k].marker = Bodies(UnitsOf(stream, a))[j].marker
            /\ channel[k].marker \in BOOLEAN
            /\ channel[k].body = Bodies(UnitsOf(stream, a))[j].body
            /\ channel[k].sequence \in Nat /\ channel[k].sequence < 65536
    BY <1>1, PacketFacts
  <2> DEFINE nals == UnitsOf(stream, a)
  <2> DEFINE bodies == Bodies(nals)
  <2> DEFINE c == channel[k]
  <2>2. PICK j \in 1 .. Len(bodies) :
            /\ c.timestamp = a /\ a \in Nat /\ a \in 1 .. Len(stream) /\ a <= Len(stream)
            /\ c.marker = bodies[j].marker /\ c.marker \in BOOLEAN /\ c.body = bodies[j].body
            /\ c.sequence \in Nat /\ c.sequence < 65536
    BY <2>1
  <2>3. NalsOf(c.timestamp) = nals
    BY <2>2 DEF NalsOf, UnitsOf
  <2> DEFINE d == Wire(c)
  <2> DEFINE size == PayloadSize(c.body)
  <2> DEFINE p == [sequence |-> c.sequence, timestamp |-> c.timestamp, marker |-> c.marker,
                   captureTime |-> CaptureTime(c.timestamp)]
  <2>4. /\ p.sequence = c.sequence /\ p.timestamp = a /\ p.marker = c.marker
        /\ p.captureTime = CaptureTime(a)
    BY <2>2
  <2>5. d = Datagram(p, size, Ssrc, OwnDressing)
    BY <1>2 DEF Wire
  <2>6. nals \in Seq(Seq(UnitIds))
    BY <1>3, <2>2, UnitsAre
  <2>7. /\ bodies \in Seq(MarkedOver(UnitIds)) /\ Kept(nals) \in Seq(Seq(UnitIds))
        /\ Carried(bodies, Kept(nals), PlaceOf(nals))
    BY <1>3, <2>2, UnitIsCarried
  <2>8. Headed(nals) /\ (nals # <<>> => EndsFull(nals))
    BY <1>3, <1>4, <2>2, UnitsAreHeaded
  <2> HIDE DEF nals
  <2>9. WellSized(bodies) /\ (nals # <<>> => MarksEnd(bodies))
    BY <2>6, <2>8, PacketsAreSized
  <2>10. nals # <<>>
    <3> SUFFICES ASSUME nals = <<>> PROVE FALSE
      OBVIOUS
    <3>1. Len(nals) = 0 /\ 1 \in 1 .. Len(nals) + 1 /\ 1 > Len(nals)
      OBVIOUS
    <3>2. bodies = BodiesAt(nals, BodiesFrom(nals), 1)
      BY <3>1, FromSteps, BodiesAreFrom
    <3>3. bodies = <<>>
      <4> HIDE DEF bodies
      <4>. QED  BY <3>1, <3>2 DEF BodiesAt
    <3>4. Len(bodies) = 0 /\ 1 .. 0 = {}
      BY <3>3
    <3>. QED  BY <3>4
  <2>11. DistinctHeads(Kept(nals))
    BY <2>6, <2>8, KeptAreDistinct
  <2> HIDE DEF bodies
  <2>12. Len(bodies) \in Nat /\ j \in Nat
    BY <2>7, LenProperties
  <2>13. c.marker <=> c.body = Last(bodies).body
    <3>1. Last(bodies) = bodies[Len(bodies)]
      BY DEF Last
    <3>2. CASE j = Len(bodies)
      BY <3>1, <3>2, <2>2, <2>9, <2>10 DEF MarksEnd
    <3>3. CASE j # Len(bodies)
      <4>1. bodies[j].body # bodies[Len(bodies)].body
        BY <3>3, <2>7, <2>11, <2>12, LastDiffers
      <4>2. ~bodies[j].marker
        <5>1. j \in 1 .. Len(bodies) - 1
          BY <3>3, <2>12
        <5>. QED  BY <5>1, <2>7 DEF Carried
      <4>. QED  BY <4>1, <4>2, <3>1, <2>2
    <3>. QED  BY <3>2, <3>3
  <2>14. size \in 1 .. MaxPayload
    BY <2>2, <2>9 DEF WellSized
  <2> HIDE DEF p, d, c, size
  <2>15. CaptureTime(a) \in Seq(Numbers) /\ Len(CaptureTime(a)) = 8
    BY <2>2, CaptureTimeIs
  <2>16. a \in Nat /\ Upper(a) < 65536
    BY <1>3, <2>2, UpperFits
  <2>17. Fits(p)
    <3>1. p.sequence \in Nat /\ p.sequence < 65536
      BY <2>2, <2>4, SMT
    <3>2. p.timestamp \in Nat /\ Upper(p.timestamp) < 65536
      BY <2>4, <2>16, SMT
    <3>3. p.marker \in BOOLEAN
      BY <2>2, <2>4
    <3>4. p.captureTime \in Seq(Numbers) /\ Len(p.captureTime) = 8
      BY <2>4, <2>15
    <3>. QED  BY <3>1, <3>2, <3>3, <3>4, SMT DEF Fits
  <2>18. HeaderOctets(d.header, p) /\ d.padding = <<>> /\ d.size = size
    <3>1. /\ p.sequence \in Nat /\ p.timestamp \in Nat /\ p.marker \in BOOLEAN
          /\ p.captureTime \in Seq(Numbers) /\ Len(p.captureTime) = 8
      BY <2>17, SMT DEF Fits
    <3>2. HeaderOctets(d.header, p)
      BY <2>5, <3>1, OwnHeader, Zenon
    <3>3. d.padding = <<>>
      BY <2>5, OwnDatagram
    <3>4. d.size = size
      BY <2>5, OwnDatagram
    <3>. QED  BY <3>2, <3>3, <3>4, Zenon
  <2>19. size \in Nat /\ size > 0 /\ size <= MaxPayload
    BY <2>14, PayloadAssumption
  <2>20. IsH264(d) /\ Len(d.header) = 28 /\ Parse(d).begin = 28 /\ Parse(d).end = 28 + size
    BY <2>17, <2>18, <2>19, OwnIsValid, Zenon
  <2>21. /\ Parse(d).sequence = p.sequence /\ Parse(d).timestamp = p.timestamp
         /\ Parse(d).marker = p.marker /\ Parse(d).captureTime = p.captureTime
    BY <2>17, <2>18, <2>20, OwnParse, Zenon
  <2>22. c.timestamp = a /\ NalsOf(c.timestamp) = nals
    BY <2>2, <2>3
  <2>23. c.marker <=> c.body = Last(Bodies(NalsOf(c.timestamp))).body
    BY <2>13, <2>22 DEF bodies
  <2>24. /\ d.size <= MaxPayload /\ Len(d.header) = 28 /\ d.padding = <<>>
         /\ IsH264(d)
         /\ Parse(d).begin = Len(d.header) /\ Parse(d).end = Len(d.header) + d.size
    BY <2>18, <2>19, <2>20, Zenon
  <2>25. /\ Parse(d).sequence = c.sequence /\ Parse(d).timestamp = c.timestamp
         /\ Parse(d).marker = c.marker /\ Parse(d).captureTime = CaptureTime(c.timestamp)
    BY <2>4, <2>21, <2>22
  <2>. QED  BY <2>23, <2>24, <2>25, Zenon DEF d, c
<1>6. /\ dressing.extension /\ dressing.profile = CaptureTimeProfile
      /\ \A marker : CarriesTime(dressing, marker)
  BY <1>2 DEF OwnDressing, CarriesTime
<1>7. ASSUME NEW k \in DOMAIN channel
      PROVE  Parse(Wire(channel[k])).captureTime =
                IF /\ dressing.extension /\ dressing.profile = CaptureTimeProfile
                   /\ CarriesTime(dressing, channel[k].marker)
                THEN CaptureTime(channel[k].timestamp) ELSE NoTime
  <2>1. Parse(Wire(channel[k])).captureTime = CaptureTime(channel[k].timestamp)
    BY <1>5
  <2>. QED  BY <2>1, <1>6
<1>. QED  BY <1>5, <1>7, Zenon DEF PacketsAreWellFormed, NoOthers

\* Every packet of these senders respects the datagram size and has a payload, the marker
\* is on the last one of an access unit and on no other, and the receiver takes the
\* packet for what it is and reads exactly what was written (PacketsAreWellFormed;
\* packetize, make_packet and parse_rtp_packet).
THEOREM PacketsAreWellFormedHolds ==
  ASSUME ShortUnits, OwnSenders, NoOthers, ClosedUnits
  PROVE  Spec => []PacketsAreWellFormed
<1>1. Init => TransportInv
  BY InitTransport
<1>2. TransportInv /\ [Next]_vars => TransportInv'
  BY NextOwn
<1>3. TransportInv => PacketsAreWellFormed
  BY OwnAreWellFormed
<1>. QED  BY <1>1, <1>2, <1>3, PTL DEF Spec

-----------------------------------------------------------------------------
(* The limits of the depacketizer.                                         *)

\* The counter agrees with the NALs, and neither they nor a fragment exceed a limit.
Counted(d) ==
    /\ d.units = TotalUnits(d.nals)
    /\ d.units <= MaxAuUnits /\ Len(d.nals) <= MaxNals
    /\ d.fragmented => Len(d.fragment) \in 1 .. MaxNalUnits

LEMMA NoUnits == TotalUnits(<<>>) = 0
<1>1. <<>> \in Seq(Seq({})) /\ Len(<<>>) = 0
  OBVIOUS
<1>. QED  BY <1>1, UnitsSteps

LEMMA DamagedCounts ==
  ASSUME NEW U, NEW d \in DepacketizersOver(U), Counted(d)
  PROVE  Counted(Damaged(d)) /\ Counted(NoFragment(d)) /\ Counted(Interrupted(d))
<1>1. ASSUME NEW e \in DepacketizersOver(U), Counted(e)
      PROVE  /\ Damaged(e) \in DepacketizersOver(U) /\ Counted(Damaged(e))
             /\ NoFragment(e) \in DepacketizersOver(U) /\ Counted(NoFragment(e))
  <2>1. /\ Damaged(e).units = e.units /\ Damaged(e).nals = e.nals
        /\ Damaged(e).fragmented = e.fragmented /\ Damaged(e).fragment = e.fragment
    BY DEF DepacketizersOver, Damaged
  <2>2. NoFragment(e).units = e.units /\ NoFragment(e).nals = e.nals /\ ~NoFragment(e).fragmented
    BY NoFragmentIs
  <2>. QED  BY <1>1, <2>1, <2>2, DamagedIs, NoFragmentIs DEF Counted
<1>2. Interrupted(d) = d \/ Interrupted(d) = NoFragment(Damaged(d))
  BY DEF Interrupted
<1>. QED  BY <1>1, <1>2

LEMMA WithNalCounts ==
  ASSUME NEW U, NEW d \in DepacketizersOver(U), NEW nal \in Seq(U), HasRoom(d, nal), Counted(d)
  PROVE  WithNal(d, nal) \in DepacketizersOver(U) /\ Counted(WithNal(d, nal))
<1> DEFINE e == WithNal(d, nal)
<1> DEFINE nals == d.nals
<1> DEFINE S == Seq(U)
<1>1. /\ e \in DepacketizersOver(U) /\ e.nals = Append(nals, nal)
      /\ e.units = d.units + Len(nal) /\ e.fragmented = d.fragmented
  BY WithNalIs
<1>2. e.fragment = d.fragment
  BY DEF DepacketizersOver, WithNal
<1>3. nals \in Seq(Seq(U))
  BY DEF DepacketizersOver
<1> HIDE DEF e
<1>4. TotalUnits(Append(nals, nal)) = TotalUnits(nals) + Len(nal)
  BY <1>3, TotalAppended
<1>5. Len(Append(nals, nal)) = Len(nals) + 1 /\ Len(nals) \in Nat
  <2> HIDE DEF S, nals
  <2>1. nals \in Seq(S) /\ nal \in S
    BY <1>3 DEF S
  <2>. QED  BY <2>1, AppendProperties, LenProperties
<1>6. d.units = TotalUnits(nals) /\ d.units + Len(nal) <= MaxAuUnits /\ Len(nals) < MaxNals
  BY DEF Counted, HasRoom
<1> HIDE DEF nals
<1>7. e.units = TotalUnits(e.nals) /\ e.units <= MaxAuUnits
  BY <1>1, <1>4, <1>6
<1>8. Len(e.nals) <= MaxNals
  BY <1>1, <1>5, <1>6, PayloadAssumption
<1>. QED  BY <1>1, <1>2, <1>7, <1>8 DEF Counted, e

LEMMA AcceptSingleCounts ==
  ASSUME NEW U, NEW d \in DepacketizersOver(U), NEW nal \in Seq(U), Counted(d)
  PROVE  Counted(AcceptSingle(d, nal))
BY DamagedCounts, WithNalCounts DEF AcceptSingle

LEMMA AcceptAggregateCounts ==
  ASSUME NEW U, NEW d \in DepacketizersOver(U), NEW nals \in Seq(Seq(U)), Counted(d)
  PROVE  Counted(AcceptAggregate(d, nals))
<1> DEFINE f == AggregateUpTo(d, nals)
<1> DEFINE n == Len(nals)
<1> DEFINE S == Seq(U)
<1> HIDE DEF f
<1>1. n \in Nat
  BY LenProperties
<1>2. /\ AcceptAggregate(d, nals) = f[n].state
      /\ \A k \in 0 .. n : f[k] = AggregateAt(d, nals, f, k)
  BY <1>1, AggregateSteps DEF f
<1>3. \A k \in 1 .. n : nals[k] \in Seq(U)
  <2>1. nals \in Seq(S)
    OBVIOUS
  <2> HIDE DEF S
  <2>2. \A k \in 1 .. n : nals[k] \in S
    BY <2>1, ElementOfSeq
  <2>. QED  BY <2>2 DEF S
<1> HIDE DEF n
<1> DEFINE Good(k) == f[k].state \in DepacketizersOver(U) /\ Counted(f[k].state)
<1> DEFINE bad == {k \in 0 .. n : ~Good(k)}
<1>4. bad = {}
  <2> SUFFICES ASSUME bad # {} PROVE FALSE
    OBVIOUS
  <2>1. PICK k \in bad : \A m \in bad : k <= m
    <3>1. bad \subseteq Nat
      OBVIOUS
    <3> HIDE DEF bad
    <3>. QED  BY <3>1, LeastNumber
  <2>2. k \in 0 .. n /\ ~Good(k) /\ f[k] = AggregateAt(d, nals, f, k)
    BY <2>1, <1>2
  <2>3. CASE k = 0
    <3>1. f[k] = [state |-> d, stopped |-> FALSE]
      BY <2>2, <2>3 DEF AggregateAt
    <3>2. f[k].state = d
      BY <3>1
    <3>. QED  BY <3>2, <2>2
  <2>4. CASE k # 0
    <3> DEFINE j == k - 1
    <3> DEFINE c == f[j].state
    <3> DEFINE nal == nals[k]
    <3>1. j \in 0 .. n /\ ~(k <= j) /\ k \in 1 .. n
      BY <2>2, <2>4, <1>1
    <3>2. ~(j \in bad)
      <4> HIDE DEF bad, j
      <4>. QED  BY <2>1, <3>1
    <3>3. c \in DepacketizersOver(U) /\ Counted(c)
      BY <3>1, <3>2
    <3>4. nal \in Seq(U)
      BY <3>1, <1>3
    <3>5. f[k] = IF f[j].stopped THEN f[j]
                 ELSE IF HasRoom(c, nal) THEN [state |-> WithNal(c, nal), stopped |-> FALSE]
                 ELSE [state |-> Damaged(c), stopped |-> TRUE]
      BY <2>2, <2>4 DEF AggregateAt
    <3> HIDE DEF nal, c, j
    <3>6. \/ f[k].state = c
          \/ HasRoom(c, nal) /\ f[k].state = WithNal(c, nal)
          \/ f[k].state = Damaged(c)
      BY <3>5 DEF c
    <3>7. Good(k)
      BY <3>3, <3>4, <3>6, WithNalCounts, DamagedCounts, DamagedIs
    <3>. QED  BY <3>7, <2>2
  <2>. QED  BY <2>3, <2>4
<1>5. Good(n)
  <2>1. n \in 0 .. n
    BY <1>1
  <2>. QED  BY <2>1, <1>4
<1>. QED  BY <1>2, <1>5

LEMMA StartFragmentCounts ==
  ASSUME NEW U, NEW d \in DepacketizersOver(U), NEW body, body.header \in U, body.data \in Seq(U),
         Counted(d)
  PROVE  Counted(StartFragment(d, body))
<1> DEFINE c == IF d.fragmented THEN Damaged(d) ELSE d
<1> DEFINE o == [c EXCEPT !.fragment = <<body.header>>]
<1> DEFINE e == [o EXCEPT !.fragment = @ \o body.data, !.fragmented = TRUE]
<1> DEFINE g == [Damaged(o) EXCEPT !.fragmented = FALSE]
<1>1. c \in DepacketizersOver(U) /\ c.units = d.units /\ c.nals = d.nals
  <2>1. Damaged(d).units = d.units /\ Damaged(d).nals = d.nals
    BY DEF DepacketizersOver, Damaged
  <2>. QED  BY <2>1, DamagedIs
<1> HIDE DEF c
<1>2. <<body.header>> \in Seq(U) /\ Len(<<body.header>>) = 1
  OBVIOUS
<1>3. Len(<<body.header>> \o body.data) = 1 + Len(body.data) /\ Len(body.data) \in Nat
  BY <1>2, ConcatProperties, LenProperties
<1>4. /\ o.units = d.units /\ o.nals = d.nals /\ o.fragment = <<body.header>>
      /\ o \in DepacketizersOver(U)
  BY <1>1, <1>2 DEF DepacketizersOver
<1> HIDE DEF o
<1>5. e.units = d.units /\ e.nals = d.nals /\ e.fragment = <<body.header>> \o body.data
  BY <1>4 DEF DepacketizersOver
<1>6. g.units = d.units /\ g.nals = d.nals /\ g.fragmented = FALSE
  BY <1>4 DEF DepacketizersOver, Damaged
<1>7. StartFragment(d, body) = IF Len(body.data) > MaxNalUnits - 1 THEN g ELSE e
  BY DEF StartFragment, o, c
<1> HIDE DEF e, g
<1>8. Counted(g)
  BY <1>6 DEF Counted
<1>9. ~(Len(body.data) > MaxNalUnits - 1) => Counted(e)
  <2> SUFFICES ASSUME ~(Len(body.data) > MaxNalUnits - 1) PROVE Counted(e)
    OBVIOUS
  <2>1. Len(e.fragment) \in 1 .. MaxNalUnits
    BY <1>3, <1>5, PayloadAssumption
  <2>. QED  BY <2>1, <1>5 DEF Counted
<1>. QED  BY <1>7, <1>8, <1>9

LEMMA ContinueFragmentCounts ==
  ASSUME NEW U, NEW d \in DepacketizersOver(U), NEW body, body.data \in Seq(U), Counted(d)
  PROVE  Counted(ContinueFragment(d, body))
<1> DEFINE g == NoFragment(Damaged(d))
<1> DEFINE e == [d EXCEPT !.fragment = @ \o body.data]
<1>1. Counted(Damaged(d)) /\ Counted(g)
  BY DamagedCounts, DamagedIs
<1>2. /\ d.fragment \in Seq(U) /\ Len(d.fragment \o body.data) = Len(d.fragment) + Len(body.data)
      /\ Len(d.fragment) \in Nat /\ Len(body.data) \in Nat
  <2>1. d.fragment \in Seq(U)
    BY DEF DepacketizersOver
  <2>. QED  BY <2>1, ConcatProperties, LenProperties
<1>3. /\ e.units = d.units /\ e.nals = d.nals /\ e.fragment = d.fragment \o body.data
      /\ e.fragmented = d.fragmented
  BY DEF DepacketizersOver
<1>4. ContinueFragment(d, body) =
        IF ~d.fragmented THEN Damaged(d)
        ELSE IF Len(d.fragment) + Len(body.data) > MaxNalUnits THEN g ELSE e
  BY DEF ContinueFragment
<1> HIDE DEF e, g
<1>5. d.fragmented /\ ~(Len(d.fragment) + Len(body.data) > MaxNalUnits) => Counted(e)
  <2> SUFFICES ASSUME d.fragmented, ~(Len(d.fragment) + Len(body.data) > MaxNalUnits)
               PROVE  Counted(e)
    OBVIOUS
  <2>1. Len(d.fragment) \in 1 .. MaxNalUnits
    BY DEF Counted
  <2> DEFINE x == Len(d.fragment)
  <2> DEFINE y == Len(body.data)
  <2>3. x \in Nat /\ y \in Nat /\ x >= 1 /\ x + y <= MaxNalUnits /\ Len(e.fragment) = x + y
    <3>1. Len(e.fragment) = x + y /\ x \in Nat /\ y \in Nat
      BY <1>2, <1>3
    <3>2. x >= 1
      BY <2>1, PayloadAssumption
    <3>3. ~(x + y > MaxNalUnits)
      OBVIOUS
    <3> HIDE DEF x, y
    <3>. QED  BY <3>1, <3>2, <3>3, PayloadAssumption
  <2> HIDE DEF x, y
  <2>2. Len(e.fragment) \in 1 .. MaxNalUnits
    BY <2>3, PayloadAssumption
  <2>. QED  BY <2>2, <1>3 DEF Counted
<1>. QED  BY <1>1, <1>4, <1>5

LEMMA EndFragmentCounts ==
  ASSUME NEW U, NEW d \in DepacketizersOver(U), Counted(d)
  PROVE  Counted(EndFragment(d))
<1>1. d.fragment \in Seq(U)
  BY DEF DepacketizersOver
<1>2. Counted(NoFragment(Damaged(d)))
  BY DamagedCounts, DamagedIs
<1>3. HasRoom(d, d.fragment) => Counted(NoFragment(WithNal(d, d.fragment)))
  BY <1>1, WithNalCounts, DamagedCounts
<1>4. EndFragment(d) = IF ~d.fragmented THEN d
                       ELSE IF HasRoom(d, d.fragment) THEN NoFragment(WithNal(d, d.fragment))
                       ELSE NoFragment(Damaged(d))
  BY DEF EndFragment
<1>. QED  BY <1>2, <1>3, <1>4

LEMMA AcceptCounts ==
  ASSUME NEW U, NEW d \in DepacketizersOver(U), NEW body \in BodiesOver(U), Counted(d),
         body.kind = "single" => body.nals[1] \in Seq(U)
  PROVE  Counted(Accept(d, body))
<1>1. Interrupted(d) \in DepacketizersOver(U) /\ Counted(Interrupted(d))
  BY InterruptedIs, DamagedCounts
<1>2. CASE body.kind = "single"
  <2>1. Accept(d, body) = AcceptSingle(Interrupted(d), body.nals[1])
    BY <1>2 DEF Accept
  <2>. QED  BY <2>1, <1>1, <1>2, AcceptSingleCounts
<1>3. CASE body.kind = "stap"
  <2>1. Accept(d, body) = AcceptAggregate(Interrupted(d), body.nals)
    BY <1>3 DEF Accept
  <2>2. body.nals \in Seq(Seq(U))
    BY <1>3 DEF BodiesOver
  <2>. QED  BY <2>1, <2>2, <1>1, AcceptAggregateCounts
<1>4. CASE body.kind = "fu"
  <2>1. body.header \in U /\ body.data \in Seq(U)
    BY <1>4 DEF BodiesOver
  <2> DEFINE grown == IF body.start THEN StartFragment(d, body) ELSE ContinueFragment(d, body)
  <2>2. grown \in DepacketizersOver(U) /\ Counted(grown)
    BY <2>1, StartFragmentIs, ContinueFragmentIs, StartFragmentCounts, ContinueFragmentCounts
  <2>3. Accept(d, body) = IF body.last THEN EndFragment(grown) ELSE grown
    BY <1>4 DEF Accept, AcceptFragment
  <2> HIDE DEF grown
  <2>. QED  BY <2>2, <2>3, EndFragmentCounts
<1>. QED  BY <1>2, <1>3, <1>4 DEF BodiesOver

LEMMA TakenCounts ==
  ASSUME NEW U, NEW d \in DepacketizersOver(U), NEW p, p.body \in BodiesOver(U), Counted(d),
         p.body.kind = "single" => p.body.nals[1] \in Seq(U),
         p.timestamp \in Nat, p.captureTime \in Seq(Nat), p.sequence \in Nat,
         Taken(d, p, SequenceSpace) \in DepacketizersOver(U)
  PROVE  Counted(Taken(d, p, SequenceSpace)) /\ Counted(Pushed(d, p, SequenceSpace))
<1> DEFINE begun == IF ~d.active \/ p.timestamp # d.timestamp THEN Started(d, p) ELSE d
<1> DEFINE gap == /\ begun.fragmented \/ begun.nals # <<>>
                  /\ (begun.lastSequence + 1) % SequenceSpace # p.sequence
<1> DEFINE x == [begun EXCEPT !.captureTime = IF @ = NoTime THEN p.captureTime ELSE @,
                              !.damaged = @ \/ gap,
                              !.lastSequence = p.sequence]
<1>1. \A e \in DepacketizersOver(U) : Counted(Reset(e))
  <2> TAKE e \in DepacketizersOver(U)
  <2>1. Reset(e).units = 0 /\ Reset(e).nals = <<>> /\ Reset(e).fragmented = FALSE
    BY DEF Reset, DepacketizersOver
  <2>2. Len(<<>>) = 0
    OBVIOUS
  <2>. QED  BY <2>1, <2>2, NoUnits, PayloadAssumption DEF Counted
<1>2. Started(d, p) \in DepacketizersOver(U) /\ Counted(Started(d, p))
  <2>1. <<>> \in Seq(U) /\ <<>> \in Seq(Seq(U)) /\ 0 \in Nat
    OBVIOUS
  <2>2. Started(d, p) \in DepacketizersOver(U)
    BY <2>1 DEF DepacketizersOver, Started, Reset
  <2>3. Started(d, p).units = 0 /\ Started(d, p).nals = <<>> /\ Started(d, p).fragmented = FALSE
    BY DEF DepacketizersOver, Started, Reset
  <2>4. Len(<<>>) = 0
    OBVIOUS
  <2>. QED  BY <2>2, <2>3, <2>4, NoUnits, PayloadAssumption DEF Counted
<1>3. begun \in DepacketizersOver(U) /\ Counted(begun)
  BY <1>2
<1>4. Taken(d, p, SequenceSpace) = Accept(x, p.body)
  BY DEF Taken
<1>5. gap \in BOOLEAN
  OBVIOUS
<1> HIDE DEF begun, gap
<1>6. /\ x \in DepacketizersOver(U) /\ x.nals = begun.nals /\ x.units = begun.units
      /\ x.fragmented = begun.fragmented /\ x.fragment = begun.fragment
  BY <1>3, <1>5 DEF DepacketizersOver
<1> HIDE DEF x
<1>7. Counted(x)
  BY <1>3, <1>6 DEF Counted
<1> DEFINE e == Accept(x, p.body)
<1>8. Counted(e)
  BY <1>6, <1>7, AcceptCounts
<1>9. Pushed(d, p, SequenceSpace) = IF p.marker THEN Reset(e) ELSE e
  BY <1>4 DEF Pushed
<1> HIDE DEF e
<1>10. Counted(Reset(e))
  BY <1>1, <1>4 DEF e
<1>. QED  BY <1>4, <1>8, <1>9, <1>10 DEF e

-----------------------------------------------------------------------------
(* The receiver's state on the path.                                       *)

LEMMA PacketBody ==
  ASSUME TransportInv, NEW first, Sent(first), NEW k \in DOMAIN channel
  PROVE  /\ channel[k].body \in BodiesOver(UnitIds)
         /\ channel[k].body.kind = "single" => channel[k].body.nals[1] \in Seq(UnitIds)
         /\ channel[k].sequence \in Sequences16 /\ channel[k].sequence \in Nat
<1>1. PICK a \in 1 .. auCount : \E j \in 1 .. Len(Bodies(UnitsOf(stream, a))) :
          /\ a \in 1 .. Len(stream)
          /\ channel[k].body = Bodies(UnitsOf(stream, a))[j].body
          /\ channel[k].sequence = (first[a] + j - 1) % SequenceSpace
          /\ channel[k].sequence \in Nat
  BY PacketFacts
<1> DEFINE bodies == Bodies(UnitsOf(stream, a))
<1> DEFINE W == Kept(UnitsOf(stream, a))
<1> DEFINE place == PlaceOf(UnitsOf(stream, a))
<1> DEFINE body == channel[k].body
<1> DEFINE M == MarkedOver(UnitIds)
<1> DEFINE S == Seq(UnitIds)
<1>2. PICK j \in 1 .. Len(bodies) :
          /\ body = bodies[j].body /\ channel[k].sequence = (first[a] + j - 1) % SequenceSpace
          /\ channel[k].sequence \in Nat
  BY <1>1
<1>3. bodies \in Seq(M) /\ W \in Seq(S) /\ Carried(bodies, W, place)
  BY <1>1, StreamIs, UnitIsCarried
<1> HIDE DEF bodies, W, place
<1>4. body \in BodiesOver(UnitIds)
  <2> HIDE DEF M
  <2>1. bodies[j] \in M
    BY <1>3, ElementOfSeq
  <2>. QED  BY <1>2, <2>1 DEF M, MarkedOver
<1> DEFINE p == place[j - 1]
<1> DEFINE q == place[j]
<1>5. Carries(body, W, p, q) /\ p \in Places
  <2>1. Len(bodies) \in Nat /\ j \in Nat
    BY <1>3, LenProperties
  <2>2. j - 1 \in 0 .. Len(bodies)
    BY <2>1
  <2>. QED  BY <1>2, <1>3, <2>2 DEF Carried
<1> HIDE DEF body, p, q
<1>6. body.kind = "single" => body.nals[1] \in S
  <2> SUFFICES ASSUME body.kind = "single" PROVE body.nals[1] \in S
    OBVIOUS
  <2>1. /\ q.nals = p.nals + 1 /\ body.nals = SubSeq(W, p.nals + 1, q.nals)
        /\ p.nals < Len(W) /\ p.nals \in Nat
    BY <1>5 DEF Carries, Places
  <2> DEFINE m == p.nals + 1
  <2>2. Len(W) \in Nat /\ m \in 1 .. Len(W) /\ body.nals = SubSeq(W, m, m)
    <3>1. Len(W) \in Nat
      <4> HIDE DEF S
      <4>. QED  BY <1>3, LenProperties
    <3>2. m = q.nals /\ body.nals = SubSeq(W, m, m)
      BY <2>1
    <3>3. p.nals < Len(W) /\ p.nals \in Nat
      BY <2>1
    <3>4. m \in 1 .. Len(W)
      <4> HIDE DEF S
      <4>. QED  BY <3>1, <3>3
    <3>. QED  BY <3>1, <3>2, <3>4
  <2> HIDE DEF m, S
  <2>3. m \in Int /\ \A x \in m .. m : W[x] \in S
    <3>1. \A x \in m .. m : x = m
      BY <2>2
    <3>. QED  BY <1>3, <2>2, <3>1, ElementOfSeq
  <2>4. \A i \in 1 .. m - m + 1 : SubSeq(W, m, m)[i] = W[m + i - 1]
    BY <2>3, SubSeqProperties
  <2>5. 1 \in 1 .. m - m + 1 /\ m + 1 - 1 = m /\ m \in m .. m
    BY <2>3
  <2>. QED  BY <2>2, <2>3, <2>4, <2>5
<1>7. channel[k].sequence \in Sequences16
  <2> DEFINE n == first[a] + j - 1
  <2>1. first[a] \in Sequences16 /\ j \in Int
    BY <1>1, SMTT(60) DEF Sent
  <2>2. n \in Int
    BY <2>1, SequenceSpaceAssumption DEF Sequences16
  <2> HIDE DEF n
  <2>3. n % SequenceSpace \in 0 .. SequenceSpace - 1
    BY <2>2, SequenceSpaceAssumption
  <2>4. channel[k].sequence = n % SequenceSpace
    BY <1>2 DEF n
  <2>. QED  BY <2>3, <2>4 DEF Sequences16
<1>. QED  BY <1>2, <1>4, <1>6, <1>7 DEF body

LEMMA TakenOnPath ==
  ASSUME TransportInv, ShortUnits, NEW first, Sent(first), NEW k \in DOMAIN channel, NEW read,
         read.sequence = channel[k].sequence, read.timestamp = channel[k].timestamp,
         read.body = channel[k].body, read.captureTime \in Times(channel[k].timestamp)
  PROVE  /\ Taken(depacketizer, read, SequenceSpace) \in DepacketizersOver(UnitIds)
         /\ Taken(depacketizer, read, SequenceSpace).active
         /\ Taken(depacketizer, read, SequenceSpace).timestamp = read.timestamp
         /\ Taken(depacketizer, read, SequenceSpace).lastSequence = read.sequence
         /\ depacketizer \in DepacketizersOver(UnitIds)
         /\ read.timestamp \in Nat /\ read.captureTime \in Seq(Nat)
<1>1. PICK a \in 1 .. auCount : \E j \in 1 .. Len(Bodies(UnitsOf(stream, a))) :
          /\ channel[k].timestamp = a /\ a \in Nat /\ a \in 1 .. Len(stream)
          /\ channel[k].body = Bodies(UnitsOf(stream, a))[j].body
          /\ channel[k].sequence = (first[a] + j - 1) % SequenceSpace
  BY PacketFacts
<1> DEFINE bodies == Bodies(UnitsOf(stream, a))
<1> DEFINE W == Kept(UnitsOf(stream, a))
<1> DEFINE place == PlaceOf(UnitsOf(stream, a))
<1> DEFINE f == first[a]
<1>2. PICK j \in 1 .. Len(bodies) :
          /\ read.timestamp = a /\ a \in Nat /\ a \in 1 .. Len(stream)
          /\ read.body = bodies[j].body /\ read.sequence = (f + j - 1) % SequenceSpace
  BY <1>1
<1>3. /\ bodies \in Seq(MarkedOver(UnitIds)) /\ W \in Seq(Seq(UnitIds))
      /\ Carried(bodies, W, place)
  BY <1>2, StreamIs, UnitIsCarried
<1>4. Len(bodies) < SequenceSpace
  <2>1. IsShort(stream) /\ a \in DOMAIN stream
    BY <1>2, StreamIs DEF TransportInv, ShortUnits
  <2>. QED  BY <2>1 DEF IsShort
<1>5. f \in Nat
  BY <1>2, SequenceSpaceAssumption, SMTT(60) DEF Sequences16, Sent
<1>6. depacketizer \in DepacketizersOver(UnitIds)
      /\ (depacketizer.active /\ depacketizer.timestamp = read.timestamp
             => Keeps(depacketizer, W, place, f))
  BY <1>2 DEF DepacketizerIs, Sent
<1>7. read.captureTime \in Seq(Nat) /\ read.timestamp \in Nat
  BY <1>1, <1>2, TimesAre
<1> HIDE DEF bodies, W, place, f
<1> DEFINE e == Taken(depacketizer, read, SequenceSpace)
<1>8. /\ e \in DepacketizersOver(UnitIds) /\ e.active /\ e.timestamp = read.timestamp
      /\ e.lastSequence = read.sequence
  <2>1. Follows(bodies, W, place, f, depacketizer, j, read)
    BY <1>2, <1>3, <1>4, <1>5, <1>6, <1>7 DEF Follows
  <2>. QED  BY <2>1, FollowingIsKept
<1>. QED  BY <1>6, <1>7, <1>8

\* Either a packet is fed, or the receiver stays as it is.
LEMMA ReadSteps ==
  ASSUME ReadsBack, [Next]_vars
  PROVE  \/ \E k \in DOMAIN channel : \E read :
               /\ Reading(k, read) /\ Feed(read) /\ UNCHANGED sender
               /\ channel' = channel \/ channel' = RemoveAt(channel, k)
         \/ UNCHANGED <<depacketizer, synchronized, completed, decoded, arrivals>>
<1> DEFINE Fed(k) == \E read : /\ Reading(k, read) /\ Feed(read) /\ UNCHANGED sender
                               /\ channel' = channel \/ channel' = RemoveAt(channel, k)
<1> DEFINE Stays == UNCHANGED <<depacketizer, synchronized, completed, decoded, arrivals>>
<1>1. ASSUME SendAccessUnit PROVE Stays
  BY <1>1 DEF SendAccessUnit, receiver
<1>2. ASSUME NEW t \in DOMAIN stream, TakeOver(t)
      PROVE  Stays
  BY <1>2 DEF TakeOver, receiver
<1>3. ASSUME Intrude PROVE Stays
  <2>1. PICK d \in Strays : Receive(d, Single(<<>>))
    BY <1>3 DEF Intrude
  <2>2. ~IsH264(d)
    BY DEF ReadsBack
  <2>. QED  BY <2>1, <2>2 DEF Receive
<1>4. ASSUME NEW k \in DOMAIN channel, Lose(k)
      PROVE  Stays
  BY <1>4 DEF Lose, receiver
<1>5. ASSUME NEW k \in DOMAIN channel, Deliver(k)
      PROVE  Fed(k) \/ Stays
  <2> DEFINE d == Wire(channel[k])
  <2>1. /\ Receive(d, channel[k].body) /\ UNCHANGED sender
        /\ channel' = channel \/ channel' = RemoveAt(channel, k)
    BY <1>5 DEF Deliver
  <2>2. CASE IsH264(d)
    <3> DEFINE read == [sequence |-> Parse(d).sequence, timestamp |-> Parse(d).timestamp,
                        marker |-> Parse(d).marker, captureTime |-> Parse(d).captureTime,
                        body |-> channel[k].body]
    <3>1. Feed(read)
      BY <2>1, <2>2 DEF Receive
    <3>2. Reading(k, read)
      BY <2>2 DEF ReadsBack, Reading
    <3> HIDE DEF read
    <3>. QED  BY <2>1, <3>1, <3>2
  <2>3. CASE ~IsH264(d)
    <3> HIDE DEF d
    <3>. QED  BY <2>1, <2>3 DEF Receive
  <2>. QED  BY <2>2, <2>3
<1>6. ASSUME UNCHANGED vars PROVE Stays
  BY <1>6 DEF vars, receiver
<1>7. (\E k \in DOMAIN channel : Fed(k)) \/ Stays
  <2> HIDE DEF Fed, Stays
  <2>. QED  BY <1>1, <1>2, <1>3, <1>4, <1>5, <1>6 DEF Next
<1>. QED  BY <1>7

LimitsInv ==
    /\ Counted(depacketizer) /\ depacketizer.lastSequence \in Sequences16
    /\ synchronized \in BOOLEAN
    /\ decoded \in Seq(Tails(stream)) /\ Len(decoded) <= Len(completed)

LEMMA InitLimits == Init => LimitsInv
<1> SUFFICES ASSUME Init PROVE LimitsInv
  OBVIOUS
<1>1. /\ depacketizer.units = 0 /\ depacketizer.nals = <<>> /\ ~depacketizer.fragmented
      /\ depacketizer.lastSequence = 0
  BY DEF Init, EmptyDepacketizer
<1>2. Len(<<>>) = 0 /\ TotalUnits(<<>>) = 0
  BY NoUnits
<1>3. Counted(depacketizer)
  BY <1>1, <1>2, PayloadAssumption DEF Counted
<1>4. 0 \in Sequences16
  BY SequenceSpaceAssumption DEF Sequences16
<1>5. synchronized \in BOOLEAN /\ decoded = <<>> /\ completed = <<>> /\ decoded \in Seq(Tails(stream))
  <2> DEFINE T == Tails(stream)
  <2>1. synchronized = FALSE /\ decoded = <<>> /\ completed = <<>>
    BY DEF Init
  <2> HIDE DEF T
  <2>2. decoded \in Seq(T)
    BY <2>1
  <2>. QED  BY <2>1, <2>2 DEF T
<1>. QED  BY <1>1, <1>2, <1>3, <1>4, <1>5 DEF LimitsInv

LEMMA NextLimits ==
  ASSUME TransportInv, ShortUnits, ReadsBack, LimitsInv, [Next]_vars
  PROVE  LimitsInv'
<1> DEFINE T == Tails(stream)
<1>1. TransportInv' /\ stream' = stream
  <2>1. stream' = stream
    BY DEF Next, SendAccessUnit, TakeOver, Intrude, Lose, Deliver, vars, sender
  <2>. QED  BY <2>1, NextTransport
<1>2. completed \in Seq(T) /\ completed' \in Seq(T) /\ decoded \in Seq(T)
  BY <1>1 DEF TransportInv, LimitsInv
<1>3. ASSUME UNCHANGED <<depacketizer, synchronized, completed, decoded, arrivals>>
      PROVE  LimitsInv'
  BY <1>1, <1>3 DEF LimitsInv, Counted
<1>4. ASSUME NEW k \in DOMAIN channel, NEW read, Reading(k, read), Feed(read)
      PROVE  LimitsInv'
  <2>1. PICK first : Sent(first)
    BY DEF TransportInv
  <2> DEFINE e == Taken(depacketizer, read, SequenceSpace)
  <2>2. /\ e \in DepacketizersOver(UnitIds) /\ e.lastSequence = read.sequence
        /\ depacketizer \in DepacketizersOver(UnitIds)
        /\ read.timestamp \in Nat /\ read.captureTime \in Seq(Nat)
    BY <1>4, <2>1, TakenOnPath DEF Reading
  <2>3. /\ read.body \in BodiesOver(UnitIds)
        /\ read.body.kind = "single" => read.body.nals[1] \in Seq(UnitIds)
        /\ read.sequence \in Sequences16 /\ read.sequence \in Nat
    BY <1>4, <2>1, PacketBody DEF Reading
  <2>4. Counted(Pushed(depacketizer, read, SequenceSpace))
    BY <2>2, <2>3, TakenCounts DEF LimitsInv
  <2>5. Pushed(depacketizer, read, SequenceSpace).lastSequence = read.sequence
    <3>1. Pushed(depacketizer, read, SequenceSpace) = IF read.marker THEN Reset(e) ELSE e
      BY DEF Pushed
    <3> HIDE DEF e
    <3>2. Reset(e).lastSequence = e.lastSequence
      BY <2>2 DEF Reset, DepacketizersOver
    <3>. QED  BY <3>1, <3>2, <2>2
  <2>6. depacketizer' = Pushed(depacketizer, read, SequenceSpace)
    BY <1>4 DEF Feed
  <2>7. Counted(depacketizer') /\ depacketizer'.lastSequence \in Sequences16
    BY <2>3, <2>4, <2>5, <2>6
  <2>8. CASE Completes(depacketizer, read, SequenceSpace)
    <3> DEFINE unit == [timestamp |-> read.timestamp, captureTime |-> e.captureTime,
                        nals |-> e.nals]
    <3>1. /\ completed' = Append(completed, unit)
          /\ synchronized' = (synchronized \/ IsRecovery(unit.nals))
          /\ decoded' = IF synchronized' THEN Append(decoded, unit) ELSE decoded
      BY <1>4, <2>8 DEF Feed
    <3>2. synchronized' \in BOOLEAN
      BY <3>1
    <3>3. completed \in Seq(T) /\ completed' \in Seq(T) /\ decoded \in Seq(T)
      BY <1>2
    <3>4. unit \in T
      <4> HIDE DEF unit, T
      <4>1. Len(Append(completed, unit)) = Len(completed) + 1
            /\ Append(completed, unit)[Len(completed) + 1] = unit
        BY <3>3
      <4>2. Len(completed) + 1 \in 1 .. Len(completed')
        BY <3>1, <3>3, <4>1, LenProperties
      <4>. QED  BY <3>1, <3>3, <4>1, <4>2, ElementOfSeq
    <3> HIDE DEF unit, T
    <3>5. /\ Append(decoded, unit) \in Seq(T) /\ Len(Append(decoded, unit)) = Len(decoded) + 1
          /\ Len(completed') = Len(completed) + 1
          /\ Len(decoded) \in Nat /\ Len(completed) \in Nat
      BY <3>1, <3>3, <3>4, AppendProperties, LenProperties
    <3>6. Len(decoded) <= Len(completed)
      BY DEF LimitsInv
    <3>7. decoded' \in Seq(T) /\ Len(decoded') <= Len(completed')
      BY <3>1, <3>3, <3>5, <3>6
    <3>8. decoded' \in Seq(Tails(stream'))
      BY <3>7, <1>1 DEF T
    <3>. QED  BY <3>2, <3>7, <3>8, <2>7 DEF LimitsInv, Counted
  <2>9. CASE ~Completes(depacketizer, read, SequenceSpace)
    <3>1. UNCHANGED <<completed, synchronized, decoded>>
      BY <1>4, <2>9 DEF Feed
    <3>. QED  BY <3>1, <1>1, <2>7 DEF LimitsInv, Counted
  <2>. QED  BY <2>8, <2>9
<1>. QED  BY <1>3, <1>4, ReadSteps

LEMMA LimitsFollow == TransportInv /\ LimitsInv => TypeOK
BY DEF TransportInv, LimitsInv, Counted, TypeOK

\* Whatever the senders add to their packets, when the receiver reads of each what was
\* written into it: the size the depacketizer counts is that of the NALs it holds, they
\* and the fragment under way never exceed a limit, and nothing is decoded that was not
\* completed (TypeOK; H264Depacketizer::push and the receiver's loop).
THEOREM TypeOKIfRead ==
  ASSUME ShortUnits
  PROVE  Spec /\ []PacketsAreWellFormed => []TypeOK
<1>1. Init => TransportInv /\ LimitsInv
  BY InitTransport, InitLimits
<1>2. TransportInv /\ LimitsInv /\ PacketsAreWellFormed /\ [Next]_vars => (TransportInv /\ LimitsInv)'
  BY NextTransport, NextLimits, WellFormedReadBack
<1>. QED  BY <1>1, <1>2, LimitsFollow, PTL DEF Spec

\* The same of this repository's sender, whose packets the receiver reads as they
\* were written (TypeOK; make_packet, parse_rtp_packet and H264Depacketizer::push).
THEOREM TypeOKHolds ==
  ASSUME ShortUnits, OwnSenders, NoOthers
  PROVE  Spec => []TypeOK
<1>1. Init => TransportInv /\ LimitsInv
  BY InitTransport, InitLimits
<1>2. TransportInv /\ LimitsInv /\ [Next]_vars => (TransportInv /\ LimitsInv)'
  BY NextTransport, NextLimits, OwnReadBack
<1>. QED  BY <1>1, <1>2, LimitsFollow, PTL DEF Spec

-----------------------------------------------------------------------------
(* An access unit within the limits.                                       *)

Small(W) ==
    /\ Len(W) <= MaxNals /\ TotalUnits(W) <= MaxAuUnits
    /\ \A i \in 1 .. Len(W) : Len(W[i]) <= MaxNalUnits

LEMMA UnitsGrow ==
  ASSUME NEW U, NEW W \in Seq(Seq(U)), NEW i \in 0 .. Len(W)
  PROVE  UnitsUpTo(W, i) <= TotalUnits(W)
<1> DEFINE n == Len(W)
<1> DEFINE g(k) == UnitsUpTo(W, k)
<1> DEFINE total == TotalUnits(W)
<1>1. /\ \A k \in 1 .. n : g(k) = g(k - 1) + Len(W[k])
      /\ \A k \in 0 .. n : g(k) \in Nat
      /\ total = g(n)
  BY UnitsSteps
<1>2. n \in Nat /\ \A k \in 1 .. n : Len(W[k]) \in Nat
  <2> DEFINE S == Seq(U)
  <2>1. W \in Seq(S)
    OBVIOUS
  <2> HIDE DEF S
  <2>2. n \in Nat /\ \A k \in 1 .. n : W[k] \in S
    BY <2>1, ElementOfSeq, LenProperties
  <2>. QED  BY <2>2, LenProperties DEF S
<1> HIDE DEF n, g, total
<1> DEFINE bad == {k \in 0 .. n : ~(g(n - k) <= total)}
<1>3. bad = {}
  <2> SUFFICES ASSUME bad # {} PROVE FALSE
    OBVIOUS
  <2>1. PICK k \in bad : \A m \in bad : k <= m
    <3>1. bad \subseteq Nat
      OBVIOUS
    <3> HIDE DEF bad
    <3>. QED  BY <3>1, LeastNumber
  <2>2. k \in 0 .. n /\ ~(g(n - k) <= total)
    BY <2>1
  <2>3. n \in 0 .. n /\ n - 0 = n
    BY <1>2
  <2>4. g(n) <= total /\ total \in Nat
    BY <1>1, <2>3
  <2>5. k # 0
    BY <2>2, <2>3, <2>4
  <2> DEFINE j == k - 1
  <2> DEFINE x == n - k
  <2>6. /\ j \in 0 .. n /\ ~(k <= j) /\ n - j = x + 1 /\ (x + 1) - 1 = x
        /\ x + 1 \in 1 .. n /\ x \in 0 .. n
    BY <2>2, <2>5, <1>2
  <2>7. ~(j \in bad)
    <3> HIDE DEF bad, j
    <3>. QED  BY <2>1, <2>6
  <2> HIDE DEF x
  <2>8. g(x + 1) <= total
    BY <2>6, <2>7
  <2>9. g(x + 1) = g(x) + Len(W[x + 1]) /\ Len(W[x + 1]) \in Nat /\ g(x) \in Nat
    <3>1. g(x + 1) = g((x + 1) - 1) + Len(W[x + 1])
      BY <2>6, <1>1
    <3>. QED  BY <3>1, <2>6, <1>1, <1>2
  <2>10. ~(g(x) <= total)
    BY <2>2 DEF x
  <2> DEFINE a == g(x)
  <2> DEFINE b == Len(W[x + 1])
  <2>11. a \in Nat /\ b \in Nat /\ a + b <= total /\ ~(a <= total)
    BY <2>8, <2>9, <2>10
  <2> HIDE DEF a, b
  <2>. QED  BY <2>4, <2>11
<1>4. i \in 0 .. n
  BY DEF n
<1> DEFINE k == n - i
<1>5. k \in 0 .. n /\ n - k = i
  BY <1>2, <1>4
<1>6. k \notin bad
  BY <1>3
<1> HIDE DEF k
<1>7. g(n - k) <= total
  BY <1>5, <1>6
<1>. QED  BY <1>5, <1>7 DEF g, total

\* d holds the first i NALs of W, none of them damaged; Holds says the rest.
Full(d, W, i) == ~d.damaged /\ Len(d.nals) = i /\ d.units = UnitsUpTo(W, i)

LEMMA FullNext ==
  ASSUME NEW U, NEW W \in Seq(Seq(U)), Small(W), NEW d \in DepacketizersOver(U),
         NEW i \in Nat, i < Len(W), Full(d, W, i), NEW nal \in Seq(U), Len(nal) = Len(W[i + 1])
  PROVE  /\ HasRoom(d, nal) /\ Len(nal) <= MaxNalUnits
         /\ WithNal(d, nal) \in DepacketizersOver(U) /\ Full(WithNal(d, nal), W, i + 1)
<1>1. Len(W) \in Nat /\ i + 1 \in 1 .. Len(W) /\ i + 1 \in 0 .. Len(W) /\ (i + 1) - 1 = i /\ i \in 0 .. Len(W)
  OBVIOUS
<1>2. /\ UnitsUpTo(W, i + 1) = UnitsUpTo(W, i) + Len(W[i + 1])
      /\ UnitsUpTo(W, i + 1) \in Nat /\ UnitsUpTo(W, i) \in Nat
  <2>1. UnitsUpTo(W, i + 1) = UnitsUpTo(W, (i + 1) - 1) + Len(W[i + 1])
    BY <1>1, UnitsSteps
  <2>. QED  BY <2>1, <1>1, UnitsSteps
<1>3. UnitsUpTo(W, i + 1) <= TotalUnits(W)
  BY <1>1, UnitsGrow
<1>4. Len(W) <= MaxNals /\ TotalUnits(W) <= MaxAuUnits /\ Len(W[i + 1]) <= MaxNalUnits
  BY <1>1 DEF Small
<1>5. TotalUnits(W) \in Nat
  <2>1. Len(W) \in 0 .. Len(W)
    BY <1>1
  <2>. QED  BY <2>1, UnitsSteps
<1> DEFINE x == UnitsUpTo(W, i + 1)
<1> DEFINE y == UnitsUpTo(W, i)
<1> DEFINE t == TotalUnits(W)
<1> DEFINE s == Len(W[i + 1])
<1> DEFINE n == Len(W)
<1>6. /\ x = y + s /\ x \in Nat /\ y \in Nat /\ x <= t /\ t \in Nat /\ t <= MaxAuUnits
      /\ n \in Nat /\ n <= MaxNals /\ i < n /\ Len(nal) = s /\ d.units = y /\ Len(d.nals) = i
  BY <1>1, <1>2, <1>3, <1>4, <1>5 DEF Full
<1> HIDE DEF x, y, t, s, n
<1>7. HasRoom(d, nal)
  <2>1. d.units + Len(nal) = x
    BY <1>6
  <2>2. x <= MaxAuUnits /\ Len(d.nals) < MaxNals
    BY <1>6, PayloadAssumption
  <2>. QED  BY <2>1, <2>2 DEF HasRoom
<1> DEFINE e == WithNal(d, nal)
<1>8. /\ e \in DepacketizersOver(U) /\ e.nals = Append(d.nals, nal) /\ e.units = d.units + Len(nal)
      /\ e.damaged = d.damaged
  BY WithNalIs
<1>9. Len(Append(d.nals, nal)) = Len(d.nals) + 1
  <2> DEFINE S == Seq(U)
  <2>1. d.nals \in Seq(S) /\ nal \in S
    BY DEF DepacketizersOver
  <2> HIDE DEF S
  <2>. QED  BY <2>1, AppendProperties
<1> HIDE DEF e
<1>10. Full(e, W, i + 1)
  <2>1. Len(e.nals) = i + 1 /\ e.units = x /\ ~e.damaged
    BY <1>6, <1>8, <1>9 DEF Full
  <2>. QED  BY <2>1 DEF Full, x
<1>. QED  BY <1>4, <1>7, <1>8, <1>10 DEF e

LEMMA AcceptAggregateFull ==
  ASSUME NEW U, NEW W \in Seq(Seq(U)), Small(W), NEW d \in DepacketizersOver(U), NEW i \in Nat,
         NEW nals, Len(nals) \in Nat, i + Len(nals) <= Len(W),
         \A k \in 1 .. Len(nals) : nals[k] = W[i + k],
         Full(d, W, i)
  PROVE  Full(AcceptAggregate(d, nals), W, i + Len(nals))
<1> DEFINE f == AggregateUpTo(d, nals)
<1> DEFINE n == Len(nals)
<1> HIDE DEF f
<1>1. /\ AcceptAggregate(d, nals) = f[n].state
      /\ \A k \in 0 .. n : f[k] = AggregateAt(d, nals, f, k)
  BY AggregateSteps DEF f
<1>2. /\ n \in Nat /\ Len(W) \in Nat /\ i + n <= Len(W)
      /\ \A k \in 1 .. n : nals[k] = W[i + k]
  BY LenProperties
<1> HIDE DEF n
<1> DEFINE Good(k) == /\ f[k].state \in DepacketizersOver(U) /\ Full(f[k].state, W, i + k)
                      /\ f[k].stopped = FALSE
<1> DEFINE bad == {k \in 0 .. n : ~Good(k)}
<1>3. bad = {}
  <2> SUFFICES ASSUME bad # {} PROVE FALSE
    OBVIOUS
  <2>1. PICK k \in bad : \A m \in bad : k <= m
    <3>1. bad \subseteq Nat
      OBVIOUS
    <3> HIDE DEF bad
    <3>. QED  BY <3>1, LeastNumber
  <2>2. k \in 0 .. n /\ ~Good(k) /\ f[k] = AggregateAt(d, nals, f, k)
    BY <2>1, <1>1
  <2>3. CASE k = 0
    <3>1. f[k] = [state |-> d, stopped |-> FALSE]
      BY <2>2, <2>3 DEF AggregateAt
    <3>2. f[k].state = d /\ f[k].stopped = FALSE /\ i + k = i
      BY <3>1, <2>3
    <3>3. Good(k)
      BY <3>2
    <3>. QED  BY <3>3, <2>2
  <2>4. CASE k # 0
    <3> DEFINE j == k - 1
    <3> DEFINE c == f[j].state
    <3> DEFINE nal == nals[k]
    <3>1. j \in 0 .. n /\ ~(k <= j) /\ k \in 1 .. n /\ j \in Nat
      BY <2>2, <2>4, <1>2
    <3>2. ~(j \in bad)
      <4> HIDE DEF bad, j
      <4>. QED  BY <2>1, <3>1
    <3>3. c \in DepacketizersOver(U) /\ Full(c, W, i + j) /\ f[j].stopped = FALSE
      BY <3>1, <3>2
    <3>4. i + j \in Nat /\ i + j < Len(W) /\ (i + j) + 1 = i + k /\ i + k \in 1 .. Len(W)
      <4> DEFINE r == Len(W)
      <4>1. r \in Nat /\ i + n <= r /\ n \in Nat
        BY <1>2
      <4>2. j \in Nat /\ k = j + 1 /\ k \in 1 .. n
        BY <3>1
      <4> HIDE DEF r, j
      <4>3. i + j \in Nat /\ i + j < r /\ (i + j) + 1 = i + k /\ i + k \in 1 .. r
        BY <4>1, <4>2
      <4>. QED  BY <4>3 DEF r
    <3>5. nal \in Seq(U) /\ Len(nal) = Len(W[(i + j) + 1])
      <4> DEFINE S == Seq(U)
      <4>1. W \in Seq(S)
        OBVIOUS
      <4> HIDE DEF S
      <4>2. W[i + k] \in S
        BY <4>1, <3>4, ElementOfSeq
      <4>3. nal = W[i + k]
        BY <3>1, <1>2
      <4>. QED  BY <4>2, <4>3, <3>4 DEF S
    <3>6. f[k] = IF f[j].stopped THEN f[j]
                 ELSE IF HasRoom(c, nal) THEN [state |-> WithNal(c, nal), stopped |-> FALSE]
                 ELSE [state |-> Damaged(c), stopped |-> TRUE]
      BY <2>2, <2>4 DEF AggregateAt
    <3> HIDE DEF nal, c, j
    <3>7. /\ HasRoom(c, nal) /\ WithNal(c, nal) \in DepacketizersOver(U)
          /\ Full(WithNal(c, nal), W, (i + j) + 1)
      BY <3>3, <3>4, <3>5, FullNext
    <3>8. f[k] = [state |-> WithNal(c, nal), stopped |-> FALSE]
      BY <3>3, <3>6, <3>7
    <3>9. f[k].state = WithNal(c, nal) /\ f[k].stopped = FALSE
      BY <3>8
    <3>10. Good(k)
      BY <3>4, <3>7, <3>9
    <3>. QED  BY <3>10, <2>2
  <2>. QED  BY <2>3, <2>4
<1>4. Good(n)
  <2>1. n \in 0 .. n
    BY <1>2
  <2>. QED  BY <2>1, <1>3
<1>. QED  BY <1>1, <1>4 DEF n

LEMMA AcceptFragmentFull ==
  ASSUME NEW U, NEW W \in Seq(Seq(U)), Small(W), NEW d \in DepacketizersOver(U),
         NEW body \in BodiesOver(U), body.kind = "fu",
         NEW p \in Places, NEW q \in Places, Carries(body, W, p, q),
         Holds(d, W, p), Full(d, W, p.nals)
  PROVE  Full(AcceptFragment(d, body), W, q.nals)
<1> DEFINE i == p.nals
<1> DEFINE nal == W[i + 1]
<1>1. i \in Nat /\ p.units \in Nat /\ Len(W) \in Nat /\ i < Len(W) /\ i + 1 \in 1 .. Len(W)
  BY SMTT(60) DEF Places, Carries
<1>2. PICK end \in p.units + 1 .. Len(nal) :
         /\ body.start <=> p.units = 0
         /\ body.last <=> end = Len(nal)
         /\ body.start => body.data = SubSeq(nal, 2, end)
         /\ ~body.start => body.data = SubSeq(nal, p.units + 1, end)
         /\ body.last => q = Place(i + 1, 0)
         /\ ~body.last => q = Place(i, end)
  BY DEF Carries
<1>3. nal \in Seq(U) /\ Len(nal) \in Nat /\ Len(nal) <= MaxNalUnits
  <2> DEFINE S == Seq(U)
  <2>1. W \in Seq(S)
    OBVIOUS
  <2> HIDE DEF S
  <2>2. nal \in S
    BY <2>1, <1>1, ElementOfSeq
  <2>. QED  BY <2>2, <1>1, LenProperties DEF S, Small
<1>4. body.header \in U /\ body.data \in Seq(U)
  BY DEF BodiesOver
<1>5. ~d.damaged /\ (d.fragmented <=> p.units # 0)
      /\ (d.fragmented => d.fragment = SubSeq(nal, 1, p.units))
  BY DEF Holds, Full
<1> HIDE DEF nal, i
<1>6. end \in Nat /\ end > p.units /\ end <= Len(nal)
  BY <1>1, <1>2, <1>3
<1>7. /\ body.start => Len(body.data) = end - 1
      /\ ~body.start => Len(body.data) = end - p.units
      /\ p.units # 0 => Len(SubSeq(nal, 1, p.units)) = p.units
  <2>1. \A k \in 1 .. Len(nal) : nal[k] \in U
    BY <1>3, ElementOfSeq
  <2>2. ASSUME NEW a \in 1 .. end + 1, NEW b \in Nat, b <= end, a <= b + 1
        PROVE  Len(SubSeq(nal, a, b)) = b - a + 1
    <3>1. a \in Int /\ b \in Int /\ \A k \in a .. b : k \in 1 .. Len(nal)
      BY <2>2, <1>3, <1>6
    <3>2. \A k \in a .. b : nal[k] \in U
      BY <3>1, <2>1
    <3>3. Len(SubSeq(nal, a, b)) = IF a <= b THEN b - a + 1 ELSE 0
      BY <3>1, <3>2, SubSeqProperties
    <3>. QED  BY <3>1, <3>3, <2>2
  <2>3. Len(SubSeq(nal, 2, end)) = end - 1
    <3>3. end \in Nat /\ 1 <= end
      BY <1>1, <1>6
    <3>1. 2 \in 1 .. end + 1 /\ 2 <= end + 1 /\ end <= end /\ end - 2 + 1 = end - 1
      BY <3>3
    <3>2. Len(SubSeq(nal, 2, end)) = end - 2 + 1
      BY <3>1, <2>2, <1>6
    <3>. QED  BY <3>1, <3>2
  <2>4. Len(SubSeq(nal, p.units + 1, end)) = end - p.units
    <3> DEFINE m == p.units + 1
    <3> DEFINE u == p.units
    <3>3. u \in Nat /\ end \in Nat /\ end > u /\ m = u + 1
      BY <1>1, <1>6
    <3> HIDE DEF m, u
    <3>4. m \in 1 .. end + 1 /\ m <= end + 1 /\ end <= end /\ end - m + 1 = end - u
      BY <3>3
    <3>1. m \in 1 .. end + 1 /\ m <= end + 1 /\ end <= end /\ end - m + 1 = end - p.units
      BY <3>4 DEF u
    <3>2. Len(SubSeq(nal, m, end)) = end - m + 1
      BY <3>1, <2>2, <1>6
    <3>. QED  BY <3>1, <3>2 DEF m
  <2>5. Len(SubSeq(nal, 1, p.units)) = p.units
    <3> DEFINE b == p.units
    <3>1. 1 \in 1 .. end + 1 /\ 1 <= b + 1 /\ b <= end /\ b - 1 + 1 = b /\ b \in Nat
      BY <1>1, <1>6
    <3> HIDE DEF b
    <3>2. Len(SubSeq(nal, 1, b)) = b - 1 + 1
      BY <3>1, <2>2
    <3>. QED  BY <3>1, <3>2 DEF b
  <2>. QED  BY <2>3, <2>4, <2>5, <1>2
<1> DEFINE g == IF body.start THEN StartFragment(d, body) ELSE ContinueFragment(d, body)
<1>8. /\ g \in DepacketizersOver(U) /\ g.fragmented /\ Len(g.fragment) = end
      /\ g.nals = d.nals /\ g.units = d.units /\ ~g.damaged
  <2>1. CASE body.start
    <3>1. ~d.fragmented
      BY <2>1, <1>2, <1>5
    <3>2. ~(Len(body.data) > MaxNalUnits - 1)
      BY <2>1, <1>3, <1>6, <1>7, PayloadAssumption
    <3> DEFINE o == [d EXCEPT !.fragment = <<body.header>>]
    <3> DEFINE e == [o EXCEPT !.fragment = @ \o body.data, !.fragmented = TRUE]
    <3>3. StartFragment(d, body) = e
      BY <3>1, <3>2 DEF StartFragment
    <3>4. <<body.header>> \in Seq(U) /\ Len(<<body.header>>) = 1
      BY <1>4
    <3>5. Len(<<body.header>> \o body.data) = 1 + Len(body.data)
          /\ <<body.header>> \o body.data \in Seq(U)
      BY <3>4, <1>4, ConcatProperties
    <3>6. /\ e \in DepacketizersOver(U) /\ e.fragmented /\ e.fragment = <<body.header>> \o body.data
          /\ e.nals = d.nals /\ e.units = d.units /\ e.damaged = d.damaged
      BY <3>4, <3>5 DEF DepacketizersOver
    <3> HIDE DEF e
    <3>7. Len(e.fragment) = end
      BY <3>5, <3>6, <2>1, <1>6, <1>7
    <3>8. g = e
      BY <3>3, <2>1
    <3> HIDE DEF g
    <3>. QED  BY <3>6, <3>7, <3>8, <1>5
  <2>2. CASE ~body.start
    <3>1. d.fragmented /\ p.units # 0 /\ Len(d.fragment) = p.units
      BY <2>2, <1>2, <1>5, <1>7
    <3>2. Len(d.fragment) + Len(body.data) = end
      BY <3>1, <2>2, <1>1, <1>6, <1>7
    <3>3. ~(Len(d.fragment) + Len(body.data) > MaxNalUnits)
      <4> DEFINE x == Len(d.fragment) + Len(body.data)
      <4>1. x = end
        BY <3>2
      <4> HIDE DEF x
      <4>2. ~(x > MaxNalUnits)
        BY <4>1, <1>3, <1>6, PayloadAssumption
      <4>. QED  BY <4>2 DEF x
    <3> DEFINE e == [d EXCEPT !.fragment = @ \o body.data]
    <3>4. ContinueFragment(d, body) = e
      BY <3>1, <3>3 DEF ContinueFragment
    <3>5. /\ d.fragment \in Seq(U) /\ d.fragment \o body.data \in Seq(U)
          /\ Len(d.fragment \o body.data) = Len(d.fragment) + Len(body.data)
      <4>1. d.fragment \in Seq(U)
        BY DEF DepacketizersOver
      <4>. QED  BY <4>1, <1>4, ConcatProperties
    <3>6. /\ e \in DepacketizersOver(U) /\ e.fragmented = d.fragmented
          /\ e.fragment = d.fragment \o body.data
          /\ e.nals = d.nals /\ e.units = d.units /\ e.damaged = d.damaged
      BY <3>5 DEF DepacketizersOver
    <3> HIDE DEF e
    <3>7. Len(e.fragment) = end
      BY <3>2, <3>5, <3>6
    <3>8. g = e
      BY <3>4, <2>2
    <3> HIDE DEF g
    <3>. QED  BY <3>1, <3>6, <3>7, <3>8, <1>5
  <2>. QED  BY <2>1, <2>2
<1>9. AcceptFragment(d, body) = IF body.last THEN EndFragment(g) ELSE g
  BY DEF AcceptFragment
<1> HIDE DEF g
<1>10. Full(g, W, i)
  BY <1>8 DEF Full, i
<1>11. CASE body.last
  <2>1. end = Len(nal) /\ q = Place(i + 1, 0)
    BY <1>11, <1>2
  <2>2. q.nals = i + 1
    BY <2>1, PlaceIs
  <2>3. g.fragment \in Seq(U) /\ Len(g.fragment) = Len(W[i + 1])
    BY <1>8, <2>1 DEF DepacketizersOver, nal
  <2> DEFINE w == WithNal(g, g.fragment)
  <2>4. HasRoom(g, g.fragment) /\ w \in DepacketizersOver(U) /\ Full(w, W, i + 1)
    BY <1>1, <1>8, <1>10, <2>3, FullNext
  <2>5. EndFragment(g) = NoFragment(w)
    BY <1>8, <2>4 DEF EndFragment
  <2> HIDE DEF w
  <2>6. Full(NoFragment(w), W, i + 1)
    BY <2>4, NoFragmentIs DEF Full
  <2>. QED  BY <1>9, <1>11, <2>2, <2>5, <2>6
<1>12. CASE ~body.last
  <2>1. q.nals = i
    <3>1. q = Place(i, end)
      BY <1>12, <1>2
    <3>. QED  BY <3>1, PlaceIs
  <2>. QED  BY <2>1, <1>9, <1>10, <1>12
<1>. QED  BY <1>11, <1>12

-----------------------------------------------------------------------------
(* Remainders.                                                             *)

LEMMA Division ==
  ASSUME NEW x \in Int, NEW b \in Nat, b > 0
  PROVE  /\ x \div b \in Int
         /\ x % b \in 0 .. b - 1
         /\ x = b * (x \div b) + (x % b)
OBVIOUS

\* The remainder is the only one there is.
LEMMA RemainderIs ==
  ASSUME NEW b \in Nat, b > 0, NEW q \in Int, NEW r \in 0 .. b - 1
  PROVE  (b * q + r) % b = r
OBVIOUS

\* A number counted on from a remainder.
LEMMA CountedOn ==
  ASSUME NEW a \in Int, NEW o \in Int, NEW b \in Nat, b > 0
  PROVE  ((a % b) + o) % b = (a + o) % b
<1> DEFINE q == a \div b
<1> DEFINE s == a % b
<1> DEFINE p == (s + o) \div b
<1> DEFINE r == (s + o) % b
<1>1. q \in Int /\ s \in 0 .. b - 1 /\ a = b * q + s
  BY Division
<1>2. p \in Int /\ r \in 0 .. b - 1 /\ s + o = b * p + r
  BY <1>1, Division
<1> HIDE DEF q, s, p, r
<1>3. b * (q + p) = b * q + b * p /\ b * q \in Int /\ b * p \in Int
  BY <1>1, <1>2
<1>4. a + o = b * (q + p) + r
  BY <1>1, <1>2, <1>3
<1>5. (b * (q + p) + r) % b = r
  BY <1>1, <1>2, RemainderIs
<1>. QED  BY <1>4, <1>5 DEF r, s

\* Two numbers less than a turn apart are told apart.
LEMMA ToldApart ==
  ASSUME NEW a \in Int, NEW c \in Int, NEW b \in Nat, b > 0, a < c, c < a + b
  PROVE  a % b # c % b
<1>1. SUFFICES ASSUME a % b = c % b PROVE FALSE
  OBVIOUS
<1> DEFINE p == a \div b
<1> DEFINE q == c \div b
<1>2. p \in Int /\ q \in Int /\ a = b * p + (a % b) /\ c = b * q + (c % b)
      /\ a % b \in 0 .. b - 1
  BY Division
<1> HIDE DEF p, q
<1>3. b * q - b * p = b * (q - p) /\ b * q \in Int /\ b * p \in Int
  BY <1>2
<1>4. b * (q - p) = c - a
  BY <1>1, <1>2, <1>3
<1>5. q - p \in Int /\ b * (q - p) > 0 /\ b * (q - p) < b
  BY <1>2, <1>4
<1>6. \A n \in Int : (n >= 1 => b * n >= b) /\ (n <= 0 => b * n <= 0)
  OBVIOUS
<1>. QED  BY <1>5, <1>6

-----------------------------------------------------------------------------
(* Packets that arrive in order, of an access unit within the limits.      *)

\* A packet of an access unit within the limits, after the ones before it.
LEMMA AcceptFull ==
  ASSUME NEW U, NEW W \in Seq(Seq(U)), Small(W), NEW d \in DepacketizersOver(U),
         NEW body \in BodiesOver(U), NEW p \in Places, NEW q \in Places, Carries(body, W, p, q),
         Holds(d, W, p), Full(d, W, p.nals)
  PROVE  Full(Accept(d, body), W, q.nals)
<1>1. /\ p.nals \in Nat /\ q.nals \in Nat /\ Len(W) \in Nat /\ p.nals < Len(W) /\ q.nals <= Len(W)
      /\ body.kind \in {"single", "stap", "fu"}
  BY DEF Places, Carries
<1> DEFINE i == p.nals
<1> DEFINE k == q.nals
<1>2. CASE body.kind = "fu"
  <2>1. Full(AcceptFragment(d, body), W, k)
    BY <1>2, AcceptFragmentFull
  <2>. QED  BY <2>1, <1>2 DEF Accept
<1>3. CASE body.kind # "fu"
  <2>1. i < k /\ body.nals = SubSeq(W, i + 1, k) /\ (body.kind = "single" => k = i + 1) /\ p.units = 0
    BY <1>3 DEF Carries
  <2>2. Interrupted(d) = d
    BY <2>1 DEF Interrupted, Holds
  <2> DEFINE nals == body.nals
  <2> DEFINE n == k - i
  <2>3. Len(nals) = n /\ \A j \in 1 .. n : nals[j] = W[i + j]
    <3> DEFINE S == Seq(U)
    <3> DEFINE w == Len(W)
    <3> DEFINE m == i + 1
    <3>1. W \in Seq(S)
      OBVIOUS
    <3> HIDE DEF S
    <3>2. \A j \in 1 .. w : W[j] \in S
      BY <3>1, ElementOfSeq
    <3>3. i \in Nat /\ k \in Nat /\ w \in Nat /\ i < k /\ k <= w
      BY <1>1, <2>1
    <3> HIDE DEF i, k, w
    <3>4. m \in Int /\ k \in Int /\ m <= k /\ k - m + 1 = n /\ \A j \in m .. k : W[j] \in S
      BY <3>2, <3>3
    <3>5. \A j \in 1 .. n : m + j - 1 = i + j
      BY <3>3
    <3> HIDE DEF m, n
    <3>6. /\ Len(SubSeq(W, m, k)) = k - m + 1
          /\ \A j \in 1 .. k - m + 1 : SubSeq(W, m, k)[j] = W[m + j - 1]
      BY <3>4, SubSeqProperties
    <3>7. nals = SubSeq(W, m, k)
      BY <2>1 DEF m, i, k
    <3>. QED  BY <3>4, <3>5, <3>6, <3>7
  <2> HIDE DEF nals
  <2>4. CASE body.kind = "single"
    <3>1. k = i + 1 /\ n = 1
      BY <1>1, <2>1, <2>4
    <3> DEFINE nal == nals[1]
    <3>2. nal = W[i + 1]
      BY <2>3, <3>1
    <3>3. nal \in Seq(U) /\ i \in Nat /\ i < Len(W)
      <4> DEFINE S == Seq(U)
      <4>1. W \in Seq(S) /\ i + 1 \in 1 .. Len(W)
        BY <1>1
      <4> HIDE DEF S
      <4>2. W[i + 1] \in S
        BY <4>1, ElementOfSeq
      <4>. QED  BY <4>2, <3>2, <1>1 DEF S
    <3> HIDE DEF nal
    <3>4. /\ HasRoom(d, nal) /\ Len(nal) <= MaxNalUnits /\ Full(WithNal(d, nal), W, i + 1)
      <4>1. Len(nal) = Len(W[i + 1])
        BY <3>2
      <4>. QED  BY <4>1, <3>3, FullNext
    <3>5. AcceptSingle(d, nal) = WithNal(d, nal)
      <4>1. ~(Len(nal) > MaxNalUnits)
        BY <3>3, <3>4, PayloadAssumption
      <4>. QED  BY <4>1, <3>4 DEF AcceptSingle
    <3>6. Accept(d, body) = AcceptSingle(d, nal)
      BY <2>2, <2>4 DEF Accept, nal, nals
    <3>. QED  BY <3>1, <3>4, <3>5, <3>6
  <2>5. CASE body.kind = "stap"
    <3>1. n \in Nat /\ i + n = k /\ i + n <= Len(W) /\ i \in Nat
      BY <1>1, <2>1
    <3> HIDE DEF n, i, k
    <3>2. Full(AcceptAggregate(d, nals), W, i + Len(nals))
      <4>1. Len(nals) \in Nat /\ i + Len(nals) <= Len(W)
            /\ \A j \in 1 .. Len(nals) : nals[j] = W[i + j]
        BY <2>3, <3>1
      <4>2. Full(d, W, i)
        BY DEF i
      <4>. QED  BY <3>1, <4>1, <4>2, AcceptAggregateFull
    <3>3. Accept(d, body) = AcceptAggregate(d, nals)
      BY <2>2, <2>5 DEF Accept, nals
    <3>4. i + Len(nals) = k
      BY <2>3, <3>1
    <3>. QED  BY <3>2, <3>3, <3>4 DEF k
  <2>. QED  BY <1>1, <1>3, <2>4, <2>5
<1>. QED  BY <1>2, <1>3

\* The depacketizer before packet j of an access unit: it has been given the ones
\* before, all of them and nothing else of it.
Awaits(d, W, place, first, j, timestamp) ==
    IF j = 1 THEN ~d.active \/ timestamp # d.timestamp
    ELSE /\ d.active /\ timestamp = d.timestamp
         /\ d.lastSequence = (first + (j - 1) - 1) % SequenceSpace
         /\ Holds(d, W, place[j - 1]) /\ Full(d, W, place[j - 1].nals)

LEMMA TakenFull ==
  ASSUME NEW U, NEW bodies \in Seq(MarkedOver(U)), NEW W \in Seq(Seq(U)), NEW place, Small(W),
         Carried(bodies, W, place), NEW first \in Nat,
         NEW d \in DepacketizersOver(U), NEW j \in 1 .. Len(bodies), NEW p,
         p.body = bodies[j].body, p.sequence = (first + j - 1) % SequenceSpace,
         p.timestamp \in Nat, p.captureTime \in Seq(Nat),
         Awaits(d, W, place, first, j, p.timestamp)
  PROVE  /\ Taken(d, p, SequenceSpace).lastSequence = p.sequence
         /\ Taken(d, p, SequenceSpace).active
         /\ Taken(d, p, SequenceSpace).timestamp = p.timestamp
         /\ Full(Taken(d, p, SequenceSpace), W, place[j].nals)
         /\ Holds(Taken(d, p, SequenceSpace), W, place[j])
<1> DEFINE fresh == ~d.active \/ p.timestamp # d.timestamp
<1> DEFINE begun == IF fresh THEN Started(d, p) ELSE d
<1> DEFINE gap == /\ begun.fragmented \/ begun.nals # <<>>
                  /\ (begun.lastSequence + 1) % SequenceSpace # p.sequence
<1> DEFINE x == [begun EXCEPT !.captureTime = IF @ = NoTime THEN p.captureTime ELSE @,
                              !.damaged = @ \/ gap,
                              !.lastSequence = p.sequence]
<1>1. /\ Started(d, p) \in DepacketizersOver(U) /\ HoldsNothing(Started(d, p))
      /\ Started(d, p).active /\ Started(d, p).timestamp = p.timestamp
      /\ ~Started(d, p).damaged /\ Started(d, p).units = 0
  <2>1. <<>> \in Seq(U) /\ <<>> \in Seq(Seq(U)) /\ 0 \in Nat
    OBVIOUS
  <2>. QED  BY <2>1 DEF DepacketizersOver, Started, Reset, HoldsNothing
<1>2. /\ place[j - 1] \in Places /\ place[j] \in Places
      /\ Carries(bodies[j].body, W, place[j - 1], place[j])
      /\ place[0] = Place(0, 0)
  <2>1. Len(bodies) \in Nat /\ j - 1 \in 0 .. Len(bodies) /\ j \in 0 .. Len(bodies)
    OBVIOUS
  <2>. QED  BY <2>1 DEF Carried
<1>3. SequenceSpace \in Nat /\ SequenceSpace > 0
  BY SequenceSpaceAssumption
<1>4. p.sequence \in Nat
  <2>1. first + j - 1 \in Nat
    OBVIOUS
  <2>. QED  BY <2>1, <1>3
<1>5. /\ begun \in DepacketizersOver(U) /\ begun.active /\ begun.timestamp = p.timestamp
      /\ Holds(begun, W, place[j - 1]) /\ Full(begun, W, place[j - 1].nals)
      /\ ~gap
  <2>1. CASE j = 1
    <3>1. fresh /\ j - 1 = 0 /\ place[j - 1] = Place(0, 0)
      BY <2>1, <1>2 DEF Awaits
    <3>2. begun = Started(d, p)
      BY <3>1
    <3> HIDE DEF begun, fresh
    <3>3. ~gap
      BY <1>1, <3>2 DEF HoldsNothing
    <3> HIDE DEF gap
    <3>4. Holds(begun, W, Place(0, 0))
      <4>1. 0 \in Nat /\ Len(W) \in Nat /\ 0 <= Len(W)
        OBVIOUS
      <4>. QED  BY <4>1, <1>1, <3>2, NothingHolds
    <3>5. Full(begun, W, 0)
      <4>1. UnitsUpTo(W, 0) = 0
        BY UnitsSteps
      <4>2. begun.nals = <<>> /\ Len(<<>>) = 0
        BY <1>1, <3>2 DEF HoldsNothing
      <4>. QED  BY <1>1, <3>2, <4>1, <4>2 DEF Full
    <3>6. Place(0, 0).nals = 0
      BY PlaceIs
    <3>. QED  BY <1>1, <3>1, <3>2, <3>3, <3>4, <3>5, <3>6
  <2>2. CASE j # 1
    <3>1. /\ d.active /\ p.timestamp = d.timestamp
          /\ d.lastSequence = (first + (j - 1) - 1) % SequenceSpace
          /\ Holds(d, W, place[j - 1]) /\ Full(d, W, place[j - 1].nals)
      BY <2>2 DEF Awaits
    <3>2. begun = d
      BY <3>1
    <3> HIDE DEF begun, fresh
    <3>3. (d.lastSequence + 1) % SequenceSpace = p.sequence
      <4> DEFINE y == first + (j - 1) - 1
      <4>1. y \in Nat /\ first + j - 1 = y + 1
        <5>1. j \in Nat /\ j >= 2
          BY <2>2
        <5>. QED  BY <5>1
      <4> HIDE DEF y
      <4>2. ((y % SequenceSpace) + 1) % SequenceSpace = (y + 1) % SequenceSpace
        <5>1. y \in Int /\ 1 \in Int
          BY <4>1
        <5>. QED  BY <5>1, <1>3, CountedOn
      <4>. QED  BY <4>1, <4>2, <3>1 DEF y
    <3>4. ~gap
      BY <3>2, <3>3
    <3>. QED  BY <3>1, <3>2, <3>4
  <2>. QED  BY <2>1, <2>2
<1>6. Taken(d, p, SequenceSpace) = Accept(x, p.body)
  BY DEF Taken
<1> HIDE DEF begun, gap
<1>7. /\ x \in DepacketizersOver(U) /\ x.active /\ x.timestamp = p.timestamp
      /\ x.lastSequence = p.sequence /\ x.damaged = begun.damaged
      /\ x.nals = begun.nals /\ x.fragmented = begun.fragmented /\ x.fragment = begun.fragment
      /\ x.units = begun.units
  BY <1>4, <1>5 DEF DepacketizersOver
<1> HIDE DEF x
<1>8. Holds(x, W, place[j - 1]) /\ Full(x, W, place[j - 1].nals)
  BY <1>5, <1>7 DEF Holds, Full
<1> DEFINE body == bodies[j].body
<1>9. body \in BodiesOver(U)
  <2> DEFINE S == MarkedOver(U)
  <2>1. bodies \in Seq(S)
    OBVIOUS
  <2> HIDE DEF S
  <2>2. bodies[j] \in S
    BY <2>1, ElementOfSeq
  <2>. QED  BY <2>2 DEF S, MarkedOver
<1> DEFINE e == Accept(x, body)
<1>10. Carries(body, W, place[j - 1], place[j])
  BY <1>2
<1> HIDE DEF body
<1>11. Full(e, W, place[j].nals)
  BY <1>2, <1>7, <1>8, <1>9, <1>10, AcceptFull
<1>12. Assembled(e, x) /\ (e.damaged \/ Holds(e, W, place[j]))
  BY <1>2, <1>7, <1>8, <1>9, <1>10, AcceptKeeps
<1>13. Taken(d, p, SequenceSpace) = e
  BY <1>6 DEF body
<1> HIDE DEF e
<1>14. ~e.damaged
  BY <1>11 DEF Full
<1>. QED  BY <1>7, <1>11, <1>12, <1>13, <1>14 DEF Assembled

-----------------------------------------------------------------------------
(* What is kept of an access unit is within its limits.                    *)

LEMMA TotalPrepended ==
  ASSUME NEW U, NEW nal \in Seq(U), NEW rest \in Seq(Seq(U))
  PROVE  /\ TotalUnits(<<nal>> \o rest) = Len(nal) + TotalUnits(rest)
         /\ TotalUnits(rest) \in Nat /\ Len(nal) \in Nat
<1> DEFINE S == Seq(U)
<1> DEFINE all == <<nal>> \o rest
<1> DEFINE n == Len(rest)
<1>1. /\ n \in Nat /\ all \in Seq(S) /\ Len(all) = n + 1 /\ all[1] = nal
      /\ \A i \in 1 .. n : all[i + 1] = rest[i]
  <2> HIDE DEF S
  <2>1. <<nal>> \in Seq(S) /\ Len(<<nal>>) = 1 /\ rest \in Seq(S) /\ n \in Nat
    BY LenProperties DEF S
  <2>2. /\ all \in Seq(S) /\ Len(all) = 1 + n
        /\ \A i \in 1 .. 1 + n : all[i] = IF i <= 1 THEN <<nal>>[i] ELSE rest[i - 1]
    BY <2>1, ConcatProperties
  <2>3. /\ 1 + n = n + 1 /\ 1 \in 1 .. 1 + n
        /\ \A i \in 1 .. n : i + 1 \in 1 .. 1 + n /\ ~(i + 1 <= 1) /\ (i + 1) - 1 = i
    BY <2>1
  <2> HIDE DEF all, n
  <2>4. all[1] = nal
    BY <2>2, <2>3
  <2>5. \A i \in 1 .. n : all[i + 1] = rest[i]
    BY <2>2, <2>3
  <2>. QED  BY <2>1, <2>2, <2>3, <2>4, <2>5
<1>2. Len(nal) \in Nat
  BY LenProperties
<1> DEFINE g(k) == UnitsUpTo(all, k)
<1> DEFINE h(k) == UnitsUpTo(rest, k)
<1> DEFINE x == Len(nal)
<1>3. /\ g(0) = 0 /\ \A k \in 1 .. n + 1 : g(k) = g(k - 1) + Len(all[k])
      /\ TotalUnits(all) = g(n + 1)
  <2>1. all \in Seq(Seq(U))
    BY <1>1
  <2> HIDE DEF all
  <2>2. /\ UnitsUpTo(all, 0) = 0
        /\ \A k \in 1 .. Len(all) : UnitsUpTo(all, k) = UnitsUpTo(all, k - 1) + Len(all[k])
        /\ TotalUnits(all) = UnitsUpTo(all, Len(all))
    BY <2>1, UnitsSteps
  <2>. QED  BY <2>2, <1>1
<1>4. /\ h(0) = 0 /\ \A k \in 1 .. n : h(k) = h(k - 1) + Len(rest[k])
      /\ \A k \in 0 .. n : h(k) \in Nat
      /\ TotalUnits(rest) = h(n)
  BY UnitsSteps
<1>5. \A k \in 1 .. n : Len(rest[k]) \in Nat
  <2> HIDE DEF S
  <2>1. rest \in Seq(S)
    BY DEF S
  <2>2. \A k \in 1 .. n : rest[k] \in S
    BY <2>1, ElementOfSeq
  <2>. QED  BY <2>2, LenProperties DEF S
<1> HIDE DEF all, n, g, h, x
<1> DEFINE bad == {k \in 0 .. n : g(k + 1) # x + h(k)}
<1>6. bad = {}
  <2> SUFFICES ASSUME bad # {} PROVE FALSE
    OBVIOUS
  <2>1. PICK k \in bad : \A m \in bad : k <= m
    <3>1. bad \subseteq Nat
      BY <1>1
    <3> HIDE DEF bad
    <3>. QED  BY <3>1, LeastNumber
  <2>2. k \in 0 .. n /\ g(k + 1) # x + h(k)
    BY <2>1
  <2>3. k # 0
    <3>1. CASE k = 0
      <4>1. g(1) = g(1 - 1) + Len(all[1]) /\ 1 - 1 = 0 /\ 0 + 1 = 1
        <5>1. 1 \in 1 .. n + 1
          BY <1>1
        <5>. QED  BY <5>1, <1>3
      <4>2. g(1) = 0 + x
        BY <4>1, <1>1, <1>3 DEF x
      <4>3. x \in Nat /\ h(0) = 0
        BY <1>2, <1>4 DEF x
      <4>. QED  BY <2>2, <3>1, <4>1, <4>2, <4>3
    <3>. QED  BY <3>1
  <2> DEFINE j == k - 1
  <2>4. /\ j \in 0 .. n /\ ~(k <= j) /\ k \in 1 .. n /\ j + 1 = k
        /\ k + 1 \in 1 .. n + 1 /\ (k + 1) - 1 = k
    BY <1>1, <2>2, <2>3
  <2>5. ~(j \in bad)
    <3> HIDE DEF bad, j
    <3>. QED  BY <2>1, <2>4
  <2>6. g(k) = x + h(j)
    BY <2>4, <2>5
  <2>7. g(k + 1) = g(k) + Len(rest[k])
    <3>1. g(k + 1) = g((k + 1) - 1) + Len(all[k + 1])
      BY <1>3, <2>4
    <3>2. all[k + 1] = rest[k]
      BY <1>1, <2>4
    <3>. QED  BY <3>1, <3>2, <2>4
  <2>8. h(k) = h(j) + Len(rest[k]) /\ h(j) \in Nat /\ Len(rest[k]) \in Nat /\ x \in Nat
    BY <1>2, <1>4, <1>5, <2>4 DEF x
  <2> HIDE DEF j
  <2> DEFINE a == h(j)
  <2> DEFINE b == Len(rest[k])
  <2>9. g(k + 1) = (x + a) + b /\ h(k) = a + b /\ a \in Nat /\ b \in Nat /\ x \in Nat
    BY <2>6, <2>7, <2>8
  <2> HIDE DEF a, b, bad
  <2>. QED  BY <2>2, <2>9
<1>7. n \in 0 .. n
  BY <1>1
<1>8. g(n + 1) = x + h(n) /\ h(n) \in Nat
  BY <1>4, <1>6, <1>7
<1>. QED  BY <1>2, <1>3, <1>4, <1>8 DEF x, all

\* What is kept from position `index` on: no more NALs, and units, than there are.
FittedFrom(nals, index) ==
    LET kept == KeptFrom(nals)[index]
    IN  /\ index + Len(kept) <= Len(nals) + 1
        /\ UnitsUpTo(nals, index - 1) + TotalUnits(kept) = TotalUnits(nals)
        /\ \A k \in 1 .. Len(kept) : \E n \in 1 .. Len(nals) : kept[k] = nals[n]

LEMMA StepFitted ==
  ASSUME NEW U, NEW nals \in Seq(Seq(U)), NEW index \in 1 .. Len(nals) + 1,
         index <= Len(nals) => FittedFrom(nals, index + 1)
  PROVE  FittedFrom(nals, index)
<1> DEFINE kept == KeptFrom(nals)
<1> DEFINE N == Len(nals)
<1> DEFINE S == Seq(U)
<1>1. N \in Nat /\ index \in Nat /\ index \in 1 .. N + 1
  OBVIOUS
<1>2. kept[index] = KeptAt(nals, kept, index)
  BY <1>1, FromSteps
<1>3. /\ UnitsUpTo(nals, 0) = 0
      /\ \A k \in 1 .. N : UnitsUpTo(nals, k) = UnitsUpTo(nals, k - 1) + Len(nals[k])
      /\ \A k \in 0 .. N : UnitsUpTo(nals, k) \in Nat
      /\ TotalUnits(nals) = UnitsUpTo(nals, N)
  BY UnitsSteps
<1>4. kept[index] \in Seq(S)
  <2>1. kept[index] \in Seq(Seq(U) \ {<<>>})
    BY KeptIsTyped
  <2>. QED  BY <2>1
<1> HIDE DEF S
<1>5. CASE index > N
  <2>1. kept[index] = <<>>
    BY <1>2, <1>5 DEF KeptAt
  <2>2. index = N + 1 /\ index - 1 = N
    BY <1>1, <1>5
  <2>3. TotalUnits(<<>>) = 0
    <3>1. <<>> \in Seq(Seq(U)) /\ Len(<<>>) = 0
      OBVIOUS
    <3>. QED  BY <3>1, UnitsSteps
  <2>4. Len(<<>>) = 0 /\ 1 .. 0 = {}
    OBVIOUS
  <2>5. N \in 0 .. N
    BY <1>1
  <2> DEFINE t == TotalUnits(nals)
  <2>6. UnitsUpTo(nals, index - 1) = t /\ t \in Nat
    BY <1>3, <2>2, <2>5
  <2> HIDE DEF t
  <2>7. UnitsUpTo(nals, index - 1) + TotalUnits(<<>>) = t
    BY <2>3, <2>6
  <2>8. index + 0 <= N + 1
    BY <2>2, <1>1
  <2> HIDE DEF kept
  <2>. QED  BY <2>1, <2>4, <2>7, <2>8 DEF FittedFrom, t, kept
<1>6. CASE ~(index > N)
  <2> DEFINE nal == nals[index]
  <2> DEFINE rest == kept[index + 1]
  <2> DEFINE u == UnitsUpTo(nals, index - 1)
  <2> DEFINE t == TotalUnits(nals)
  <2>1. index \in 1 .. N /\ index + 1 \in 1 .. N + 1 /\ (index + 1) - 1 = index /\ index - 1 \in 0 .. N
    BY <1>1, <1>6
  <2>2. nal \in Seq(U) /\ Len(nal) \in Nat
    <3> HIDE DEF N
    <3>1. nals \in Seq(S) /\ index \in 1 .. Len(nals)
      BY <2>1 DEF S, N
    <3>2. nal \in S
      BY <3>1, ElementOfSeq
    <3>. QED  BY <3>2, LenProperties DEF S
  <2>3. /\ (index + 1) + Len(rest) <= N + 1
        /\ UnitsUpTo(nals, index) + TotalUnits(rest) = t
        /\ \A k \in 1 .. Len(rest) : \E n \in 1 .. N : rest[k] = nals[n]
    <3>1. FittedFrom(nals, index + 1)
      BY <1>1, <1>6
    <3>. QED  BY <3>1, <2>1 DEF FittedFrom
  <2>4. UnitsUpTo(nals, index) = u + Len(nal) /\ u \in Nat
    BY <1>3, <2>1
  <2>5. rest \in Seq(Seq(U)) /\ Len(rest) \in Nat
    <3>1. rest \in Seq(Seq(U) \ {<<>>})
      BY <2>1, KeptIsTyped
    <3>2. rest \in Seq(Seq(U))
      BY <3>1
    <3>. QED  BY <3>2, LenProperties
  <2>6. TotalUnits(rest) \in Nat
    <3>1. Len(rest) \in 0 .. Len(rest)
      BY <2>5
    <3>. QED  BY <2>5, <3>1, UnitsSteps
  <2> DEFINE r == TotalUnits(rest)
  <2> DEFINE l == Len(rest)
  <2> DEFINE s == Len(nal)
  <2>7. /\ (u + s) + r = t /\ r \in Nat /\ l \in Nat /\ s \in Nat /\ u \in Nat
        /\ (index + 1) + l <= N + 1
    BY <2>2, <2>3, <2>4, <2>5, <2>6
  <2> HIDE DEF u, t, r, l, s, N
  <2>8. CASE nal = <<>>
    <3>1. kept[index] = rest
      BY <1>2, <1>6, <2>8 DEF KeptAt, N
    <3>2. s = 0
      BY <2>8 DEF s
    <3>3. index + l <= N + 1 /\ u + r = t
      BY <1>1, <2>7, <3>2
    <3> HIDE DEF kept, rest
    <3>. QED  BY <2>3, <3>1, <3>3 DEF FittedFrom, kept, u, t, r, l, N
  <2>9. CASE nal # <<>>
    <3> DEFINE all == <<nal>> \o rest
    <3>1. kept[index] = all
      BY <1>2, <1>6, <2>9 DEF KeptAt, N
    <3>2. TotalUnits(all) = s + r
      <4> HIDE DEF rest, nal
      <4>. QED  BY <2>2, <2>5, TotalPrepended DEF s, r
    <3>3. /\ Len(all) = l + 1
          /\ \A k \in 1 .. l + 1 : all[k] = IF k <= 1 THEN nal ELSE rest[k - 1]
      <4>1. <<nal>> \in Seq(S) /\ Len(<<nal>>) = 1 /\ rest \in Seq(S) /\ <<nal>>[1] = nal
        BY <2>2, <2>5 DEF S
      <4> HIDE DEF rest, nal
      <4>2. /\ Len(all) = 1 + l
            /\ \A k \in 1 .. 1 + l : all[k] = IF k <= 1 THEN <<nal>>[k] ELSE rest[k - 1]
        BY <4>1, ConcatProperties DEF l
      <4> HIDE DEF all
      <4>3. 1 + l = l + 1 /\ \A k \in 1 .. l + 1 : k <= 1 => k = 1
        BY <2>7
      <4>. QED  BY <4>1, <4>2, <4>3
    <3> HIDE DEF all, rest, nal
    <3>4. index + (l + 1) <= N + 1 /\ u + (s + r) = t
      BY <1>1, <2>7
    <3>5. \A k \in 1 .. l + 1 : \E n \in 1 .. N : all[k] = nals[n]
      <4> SUFFICES ASSUME NEW k \in 1 .. l + 1 PROVE \E n \in 1 .. N : all[k] = nals[n]
        OBVIOUS
      <4>1. CASE k = 1
        <5>1. all[k] = nal
          BY <3>3, <4>1
        <5>. QED  BY <5>1, <2>1 DEF nal, N
      <4>2. CASE k # 1
        <5>1. k - 1 \in 1 .. l /\ ~(k <= 1)
          BY <4>2, <2>7
        <5>2. all[k] = rest[k - 1]
          BY <3>3, <5>1
        <5>. QED  BY <2>3, <5>1, <5>2 DEF l
      <4>. QED  BY <4>1, <4>2
    <3> HIDE DEF kept
    <3>. QED  BY <3>1, <3>2, <3>3, <3>4, <3>5 DEF FittedFrom, kept, u, t, N
  <2>. QED  BY <2>8, <2>9
<1>. QED  BY <1>5, <1>6

LEMMA KeptFits ==
  ASSUME NEW U, NEW nals \in Seq(Seq(U))
  PROVE  /\ Len(Kept(nals)) <= Len(nals) /\ TotalUnits(Kept(nals)) = TotalUnits(nals)
         /\ \A k \in 1 .. Len(Kept(nals)) : \E n \in 1 .. Len(nals) : Kept(nals)[k] = nals[n]
<1> DEFINE last == Len(nals) + 1
<1> DEFINE bad == {n \in 0 .. Len(nals) : ~FittedFrom(nals, last - n)}
<1>0. Len(nals) \in Nat /\ bad \subseteq Nat
  OBVIOUS
<1>1. bad = {}
  <2> SUFFICES ASSUME bad # {} PROVE FALSE
    OBVIOUS
  <2>1. PICK n \in bad : \A m \in bad : n <= m
    <3> HIDE DEF bad
    <3>. QED  BY <1>0, LeastNumber
  <2> DEFINE index == last - n
  <2>2. n \in 0 .. Len(nals) /\ ~FittedFrom(nals, index) /\ index \in 1 .. Len(nals) + 1
    BY <2>1, <1>0
  <2>3. index <= Len(nals) => FittedFrom(nals, index + 1)
    <3> SUFFICES ASSUME index <= Len(nals) PROVE FittedFrom(nals, index + 1)
      OBVIOUS
    <3> DEFINE m == n - 1
    <3>1. m \in 0 .. Len(nals) /\ ~(n <= m) /\ last - m = index + 1
      BY <1>0, <2>2
    <3>2. ~(m \in bad)
      <4> HIDE DEF bad, m
      <4>. QED  BY <2>1, <2>2, <3>1
    <3>3. FittedFrom(nals, last - m)
      BY <3>1, <3>2
    <3>. QED  BY <3>1, <3>3
  <2>. QED  BY <2>2, <2>3, StepFitted
<1>2. FittedFrom(nals, 1)
  <2>1. Len(nals) \in 0 .. Len(nals) /\ last - Len(nals) = 1
    BY <1>0
  <2>2. ~FittedFrom(nals, last - Len(nals)) => Len(nals) \in bad
    BY <2>1
  <2> HIDE DEF bad
  <2>. QED  BY <1>1, <2>1, <2>2
<1> DEFINE W == Kept(nals)
<1>3. /\ 1 + Len(W) <= Len(nals) + 1
      /\ UnitsUpTo(nals, 0) + TotalUnits(W) = TotalUnits(nals)
      /\ \A k \in 1 .. Len(W) : \E n \in 1 .. Len(nals) : W[k] = nals[n]
  <2>1. 1 - 1 = 0
    OBVIOUS
  <2>. QED  BY <1>2, <2>1, BodiesAreFrom, Zenon DEF FittedFrom
<1>4. Len(W) \in Nat /\ TotalUnits(W) \in Nat /\ UnitsUpTo(nals, 0) = 0
  <2>1. W \in Seq(Seq(U) \ {<<>>})
    BY PacketizeCarries
  <2>2. W \in Seq(Seq(U))
    BY <2>1
  <2>3. Len(W) \in Nat /\ Len(W) \in 0 .. Len(W)
    BY <2>2, LenProperties
  <2>. QED  BY <2>2, <2>3, UnitsSteps
<1> HIDE DEF W
<1>5. Len(W) <= Len(nals)
  BY <1>0, <1>3, <1>4
<1>6. TotalUnits(W) = TotalUnits(nals)
  BY <1>3, <1>4
<1>. QED  BY <1>3, <1>5, <1>6 DEF W

LEMMA SmallEnough ==
  ASSUME IsStream(stream), NEW a \in 1 .. Len(stream), WithinLimits(a)
  PROVE  Small(Kept(UnitsOf(stream, a)))
<1> DEFINE nals == UnitsOf(stream, a)
<1> DEFINE unit == stream[a]
<1> DEFINE R == [type : STRING, size : Nat]
<1> DEFINE Q == Seq(R)
<1>1. nals \in Seq(Seq(UnitIds)) /\ Len(nals) = Len(unit)
  BY UnitsAre, UnitsAreHeaded
<1>2. nals = NalsOf(a)
  BY DEF NalsOf, UnitsOf
<1>3. unit \in Seq(R)
  <2>1. stream \in Seq(Q)
    BY DEF IsStream
  <2> HIDE DEF Q
  <2>2. unit \in Q
    BY <2>1, ElementOfSeq
  <2>. QED  BY <2>2 DEF Q
<1>4. /\ Len(unit) <= MaxNals /\ TotalUnits(nals) <= MaxAuUnits
      /\ \A n \in DOMAIN unit : unit[n].size <= MaxNalUnits
  BY <1>2 DEF WithinLimits
<1>5. nals = [n \in DOMAIN unit |-> [i \in 1 .. unit[n].size |-> <<a, n, i>>]]
  BY DEF UnitsOf
<1> HIDE DEF nals, unit
<1>6. DOMAIN unit = 1 .. Len(unit) /\ Len(unit) \in Nat
  BY <1>3, LenProperties
<1>7. ASSUME NEW n \in 1 .. Len(nals)
      PROVE  Len(nals[n]) <= MaxNalUnits
  <2>1. n \in DOMAIN unit
    BY <1>1, <1>6
  <2> DEFINE z == unit[n].size
  <2> DEFINE s == [i \in 1 .. z |-> <<a, n, i>>]
  <2>2. z \in Nat /\ z <= MaxNalUnits
    <3>1. unit[n] \in R
      BY <1>3, <1>6, <2>1, ElementOfSeq
    <3>. QED  BY <3>1, <2>1, <1>4
  <2>3. nals[n] = s
    BY <1>5, <2>1
  <2> HIDE DEF z
  <2>4. Len(s) = z
    BY <2>2
  <2> HIDE DEF s
  <2>. QED  BY <2>2, <2>3, <2>4
<1> DEFINE W == Kept(nals)
<1>8. /\ Len(W) <= Len(nals) /\ TotalUnits(W) = TotalUnits(nals)
      /\ \A k \in 1 .. Len(W) : \E n \in 1 .. Len(nals) : W[k] = nals[n]
  BY <1>1, KeptFits
<1>9. Len(W) \in Nat
  <2>1. W \in Seq(Seq(UnitIds))
    BY UnitIsCarried DEF nals
  <2>. QED  BY <2>1, LenProperties
<1> HIDE DEF W
<1>10. Len(W) <= MaxNals
  BY <1>1, <1>4, <1>6, <1>8, <1>9, PayloadAssumption
<1>11. \A k \in 1 .. Len(W) : Len(W[k]) <= MaxNalUnits
  BY <1>7, <1>8
<1>12. Small(W)
  BY <1>4, <1>8, <1>10, <1>11 DEF Small
<1>. QED  BY <1>12 DEF W, nals

-----------------------------------------------------------------------------
(* An access unit that arrives intact is completed.                        *)

\* The arrivals of the packets that were sent of the first `count` access units.
SentArrivals(s, count, first) ==
    UNION {{[sequence |-> (first[a] + j - 1) % SequenceSpace, timestamp |-> a] :
               j \in 1 .. Len(Bodies(UnitsOf(s, a)))} : a \in 1 .. count}

Heard(first) == arrivals \in Seq(SentArrivals(stream, auCount, first))

\* The arrivals end with the first m packets of access unit a, the first of which
\* has number f, in order, and no other packet of it arrived before.
EndsIn(packets, m, a, f) ==
    /\ m <= Len(packets)
    /\ \A k \in 1 .. Len(packets) : packets[k].timestamp = a <=> k > Len(packets) - m
    /\ \A i \in 1 .. m :
          packets[(Len(packets) - m) + i].sequence = (f + i - 1) % SequenceSpace

\* The depacketizer holds what the first m packets of access unit a carry.
After(s, d, m, a, f) ==
    /\ d.active /\ d.timestamp = a /\ d.lastSequence = (f + m - 1) % SequenceSpace
    /\ Holds(d, Kept(UnitsOf(s, a)), PlaceOf(UnitsOf(s, a))[m])
    /\ Full(d, Kept(UnitsOf(s, a)), PlaceOf(UnitsOf(s, a))[m].nals)

IsAfter(m, a, f) ==
    WithinLimits(a) /\ EndsIn(arrivals, m, a, f) => After(stream, depacketizer, m, a, f)

Intact(first) ==
    \A a \in 1 .. auCount : \A m \in 1 .. Len(Bodies(UnitsOf(stream, a))) - 1 : IsAfter(m, a, first[a])

\* What is being assembled is of packets that arrived.
Seen ==
    depacketizer.active =>
       \E k \in 1 .. Len(arrivals) : arrivals[k].timestamp = depacketizer.timestamp

IntactInv == Seen /\ \E first : Sent(first) /\ Heard(first) /\ Intact(first)

\* The packets' numbers, within an access unit, tell them apart.
LEMMA NumbersDiffer ==
  ASSUME NEW f \in Nat, NEW n \in Nat, n < SequenceSpace, NEW j \in 1 .. n, NEW m \in 1 .. n,
         (f + j - 1) % SequenceSpace = (f + m - 1) % SequenceSpace
  PROVE  j = m
<1> DEFINE S == SequenceSpace
<1> DEFINE x == f + j - 1
<1> DEFINE y == f + m - 1
<1>1. S \in Nat /\ S > 0
  BY SequenceSpaceAssumption
<1>2. x \in Int /\ y \in Int /\ x - y = j - m /\ x < y + S /\ y < x + S /\ n < S
  BY <1>1
<1> HIDE DEF S
<1>3. x % S = y % S
  BY DEF S
<1> HIDE DEF x, y
<1>4. ~(x < y)
  BY <1>1, <1>2, <1>3, ToldApart
<1>5. ~(y < x)
  BY <1>1, <1>2, <1>3, ToldApart
<1>6. x = y
  BY <1>2, <1>4, <1>5
<1>. QED  BY <1>2, <1>6

LEMMA ArrivalsLater ==
  ASSUME NEW s, NEW count \in Nat, NEW more \in Nat, count <= more, NEW first, NEW later,
         \A a \in 1 .. count : later[a] = first[a]
  PROVE  SentArrivals(s, count, first) \subseteq SentArrivals(s, more, later)
<1>1. \A a \in 1 .. count : a \in 1 .. more
  OBVIOUS
<1> DEFINE Of(a, f) == {[sequence |-> (f + j - 1) % SequenceSpace, timestamp |-> a] :
                           j \in 1 .. Len(Bodies(UnitsOf(s, a)))}
<1>2. \A a \in 1 .. count : Of(a, first[a]) = Of(a, later[a])
  OBVIOUS
<1>3. /\ SentArrivals(s, count, first) = UNION {Of(a, first[a]) : a \in 1 .. count}
      /\ SentArrivals(s, more, later) = UNION {Of(a, later[a]) : a \in 1 .. more}
  BY DEF SentArrivals
<1> HIDE DEF Of
<1>. QED  BY <1>1, <1>2, <1>3

\* One arrival more.
LEMMA OneMoreArrives ==
  ASSUME NEW S, NEW packets \in Seq(S), NEW x \in S, NEW m \in Nat \ {0}, NEW a, NEW f \in Nat,
         EndsIn(Append(packets, x), m, a, f)
  PROVE  /\ x.timestamp = a /\ x.sequence = (f + m - 1) % SequenceSpace
         /\ m = 1 => \A k \in 1 .. Len(packets) : packets[k].timestamp # a
         /\ m # 1 => m - 1 \in Nat \ {0} /\ EndsIn(packets, m - 1, a, f)
<1> DEFINE more == Append(packets, x)
<1> DEFINE n == Len(packets)
<1>1. /\ n \in Nat /\ Len(more) = n + 1 /\ more[n + 1] = x
      /\ \A k \in 1 .. n : more[k] = packets[k]
  BY AppendProperties, LenProperties
<1>2. /\ m <= n + 1
      /\ \A k \in 1 .. n + 1 : more[k].timestamp = a <=> k > (n + 1) - m
      /\ \A i \in 1 .. m : more[((n + 1) - m) + i].sequence = (f + i - 1) % SequenceSpace
  <2> HIDE DEF more
  <2>1. EndsIn(more, m, a, f)
    BY DEF more
  <2>. QED  BY <1>1, <2>1 DEF EndsIn
<1> HIDE DEF more, n
<1>3. x.timestamp = a
  <2>1. n + 1 \in 1 .. n + 1 /\ n + 1 > (n + 1) - m
    BY <1>1
  <2>. QED  BY <1>1, <1>2, <2>1
<1>4. x.sequence = (f + m - 1) % SequenceSpace
  <2>1. m \in 1 .. m /\ ((n + 1) - m) + m = n + 1
    BY <1>1
  <2>. QED  BY <1>1, <1>2, <2>1
<1>5. \A k \in 1 .. n : k \in 1 .. n + 1 /\ (packets[k].timestamp = a <=> k > (n + 1) - m)
  <2> TAKE k \in 1 .. n
  <2>1. k \in 1 .. n + 1
    BY <1>1
  <2>. QED  BY <1>1, <1>2, <2>1
<1>6. ASSUME m = 1
      PROVE  \A k \in 1 .. n : packets[k].timestamp # a
  <2> TAKE k \in 1 .. n
  <2>1. ~(k > (n + 1) - m)
    BY <1>1, <1>6
  <2>. QED  BY <1>5, <2>1
<1>7. ASSUME m # 1
      PROVE  m - 1 \in Nat \ {0} /\ EndsIn(packets, m - 1, a, f)
  <2> DEFINE p == m - 1
  <2>1. p \in Nat \ {0} /\ m = p + 1 /\ (n + 1) - m = n - p /\ p <= n
    BY <1>1, <1>2, <1>7
  <2> HIDE DEF p
  <2>2. \A k \in 1 .. n : packets[k].timestamp = a <=> k > n - p
    BY <1>5, <2>1
  <2>3. \A i \in 1 .. p : packets[(n - p) + i].sequence = (f + i - 1) % SequenceSpace
    <3> TAKE i \in 1 .. p
    <3>1. i \in 1 .. m /\ (n - p) + i \in 1 .. n
      BY <1>1, <2>1
    <3>2. more[(n - p) + i].sequence = (f + i - 1) % SequenceSpace
      BY <1>2, <2>1, <3>1
    <3>. QED  BY <1>1, <3>1, <3>2
  <2>. QED  BY <2>1, <2>2, <2>3 DEF EndsIn, n, p
<1>. QED  BY <1>3, <1>4, <1>6, <1>7 DEF n

\* What the loop reads, given what it has been given.
LEMMA ReadAfter ==
  ASSUME TransportInv, ShortUnits, Seen, NEW first, Sent(first), Heard(first), Intact(first),
         NEW k \in DOMAIN channel, NEW read, Reading(k, read),
         NEW a \in 1 .. auCount, WithinLimits(a), NEW m \in 1 .. Len(Bodies(UnitsOf(stream, a))),
         EndsIn(Append(arrivals, [sequence |-> read.sequence, timestamp |-> read.timestamp]),
                m, a, first[a])
  PROVE  /\ read.timestamp = a /\ read.marker = Bodies(UnitsOf(stream, a))[m].marker
         /\ After(stream, Taken(depacketizer, read, SequenceSpace), m, a, first[a])
<1> DEFINE x == [sequence |-> read.sequence, timestamp |-> read.timestamp]
<1> DEFINE f == first[a]
<1> DEFINE nals == UnitsOf(stream, a)
<1> DEFINE bodies == Bodies(nals)
<1> DEFINE W == Kept(nals)
<1> DEFINE place == PlaceOf(nals)
<1> DEFINE n == Len(bodies)
<1>1. IsStream(stream) /\ Len(stream) \in Nat /\ a \in 1 .. Len(stream) /\ a \in Nat /\ auCount \in Nat
  BY StreamIs DEF TransportInv
<1>2. /\ bodies \in Seq(MarkedOver(UnitIds)) /\ W \in Seq(Seq(UnitIds))
      /\ Carried(bodies, W, place)
  BY <1>1, UnitIsCarried
<1>3. n \in Nat /\ n < SequenceSpace
  <2>1. IsShort(stream) /\ a \in DOMAIN stream
    BY <1>1, StreamIs DEF TransportInv, ShortUnits
  <2>2. n < SequenceSpace
    BY <2>1 DEF IsShort
  <2>. QED  BY <1>2, <2>2, LenProperties
<1>4. f \in Nat
  BY <1>1, SequenceSpaceAssumption DEF Sequences16, Sent
<1>5. PICK b \in 1 .. auCount : \E j \in 1 .. Len(Bodies(UnitsOf(stream, b))) :
          /\ channel[k].timestamp = b
          /\ channel[k].marker = Bodies(UnitsOf(stream, b))[j].marker
          /\ channel[k].body = Bodies(UnitsOf(stream, b))[j].body
          /\ channel[k].sequence = (first[b] + j - 1) % SequenceSpace
  BY PacketFacts
<1>6. x \in SentArrivals(stream, auCount, first)
  <2>1. PICK j \in 1 .. Len(Bodies(UnitsOf(stream, b))) :
           /\ channel[k].timestamp = b
           /\ channel[k].sequence = (first[b] + j - 1) % SequenceSpace
    BY <1>5
  <2>2. x = [sequence |-> (first[b] + j - 1) % SequenceSpace, timestamp |-> b]
    BY <2>1 DEF Reading
  <2> HIDE DEF x
  <2>. QED  BY <2>2 DEF SentArrivals
<1>7. arrivals \in Seq(SentArrivals(stream, auCount, first))
  BY DEF Heard
<1> DEFINE A == SentArrivals(stream, auCount, first)
<1>8. m \in Nat \ {0} /\ x.timestamp = read.timestamp /\ x.sequence = read.sequence
  BY <1>3
<1> HIDE DEF A, x, f
<1>9. /\ x.timestamp = a /\ x.sequence = (f + m - 1) % SequenceSpace
      /\ m = 1 => \A i \in 1 .. Len(arrivals) : arrivals[i].timestamp # a
      /\ m # 1 => m - 1 \in Nat \ {0} /\ EndsIn(arrivals, m - 1, a, f)
  <2>1. arrivals \in Seq(A) /\ x \in A
    BY <1>6, <1>7 DEF A
  <2>2. EndsIn(Append(arrivals, x), m, a, f)
    BY DEF x, f
  <2>. QED  BY <1>4, <1>8, <2>1, <2>2, OneMoreArrives
<1> HIDE DEF bodies, W, place, n
<1>10. read.timestamp = a /\ read.sequence = (f + m - 1) % SequenceSpace
  BY <1>8, <1>9
<1>11. PICK j \in 1 .. n : /\ read.marker = bodies[j].marker /\ read.body = bodies[j].body
                           /\ read.sequence = (f + j - 1) % SequenceSpace
  <2>1. b = a
    BY <1>5, <1>10 DEF Reading
  <2>. QED  BY <1>5, <2>1 DEF Reading, f, bodies, n
<1>12. m \in 1 .. n
  BY DEF n, bodies
<1>13. j = m
  BY <1>3, <1>4, <1>10, <1>11, <1>12, NumbersDiffer
<1>14. Awaits(depacketizer, W, place, f, m, a)
  <2>1. CASE m = 1
    <3>1. ~(depacketizer.active /\ depacketizer.timestamp = a)
      BY <1>9, <2>1 DEF Seen
    <3>. QED  BY <2>1, <3>1 DEF Awaits
  <2>2. CASE m # 1
    <3>1. m - 1 \in 1 .. n - 1
      BY <1>3, <1>12, <2>2
    <3>2. IsAfter(m - 1, a, f)
      BY <3>1 DEF Intact, f, n, bodies
    <3>3. After(stream, depacketizer, m - 1, a, f)
      BY <1>9, <2>2, <3>2 DEF IsAfter
    <3>. QED  BY <2>2, <3>3 DEF After, Awaits, W, place
  <2>. QED  BY <2>1, <2>2
<1>15. Small(W)
  BY <1>1, SmallEnough DEF W
<1>16. depacketizer \in DepacketizersOver(UnitIds) /\ read.captureTime \in Seq(Nat)
  BY TakenOnPath DEF Reading
<1> DEFINE e == Taken(depacketizer, read, SequenceSpace)
<1>17. /\ e.lastSequence = read.sequence /\ e.active /\ e.timestamp = read.timestamp
       /\ Full(e, W, place[m].nals) /\ Holds(e, W, place[m])
  <2>1. read.body = bodies[m].body /\ read.sequence = (f + m - 1) % SequenceSpace
        /\ read.timestamp \in Nat /\ Awaits(depacketizer, W, place, f, m, read.timestamp)
    BY <1>1, <1>10, <1>11, <1>13, <1>14
  <2>2. m \in 1 .. Len(bodies)
    BY <1>12 DEF n
  <2>. QED  BY <1>2, <1>4, <1>15, <1>16, <2>1, <2>2, TakenFull, SMTT(60)
<1> HIDE DEF e
<1>18. After(stream, e, m, a, f)
  BY <1>10, <1>17 DEF After, W, place
<1>19. read.marker = bodies[m].marker
  BY <1>11, <1>13
<1>. QED  BY <1>10, <1>18, <1>19 DEF e, f, bodies

LEMMA InitIntact == Init => IntactInv
<1> SUFFICES ASSUME Init PROVE IntactInv
  OBVIOUS
<1>1. PICK first : Sent(first)
  BY InitTransport DEF TransportInv
<1>2. auCount = 0 /\ arrivals = <<>> /\ depacketizer = EmptyDepacketizer
  BY DEF Init
<1>3. Heard(first)
  <2> DEFINE A == SentArrivals(stream, auCount, first)
  <2> HIDE DEF A
  <2>1. arrivals \in Seq(A)
    BY <1>2
  <2>. QED  BY <2>1 DEF Heard, A
<1>4. Intact(first)
  BY <1>2 DEF Intact
<1>5. Seen
  BY <1>2 DEF Seen, EmptyDepacketizer
<1>. QED  BY <1>1, <1>3, <1>4, <1>5 DEF IntactInv

\* An access unit none of whose packets arrived is not among the last arrivals.
LEMMA NotYetHeard ==
  ASSUME NEW s, NEW count \in Nat, NEW first, NEW packets \in Seq(SentArrivals(s, count, first)),
         NEW m \in Nat \ {0}, NEW a, NEW f, EndsIn(packets, m, a, f)
  PROVE  a \in 1 .. count
<1> DEFINE n == Len(packets)
<1>1. n \in Nat
  BY LenProperties
<1>2. n \in 1 .. n /\ n > n - m
  <2>1. m <= n
    BY DEF EndsIn
  <2>. QED  BY <1>1, <2>1
<1>3. packets[n].timestamp = a
  BY <1>2 DEF EndsIn
<1>4. PICK b \in 1 .. count : \E j \in 1 .. Len(Bodies(UnitsOf(s, b))) :
         packets[n] = [sequence |-> (first[b] + j - 1) % SequenceSpace, timestamp |-> b]
  <2> DEFINE A == SentArrivals(s, count, first)
  <2>1. packets \in Seq(A) /\ n \in 1 .. Len(packets)
    BY <1>2
  <2> HIDE DEF n, A
  <2>2. packets[n] \in A
    BY <2>1, ElementOfSeq
  <2>. QED  BY <2>2 DEF A, SentArrivals
<1>5. packets[n].timestamp = b
  BY <1>4
<1>. QED  BY <1>3, <1>5

\* The packets that are fed, given what has arrived.
LEMMA FedIntact ==
  ASSUME TransportInv, ShortUnits, Seen, NEW first, Sent(first), Heard(first), Intact(first),
         NEW k \in DOMAIN channel, NEW read, Reading(k, read), Feed(read), UNCHANGED sender
  PROVE  Seen' /\ Heard(first)' /\ Intact(first)'
<1> DEFINE x == [sequence |-> read.sequence, timestamp |-> read.timestamp]
<1> DEFINE A == SentArrivals(stream, auCount, first)
<1> DEFINE n == Len(arrivals)
<1> DEFINE e == Taken(depacketizer, read, SequenceSpace)
<1>1. /\ stream' = stream /\ auCount' = auCount /\ arrivals' = Append(arrivals, x)
      /\ depacketizer' = Pushed(depacketizer, read, SequenceSpace)
  BY DEF Feed, sender
<1>2. PICK b \in 1 .. auCount : \E j \in 1 .. Len(Bodies(UnitsOf(stream, b))) :
          /\ channel[k].timestamp = b
          /\ channel[k].sequence = (first[b] + j - 1) % SequenceSpace
  BY PacketFacts
<1>3. x \in A
  <2>1. PICK j \in 1 .. Len(Bodies(UnitsOf(stream, b))) :
           /\ channel[k].timestamp = b
           /\ channel[k].sequence = (first[b] + j - 1) % SequenceSpace
    BY <1>2
  <2>2. x = [sequence |-> (first[b] + j - 1) % SequenceSpace, timestamp |-> b]
    BY <2>1 DEF Reading
  <2> HIDE DEF x
  <2>. QED  BY <2>2 DEF SentArrivals
<1>4. arrivals \in Seq(A)
  BY DEF Heard
<1>5. x.timestamp = read.timestamp
  OBVIOUS
<1> HIDE DEF x, A, n
<1>6. /\ arrivals' \in Seq(A) /\ n \in Nat /\ Len(arrivals') = n + 1 /\ arrivals'[n + 1] = x
  BY <1>1, <1>3, <1>4, AppendProperties, LenProperties DEF n
<1>7. Heard(first)'
  BY <1>1, <1>6 DEF Heard, A
<1>8. e \in DepacketizersOver(UnitIds) /\ e.timestamp = read.timestamp
  BY TakenOnPath DEF Reading
<1>9. Pushed(depacketizer, read, SequenceSpace) = IF read.marker THEN Reset(e) ELSE e
  BY DEF Pushed
<1> HIDE DEF e
<1>10. Reset(e).active = FALSE
  BY <1>8, ResetIs DEF Reset, DepacketizersOver
<1>11. Seen'
  <2> SUFFICES ASSUME depacketizer'.active
               PROVE  \E i \in 1 .. Len(arrivals') : arrivals'[i].timestamp = depacketizer'.timestamp
    BY DEF Seen
  <2>1. depacketizer' = e
    BY <1>1, <1>9, <1>10
  <2>2. n + 1 \in 1 .. Len(arrivals') /\ arrivals'[n + 1].timestamp = depacketizer'.timestamp
    BY <2>1, <1>5, <1>6, <1>8
  <2>. QED  BY <2>2
<1>12. ASSUME NEW a \in 1 .. auCount, NEW m \in 1 .. Len(Bodies(UnitsOf(stream, a))) - 1,
              WithinLimits(a), EndsIn(arrivals', m, a, first[a])
       PROVE  After(stream, depacketizer', m, a, first[a])
  <2> DEFINE N == Len(Bodies(UnitsOf(stream, a)))
  <2>1. /\ N \in Nat /\ Carried(Bodies(UnitsOf(stream, a)), Kept(UnitsOf(stream, a)),
                                 PlaceOf(UnitsOf(stream, a)))
    <3>1. a \in 1 .. Len(stream) /\ IsStream(stream)
      BY StreamIs DEF TransportInv
    <3>. QED  BY <3>1, UnitIsCarried, LenProperties
  <2>2. m \in 1 .. N - 1
    BY <1>12
  <2> HIDE DEF N
  <2>3. m \in 1 .. N
    BY <2>1, <2>2
  <2>4. EndsIn(Append(arrivals, [sequence |-> read.sequence, timestamp |-> read.timestamp]),
               m, a, first[a])
    BY <1>1, <1>12 DEF x
  <2>5. read.marker = Bodies(UnitsOf(stream, a))[m].marker /\ After(stream, e, m, a, first[a])
    BY <1>12, <2>3, <2>4, ReadAfter DEF N, e
  <2>6. ~Bodies(UnitsOf(stream, a))[m].marker
    BY <2>1, <2>2 DEF Carried, N
  <2>7. depacketizer' = e
    BY <1>1, <1>9, <2>5, <2>6
  <2>. QED  BY <2>5, <2>7
<1>13. Intact(first)'
  <2>1. \A a : WithinLimits(a)' = WithinLimits(a)
    BY <1>1 DEF WithinLimits, NalsOf
  <2>. QED  BY <1>1, <1>12, <2>1 DEF Intact, IsAfter
<1>. QED  BY <1>7, <1>11, <1>13

LEMMA NextIntact ==
  ASSUME TransportInv, ShortUnits, ReadsBack, IntactInv, [Next]_vars
  PROVE  IntactInv'
<1>1. PICK first : Sent(first) /\ Heard(first) /\ Intact(first)
  BY DEF IntactInv
<1>2. Seen /\ stream' = stream
  BY DEF IntactInv, Next, SendAccessUnit, TakeOver, Intrude, Lose, Deliver, vars, sender
<1>3. ASSUME NEW k \in DOMAIN channel, NEW read, Reading(k, read), Feed(read), UNCHANGED sender,
             channel' = channel \/ channel' = RemoveAt(channel, k)
      PROVE  IntactInv'
  <2>1. Sent(first)'
    BY <1>1, <1>3, FedKeeps
  <2>2. Seen' /\ Heard(first)' /\ Intact(first)'
    BY <1>1, <1>2, <1>3, FedIntact
  <2>. QED  BY <2>1, <2>2 DEF IntactInv
<1>4. ASSUME UNCHANGED <<depacketizer, synchronized, completed, decoded, arrivals>>
      PROVE  IntactInv'
  <2>1. auCount \in Nat /\ auCount' \in Nat /\ auCount <= auCount'
    <3>1. TransportInv'
      BY NextTransport
    <3>2. auCount \in Nat /\ auCount' \in Nat
      BY <3>1, StreamIs, <1>2 DEF TransportInv
    <3>3. auCount' = auCount \/ auCount' = auCount + 1
          \/ \E t \in DOMAIN stream : t > auCount /\ auCount' = t - 1
      BY DEF Next, SendAccessUnit, TakeOver, Intrude, Lose, Deliver, vars, sender
    <3>4. DOMAIN stream \subseteq Nat
      BY StreamIs
    <3>. QED  BY <3>2, <3>3, <3>4
  <2>2. PICK later : Sent(later)' /\ \A a \in 1 .. auCount : later[a] = first[a]
    BY <1>1, NextSent DEF SentOn
  <2>3. Heard(later)'
    <3>1. SentArrivals(stream, auCount, first) \subseteq SentArrivals(stream, auCount', later)
      BY <2>1, <2>2, ArrivalsLater
    <3>2. arrivals \in Seq(SentArrivals(stream, auCount', later))
      BY <1>1, <3>1, SeqMonotonic DEF Heard
    <3>. QED  BY <1>2, <1>4, <3>2 DEF Heard
  <2>4. Seen'
    BY <1>2, <1>4 DEF Seen
  <2>5. ASSUME NEW a \in 1 .. auCount', NEW m \in 1 .. Len(Bodies(UnitsOf(stream, a))) - 1,
               WithinLimits(a), EndsIn(arrivals, m, a, later[a])
        PROVE  After(stream, depacketizer, m, a, later[a])
    <3>1. m \in Nat \ {0}
      OBVIOUS
    <3>2. a \in 1 .. auCount
      BY <1>1, <2>1, <2>5, <3>1, NotYetHeard DEF Heard
    <3>3. later[a] = first[a]
      BY <2>2, <3>2
    <3>4. IsAfter(m, a, first[a])
      BY <1>1, <2>5, <3>2 DEF Intact
    <3>. QED  BY <2>5, <3>3, <3>4 DEF IsAfter
  <2>6. Intact(later)'
    <3>1. \A a : WithinLimits(a)' = WithinLimits(a)
      BY <1>2 DEF WithinLimits, NalsOf
    <3>. QED  BY <1>2, <1>4, <2>5, <3>1 DEF Intact, IsAfter
  <2>. QED  BY <2>2, <2>3, <2>4, <2>6 DEF IntactInv
<1>. QED  BY <1>3, <1>4, ReadSteps

\* Numbers up to n that rise by one are all of them.
LEMMA RisingNumbers ==
  ASSUME NEW n \in Nat, NEW g, \A i \in 1 .. n : g[i] \in 1 .. n,
         \A i \in 1 .. n : i # 1 => g[i - 1] = g[i] - 1
  PROVE  \A i \in 1 .. n : g[i] = i
<1> DEFINE low == {i \in 1 .. n : g[i] < i}
<1>1. low = {}
  <2> SUFFICES ASSUME low # {} PROVE FALSE
    OBVIOUS
  <2>1. PICK k \in low : \A m \in low : k <= m
    <3>1. low \subseteq Nat
      OBVIOUS
    <3> HIDE DEF low
    <3>. QED  BY <3>1, LeastNumber
  <2>2. k \in 1 .. n /\ g[k] < k /\ g[k] \in 1 .. n
    BY <2>1
  <2>3. k # 1
    BY <2>2
  <2> DEFINE j == k - 1
  <2>4. j \in 1 .. n /\ ~(k <= j) /\ k = j + 1
    BY <2>2, <2>3
  <2>5. ~(j \in low)
    <3> HIDE DEF low, j
    <3>. QED  BY <2>1, <2>4
  <2>6. g[j] \in 1 .. n /\ ~(g[j] < j) /\ g[j] = g[k] - 1
    BY <2>2, <2>3, <2>4, <2>5
  <2> HIDE DEF j, low
  <2>. QED  BY <2>2, <2>4, <2>6
<1> DEFINE high == {i \in 0 .. n - 1 : g[n - i] > n - i}
<1>2. high = {}
  <2> SUFFICES ASSUME high # {} PROVE FALSE
    OBVIOUS
  <2>1. PICK k \in high : \A m \in high : k <= m
    <3>1. high \subseteq Nat
      OBVIOUS
    <3> HIDE DEF high
    <3>. QED  BY <3>1, LeastNumber
  <2> DEFINE x == n - k
  <2>2. k \in 0 .. n - 1 /\ x \in 1 .. n /\ g[x] > x /\ g[x] \in 1 .. n
    BY <2>1
  <2>3. k # 0
    BY <2>2
  <2> DEFINE j == k - 1
  <2>4. j \in 0 .. n - 1 /\ ~(k <= j) /\ n - j = x + 1 /\ x + 1 \in 1 .. n /\ x + 1 # 1 /\ (x + 1) - 1 = x
    BY <2>2, <2>3
  <2>5. ~(j \in high)
    <3> HIDE DEF high, j
    <3>. QED  BY <2>1, <2>4
  <2>6. ~(g[n - j] > n - j)
    BY <2>4, <2>5
  <2> HIDE DEF x, j, high
  <2>7. ~(g[x + 1] > x + 1) /\ g[x + 1] \in 1 .. n /\ g[x] = g[x + 1] - 1
    <3>1. g[(x + 1) - 1] = g[x + 1] - 1
      BY <2>4
    <3>. QED  BY <2>4, <2>6, <3>1
  <2>. QED  BY <2>2, <2>7
<1>3. ASSUME NEW i \in 1 .. n
      PROVE  g[i] = i
  <2>1. ~(g[i] < i)
    BY <1>1
  <2>2. n - i \in 0 .. n - 1 /\ n - (n - i) = i
    OBVIOUS
  <2>3. ~(n - i \in high)
    BY <1>2
  <2>4. ~(g[i] > i)
    BY <2>2, <2>3
  <2> HIDE DEF low, high
  <2>5. g[i] \in Int /\ i \in Int
    OBVIOUS
  <2>. QED  BY <2>1, <2>4, <2>5
<1>. QED  BY <1>3

\* When all the packets of an access unit end the arrivals, each with the number after
\* that of the one before, they are in order from the first one on.
LEMMA AllInOrder ==
  ASSUME NEW s, NEW count \in Nat, NEW first, NEW packets \in Seq(SentArrivals(s, count, first)),
         NEW a \in 1 .. count, first[a] \in Nat,
         NEW n \in Nat, n = Len(Bodies(UnitsOf(s, a))), n < SequenceSpace,
         EndsWithAll(packets, n, a)
  PROVE  EndsIn(packets, n, a, first[a])
<1> DEFINE L == Len(packets)
<1> DEFINE f == first[a]
<1> DEFINE at(i) == packets[(L - n) + i]
<1> DEFINE Is(i, j) == at(i).sequence = (f + j - 1) % SequenceSpace
<1>1. L \in Nat /\ DOMAIN packets = 1 .. L
  BY LenProperties
<1>2. /\ L >= n
      /\ \A k \in 1 .. L : packets[k].timestamp = a <=> k > L - n
      /\ \A k \in (L - n) + 2 .. L :
            packets[k].sequence = (packets[k - 1].sequence + 1) % SequenceSpace
  BY <1>1 DEF EndsWithAll
<1>3. ASSUME NEW i \in 1 .. n
      PROVE  \E j \in 1 .. n : Is(i, j)
  <2> DEFINE k == (L - n) + i
  <2>1. k \in 1 .. L /\ k > L - n
    BY <1>1, <1>2
  <2>2. packets[k].timestamp = a
    BY <1>2, <2>1
  <2> HIDE DEF k
  <2>3. PICK b \in 1 .. count : \E j \in 1 .. Len(Bodies(UnitsOf(s, b))) :
           packets[k] = [sequence |-> (first[b] + j - 1) % SequenceSpace, timestamp |-> b]
    <3> DEFINE A == SentArrivals(s, count, first)
    <3>1. packets \in Seq(A)
      OBVIOUS
    <3> HIDE DEF A
    <3>2. packets[k] \in A
      BY <2>1, <3>1, ElementOfSeq
    <3>. QED  BY <3>2 DEF A, SentArrivals
  <2>4. b = a
    BY <2>2, <2>3
  <2>5. PICK j \in 1 .. n : packets[k].sequence = (f + j - 1) % SequenceSpace
    BY <2>3, <2>4
  <2>. QED  BY <2>5 DEF k
<1> DEFINE g == [i \in 1 .. n |-> CHOOSE j \in 1 .. n : Is(i, j)]
<1>4. \A i \in 1 .. n : g[i] \in 1 .. n /\ Is(i, g[i])
  <2> HIDE DEF Is
  <2>. QED  BY <1>3
<1> HIDE DEF g
<1>5. ASSUME NEW i \in 1 .. n, i # 1
      PROVE  g[i - 1] = g[i] - 1
  <2> DEFINE k == (L - n) + i
  <2>1. k \in (L - n) + 2 .. L /\ k - 1 = (L - n) + (i - 1) /\ i - 1 \in 1 .. n
    BY <1>1, <1>2, <1>5, SMTT(60)
  <2> DEFINE p == g[i - 1]
  <2> DEFINE q == g[i]
  <2>2. p \in 1 .. n /\ Is(i - 1, p) /\ q \in 1 .. n /\ Is(i, q)
    BY <1>4, <2>1
  <2>3. at(i).sequence = (at(i - 1).sequence + 1) % SequenceSpace
    <3>1. packets[k].sequence = (packets[k - 1].sequence + 1) % SequenceSpace
      BY <1>2, <2>1
    <3>. QED  BY <3>1, <2>1
  <2> HIDE DEF at
  <2>4. (((f + p - 1) % SequenceSpace) + 1) % SequenceSpace = (f + q - 1) % SequenceSpace
    BY <2>2, <2>3
  <2> HIDE DEF p, q, f
  <2>5. p = q - 1
    <3>1. f \in Nat
      BY DEF f
    <3>. QED  BY <2>2, <2>4, <3>1, NextOnly
  <2>. QED  BY <2>5 DEF p, q
<1>6. \A i \in 1 .. n : g[i] = i
  BY <1>4, <1>5, RisingNumbers
<1>7. \A i \in 1 .. n : packets[(L - n) + i].sequence = (f + i - 1) % SequenceSpace
  BY <1>4, <1>6
<1>8. n <= L
  BY <1>1, <1>2
<1>. QED  BY <1>2, <1>7, <1>8 DEF EndsIn

LEMMA SomethingSent ==
  ASSUME NEW U, NEW nals \in Seq(Seq(U)), Len(Bodies(nals)) \in Nat, Len(Bodies(nals)) > 0
  PROVE  nals # <<>>
<1> DEFINE bodies == Bodies(nals)
<1> SUFFICES ASSUME nals = <<>> PROVE FALSE
  OBVIOUS
<1>1. Len(nals) = 0 /\ 1 \in 1 .. Len(nals) + 1 /\ 1 > Len(nals)
  OBVIOUS
<1>2. bodies = BodiesAt(nals, BodiesFrom(nals), 1)
  BY <1>1, FromSteps, BodiesAreFrom
<1>3. bodies = <<>>
  <2> HIDE DEF bodies
  <2>. QED  BY <1>1, <1>2 DEF BodiesAt
<1>4. Len(bodies) = 0
  BY <1>3
<1>. QED  BY <1>4

\* The depacketizer holds all of an access unit.
LEMMA HoldsAll ==
  ASSUME NEW U, NEW W \in Seq(Seq(U)), NEW d, Holds(d, W, Place(Len(W), 0)), Full(d, W, Len(W))
  PROVE  d.nals = W /\ ~d.fragmented /\ ~d.damaged
<1> DEFINE S == Seq(U)
<1> DEFINE p == Place(Len(W), 0)
<1> DEFINE n == Len(W)
<1>1. W \in Seq(S)
  OBVIOUS
<1> HIDE DEF S
<1>2. p.nals = n /\ p.units = 0 /\ n \in Nat
  BY <1>1, PlaceIs, LenProperties
<1> HIDE DEF p, n
<1>3. Len(d.nals) = n /\ ~d.damaged
  BY DEF Full, n
<1>4. d.nals = SubSeq(W, (n - n) + 1, n) /\ ~d.fragmented
  <2>1. Holds(d, W, p)
    BY DEF p, n
  <2>. QED  BY <1>2, <1>3, <2>1 DEF Holds
<1>5. (n - n) + 1 = 1
  BY <1>2
<1>6. SubSeq(W, 1, n) = W
  BY <1>1, SubSeqFull DEF n
<1>. QED  BY <1>3, <1>4, <1>5, <1>6

\* The last packet of an access unit that arrives intact completes it.
LEMMA WholeCompletes ==
  ASSUME TransportInv, ShortUnits, ClosedUnits, IntactInv,
         NEW k \in DOMAIN channel, NEW read, Reading(k, read), Feed(read), UNCHANGED sender,
         NEW a, a = read.timestamp, WithinLimits(a),
         EndsWithAll(Append(arrivals, [sequence |-> read.sequence, timestamp |-> read.timestamp]),
                     Len(Bodies(NalsOf(a))), a)
  PROVE  \E unit : completed' = Append(completed, unit) /\ unit.timestamp = a /\ unit.nals = Whole(a)
<1> DEFINE x == [sequence |-> read.sequence, timestamp |-> read.timestamp]
<1> DEFINE nals == UnitsOf(stream, a)
<1> DEFINE bodies == Bodies(nals)
<1> DEFINE W == Kept(nals)
<1> DEFINE place == PlaceOf(nals)
<1> DEFINE n == Len(bodies)
<1> DEFINE e == Taken(depacketizer, read, SequenceSpace)
<1>0. NalsOf(a) = nals
  BY DEF NalsOf, UnitsOf
<1>1. PICK first : Sent(first) /\ Heard(first) /\ Intact(first)
  BY DEF IntactInv
<1>2. PICK j \in 1 .. Len(Bodies(UnitsOf(stream, channel[k].timestamp))) :
         /\ channel[k].timestamp \in 1 .. auCount /\ channel[k].timestamp \in 1 .. Len(stream)
         /\ channel[k].sequence = (first[channel[k].timestamp] + j - 1) % SequenceSpace
  BY <1>1, PacketFacts
<1>3. a = channel[k].timestamp
  BY DEF Reading
<1>4. a \in 1 .. auCount /\ a \in 1 .. Len(stream) /\ j \in 1 .. n
  BY <1>2, <1>3
<1>5. IsStream(stream) /\ auCount \in Nat
  BY StreamIs DEF TransportInv
<1>6. /\ bodies \in Seq(MarkedOver(UnitIds)) /\ W \in Seq(Seq(UnitIds))
      /\ Carried(bodies, W, place)
  BY <1>4, <1>5, UnitIsCarried
<1>7. n \in Nat /\ n < SequenceSpace /\ n \in 1 .. n
  <2>1. IsShort(stream) /\ a \in DOMAIN stream
    BY <1>4, StreamIs DEF TransportInv, ShortUnits
  <2>2. n < SequenceSpace
    BY <2>1 DEF IsShort
  <2>3. n \in Nat
    BY <1>6, LenProperties
  <2> HIDE DEF n
  <2>. QED  BY <1>4, <2>2, <2>3
<1>8. first[a] \in Nat
  BY <1>1, <1>4, SequenceSpaceAssumption DEF Sequences16, Sent
<1>9. Append(arrivals, x) \in Seq(SentArrivals(stream, auCount, first))
  <2> DEFINE S == SentArrivals(stream, auCount, first)
  <2>1. x = [sequence |-> (first[a] + j - 1) % SequenceSpace, timestamp |-> a]
    BY <1>2, <1>3 DEF Reading
  <2> HIDE DEF x
  <2>2. x \in S
    <3> DEFINE Of(b) == {[sequence |-> (first[b] + i - 1) % SequenceSpace, timestamp |-> b] :
                            i \in 1 .. Len(Bodies(UnitsOf(stream, b)))}
    <3>1. x \in Of(a)
      BY <1>4, <2>1
    <3>2. S = UNION {Of(b) : b \in 1 .. auCount}
      BY DEF SentArrivals
    <3> HIDE DEF Of, S
    <3>. QED  BY <1>4, <3>1, <3>2
  <2>3. arrivals \in Seq(S)
    BY <1>1 DEF Heard
  <2> HIDE DEF S
  <2>4. Append(arrivals, x) \in Seq(S)
    BY <2>2, <2>3, AppendProperties
  <2>. QED  BY <2>4 DEF S
<1>10. EndsIn(Append(arrivals, x), n, a, first[a])
  <2>1. EndsWithAll(Append(arrivals, x), n, a)
    BY <1>0
  <2> HIDE DEF x
  <2>. QED  BY <1>4, <1>5, <1>7, <1>8, <1>9, <2>1, AllInOrder
<1>11. Seen
  BY DEF IntactInv
<1>12. read.marker = bodies[n].marker /\ After(stream, e, n, a, first[a])
  BY <1>1, <1>4, <1>7, <1>10, <1>11, ReadAfter
<1>13. nals \in Seq(Seq(UnitIds))
  BY <1>4, <1>5, UnitsAre
<1>14. bodies[n].marker
  <2>1. nals # <<>>
    BY <1>7, <1>13, SomethingSent
  <2>2. stream[a] # <<>> => stream[a][Len(stream[a])].size > 0
    BY <1>4, StreamIs DEF TransportInv, ClosedUnits
  <2>3. EndsFull(nals)
    BY <1>4, <1>5, <2>1, <2>2, UnitsAreHeaded
  <2> HIDE DEF nals
  <2>4. MarksEnd(bodies)
    BY <1>13, <2>1, <2>3, PacketsAreSized
  <2>. QED  BY <2>4 DEF MarksEnd
<1> HIDE DEF nals, W, place, e
<1>15. place[n] = Place(Len(W), 0) /\ W # <<>>
  <2>1. Carries(bodies[n].body, W, place[n - 1], place[n])
    BY <1>6, <1>7, SMTT(60) DEF Carried
  <2>2. place[n - 1].nals < Len(W) /\ place[n - 1].nals \in Nat
    <3>1. n - 1 \in 0 .. n
      BY <1>7
    <3>. QED  BY <1>6, <2>1, <3>1 DEF Carried, Carries, Places
  <2>3. Len(W) # 0
    <3> DEFINE len == Len(W)
    <3>1. len \in Nat /\ place[n - 1].nals < len
      BY <1>6, <2>2, LenProperties
    <3> HIDE DEF len
    <3>. QED  BY <2>2, <3>1 DEF len
  <2>. QED  BY <1>6, <2>3 DEF Carried
<1>16. Holds(e, W, Place(Len(W), 0)) /\ Full(e, W, Len(W))
  <2>1. Holds(e, W, place[n]) /\ Full(e, W, place[n].nals)
    BY <1>12 DEF After, nals, W, place
  <2>2. Place(Len(W), 0).nals = Len(W)
    BY PlaceIs
  <2>. QED  BY <1>15, <2>1, <2>2
<1>17. e.nals = W /\ ~e.fragmented /\ ~e.damaged
  BY <1>6, <1>16, HoldsAll
<1>18. Completes(depacketizer, read, SequenceSpace)
  BY <1>12, <1>14, <1>15, <1>17 DEF Completes, e
<1> DEFINE unit == [timestamp |-> read.timestamp, captureTime |-> e.captureTime, nals |-> e.nals]
<1>19. completed' = Append(completed, unit)
  BY <1>18 DEF Feed, e
<1>20. unit.timestamp = a /\ unit.nals = Whole(a)
  BY <1>0, <1>17 DEF Whole, W
<1> HIDE DEF unit
<1>. QED  BY <1>19, <1>20

\* What IntactIsCompleted says of a step.
IntactStep ==
    arrivals' # arrivals =>
       LET p == arrivals'[Len(arrivals')]
           a == p.timestamp
       IN  (EndsWithAll(arrivals', Len(Bodies(NalsOf(a))), a) /\ WithinLimits(a)) =>
              /\ Len(completed') = Len(completed) + 1
              /\ LET unit == completed'[Len(completed')]
                 IN  unit.timestamp = a /\ IsWhole(unit)

LEMMA StepCompletes ==
  ASSUME TransportInv, ShortUnits, ClosedUnits, IntactInv, ReadsBack, [Next]_vars
  PROVE  IntactStep
<1>1. ASSUME NEW k \in DOMAIN channel, NEW read, Reading(k, read), Feed(read), UNCHANGED sender
      PROVE  IntactStep
  <2> DEFINE x == [sequence |-> read.sequence, timestamp |-> read.timestamp]
  <2> DEFINE a == read.timestamp
  <2>1. arrivals' = Append(arrivals, x)
    BY <1>1 DEF Feed
  <2>2. arrivals'[Len(arrivals')] = x
    <3>1. PICK A : arrivals \in Seq(A)
      BY DEF IntactInv, Heard
    <3> HIDE DEF x
    <3> DEFINE T == A \cup {x}
    <3>2. arrivals \in Seq(T) /\ x \in T
      BY <3>1, SeqMonotonic
    <3> HIDE DEF T
    <3>. QED  BY <2>1, <3>2, AppendProperties, LenProperties
  <2>3. ASSUME EndsWithAll(arrivals', Len(Bodies(NalsOf(a))), a), WithinLimits(a)
        PROVE  /\ Len(completed') = Len(completed) + 1
               /\ completed'[Len(completed')].timestamp = a /\ IsWhole(completed'[Len(completed')])
    <3>1. PICK unit : completed' = Append(completed, unit) /\ unit.timestamp = a /\ unit.nals = Whole(a)
      BY <1>1, <2>1, <2>3, WholeCompletes
    <3>2. Len(completed') = Len(completed) + 1 /\ completed'[Len(completed')] = unit
      <4> DEFINE T == Tails(stream) \cup {unit}
      <4>1. completed \in Seq(T) /\ unit \in T
        BY SeqMonotonic DEF TransportInv
      <4> HIDE DEF T
      <4>. QED  BY <3>1, <4>1, AppendProperties, LenProperties
    <3>. QED  BY <3>1, <3>2 DEF IsWhole
  <2>4. x.timestamp = a
    OBVIOUS
  <2> HIDE DEF x, a
  <2>. QED  BY <2>2, <2>3, <2>4 DEF IntactStep
<1>2. ASSUME arrivals' = arrivals
      PROVE  IntactStep
  BY <1>2 DEF IntactStep
<1>. QED  BY <1>1, <1>2, ReadSteps

\* Whatever the senders add to their packets: when these are well formed, an access
\* unit whose packets arrive in order and one after the other is completed, whole,
\* with the last of them, whatever was lost, duplicated, reordered or taken over before
\* (IntactIsCompleted; H264Depacketizer::push, which starts afresh at a new timestamp).
THEOREM IntactIsCompletedIfRead ==
  ASSUME ShortUnits, ClosedUnits
  PROVE  Spec /\ []PacketsAreWellFormed => IntactIsCompleted
<1>1. Init => TransportInv /\ IntactInv
  BY InitTransport, InitIntact
<1>2. TransportInv /\ IntactInv /\ PacketsAreWellFormed /\ [Next]_vars => (TransportInv /\ IntactInv)'
  BY NextTransport, NextIntact, WellFormedReadBack
<1>3. TransportInv /\ IntactInv /\ PacketsAreWellFormed /\ [Next]_vars => [IntactStep]_vars
  BY StepCompletes, WellFormedReadBack
<1>. QED  BY <1>1, <1>2, <1>3, PTL DEF Spec, IntactIsCompleted, IntactStep

\* The same of this repository's sender (IntactIsCompleted; packetize, make_packet,
\* parse_rtp_packet and H264Depacketizer::push).
THEOREM IntactIsCompletedHolds ==
  ASSUME ShortUnits, OwnSenders, NoOthers, ClosedUnits
  PROVE  Spec => IntactIsCompleted
<1>1. Init => TransportInv /\ IntactInv
  BY InitTransport, InitIntact
<1>2. TransportInv /\ IntactInv /\ [Next]_vars => (TransportInv /\ IntactInv)'
  BY NextTransport, NextIntact, OwnReadBack
<1>3. TransportInv /\ IntactInv /\ [Next]_vars => [IntactStep]_vars
  BY StepCompletes, OwnReadBack
<1>. QED  BY <1>1, <1>2, <1>3, PTL DEF Spec, IntactIsCompleted, IntactStep
=============================================================================
