------------------------ MODULE SequenceAuditProofs ------------------------
(***************************************************************************)
(* The tracker's count of losses is exact for every size of the sequence   *)
(* space, any number of packets and wraps, and every displacement below    *)
(* half of the space.                                                      *)
(***************************************************************************)
EXTENDS SequenceAudit, FiniteSetTheorems, TLAPS

-----------------------------------------------------------------------------
(* Sequence numbers *)

Half == SequenceSpace \div 2

LEMMA SpaceHalves ==
  SequenceSpace \in Nat /\ SequenceSpace > 0 /\ Half \in Nat /\ SequenceSpace = 2 * Half
BY SequenceSpaceAssumption DEF Half

LEMMA Division ==
  ASSUME NEW x \in Int, NEW b \in Nat, b > 0
  PROVE  /\ x \div b \in Int
         /\ x % b \in 0 .. b - 1
         /\ x = b * (x \div b) + (x % b)
OBVIOUS

\* The remainder is the only one there is.
LEMMA RemainderIs ==
  ASSUME NEW b \in Nat, b > 0, NEW q \in Int, NEW r \in 0 .. b - 1
  PROVE  (b * q + r) % b = r
OBVIOUS

LEMMA RemainderNear ==
  ASSUME NEW x \in Int, NEW b \in Nat, b > 0
  PROVE  /\ 0 <= x /\ x < b => x % b = x
         /\ -b <= x /\ x < 0 => x % b = x + b
<1>1. ASSUME 0 <= x, x < b PROVE x % b = x
  BY <1>1
<1>2. ASSUME -b <= x, x < 0 PROVE x % b = x + b
  BY <1>2
<1>. QED  BY <1>1, <1>2

\* A number counted on from a remainder.
LEMMA CountedOn ==
  ASSUME NEW a \in Int, NEW o \in Int, NEW b \in Nat, b > 0
  PROVE  ((a % b) + o) % b = (a + o) % b
<1> DEFINE q == a \div b
<1> DEFINE s == a % b
<1> DEFINE p == (s + o) \div b
<1> DEFINE r == (s + o) % b
<1>1. q \in Int /\ s \in 0 .. b - 1 /\ a = b * q + s
  BY Division
<1>2. p \in Int /\ r \in 0 .. b - 1 /\ s + o = b * p + r
  BY <1>1, Division
<1> HIDE DEF q, s, p, r
<1>3. b * (q + p) = b * q + b * p /\ b * q \in Int /\ b * p \in Int
  BY <1>1, <1>2
<1>4. a + o = b * (q + p) + r
  BY <1>1, <1>2, <1>3
<1>5. (b * (q + p) + r) % b = r
  BY <1>1, <1>2, RemainderIs
<1>. QED  BY <1>4, <1>5 DEF r, s

\* Two numbers less than a turn apart are told apart.
LEMMA ToldApart ==
  ASSUME NEW a \in Int, NEW c \in Int, NEW b \in Nat, b > 0, a < c, c < a + b
  PROVE  a % b # c % b
<1>1. SUFFICES ASSUME a % b = c % b PROVE FALSE
  OBVIOUS
<1> DEFINE p == a \div b
<1> DEFINE q == c \div b
<1>2. p \in Int /\ q \in Int /\ a = b * p + (a % b) /\ c = b * q + (c % b)
      /\ a % b \in 0 .. b - 1
  BY Division
<1> HIDE DEF p, q
<1>3. b * q - b * p = b * (q - p) /\ b * q \in Int /\ b * p \in Int
  BY <1>2
<1>4. b * (q - p) = c - a
  BY <1>1, <1>2, <1>3
<1>5. q - p \in Int /\ b * (q - p) > 0 /\ b * (q - p) < b
  BY <1>2, <1>4
<1>6. \A n \in Int : (n >= 1 => b * n >= b) /\ (n <= 0 => b * n <= 0)
  OBVIOUS
<1>. QED  BY <1>5, <1>6

\* The remainder of a difference is that of the remainders' difference.
LEMMA RemaindersDiffer ==
  ASSUME NEW a \in Int, NEW c \in Int, NEW b \in Nat, b > 0
  PROVE  ((a % b) - (c % b)) % b = (a - c) % b
<1> DEFINE s == a % b
<1> DEFINE t == c % b
<1> DEFINE p == a \div b
<1> DEFINE q == c \div b
<1> DEFINE d == (s - t) \div b
<1> DEFINE r == (s - t) % b
<1>1. /\ p \in Int /\ s \in Int /\ a = b * p + s
      /\ q \in Int /\ t \in Int /\ c = b * q + t
  BY Division
<1>2. d \in Int /\ r \in 0 .. b - 1 /\ s - t = b * d + r
  BY <1>1, Division
<1> HIDE DEF p, q, s, t, d, r
<1>3. b * (p - q + d) = b * p - b * q + b * d
      /\ b * p \in Int /\ b * q \in Int /\ b * d \in Int
  BY <1>1, <1>2
<1> DEFINE bp == b * p
<1> DEFINE bq == b * q
<1> DEFINE bd == b * d
<1> DEFINE all == b * (p - q + d)
<1>4. all + r = a - c
  <2>1. all = bp - bq + bd /\ bp \in Int /\ bq \in Int /\ bd \in Int
        /\ a = bp + s /\ c = bq + t /\ s - t = bd + r
    BY <1>1, <1>2, <1>3
  <2> HIDE DEF bp, bq, bd, all
  <2>. QED  BY <1>1, <1>2, <2>1
<1>5. (all + r) % b = r
  BY <1>1, <1>2, RemainderIs
<1>. QED  BY <1>4, <1>5 DEF r, s, t

\* The signed distance of two numbers is that of the packets that have them,
\* when these are less than half a turn apart.
LEMMA DistanceIsSigned ==
  ASSUME NEW a \in Int, NEW c \in Int, -Half < a - c, a - c < Half
  PROVE  Distance(a % SequenceSpace, c % SequenceSpace) = a - c
<1>1. /\ SequenceSpace \in Nat /\ SequenceSpace > 0 /\ Half \in Nat
      /\ SequenceSpace = 2 * Half
  BY SpaceHalves
<1>2. ((a % SequenceSpace) - (c % SequenceSpace)) % SequenceSpace = (a - c) % SequenceSpace
  BY <1>1, RemaindersDiffer
<1>3. (a - c) % SequenceSpace = IF a - c >= 0 THEN a - c ELSE a - c + SequenceSpace
  <2>1. a - c \in Int /\ a - c < SequenceSpace /\ -SequenceSpace <= a - c
    BY <1>1
  <2>. QED  BY <1>1, <2>1, RemainderNear
<1>. QED  BY <1>1, <1>2, <1>3 DEF Distance, Half

-----------------------------------------------------------------------------
(* The invariant.  Of the packets passed over less than a turn ago and not *)
(* arrived every number is marked; that nothing else is marked is only     *)
(* true in the first turn.                                                 *)

Trackers ==
    [initialized : BOOLEAN, expected : Int, missing : SUBSET Int,
     received : Nat, lost : Nat, reordered : Nat]

Marked == \A k \in Missing : k >= next - SequenceSpace => k % SequenceSpace \in tracker.missing

OnlyMarked ==
    next - start <= SequenceSpace =>
       \A n \in tracker.missing : \E k \in Missing : n = k % SequenceSpace

AuditInv ==
    /\ tracker \in Trackers
    /\ start \in Nat /\ next \in Nat /\ arrived \subseteq Nat
    /\ arrived = {} => tracker = NoTracker /\ next = 0
    /\ arrived # {} => tracker.initialized /\ start < next
    /\ \A k \in arrived : k < next
    /\ LossIsExact
    /\ Marked /\ OnlyMarked

\* What observe makes of a tracker, by the kind of arrival.
Updated(t, e, m, l, r) ==
    [t EXCEPT !.received = t.received + 1, !.reordered = r, !.missing = m,
              !.lost = l, !.expected = e]

LEMMA UpdatedTracker ==
  ASSUME NEW t \in Trackers, t.initialized, NEW e \in Int, NEW m \in SUBSET Int,
         NEW l \in Nat, NEW r \in Nat, NEW o, o = Updated(t, e, m, l, r)
  PROVE  o \in Trackers /\ o.initialized /\ o.expected = e /\ o.missing = m /\ o.lost = l
<1>1. t.received + 1 \in Nat
  BY DEF Trackers
<1> DEFINE n == t.received + 1
<1>2. o = [t EXCEPT !.received = n, !.reordered = r, !.missing = m, !.lost = l, !.expected = e]
  BY DEF Updated
<1> HIDE DEF n
<1>3. n \in Nat
  BY <1>1 DEF n
<1>4. o \in Trackers
  BY <1>2, <1>3 DEF Trackers
<1>5. o.expected = e /\ o.missing = m /\ o.lost = l /\ o.initialized = t.initialized
  BY <1>2 DEF Trackers
<1>. QED  BY <1>4, <1>5

LEMMA ObservedInOrder ==
  ASSUME NEW t \in Trackers, NEW s \in Int, t.initialized, Distance(s, t.expected) = 0
  PROVE  LET o == Observe(t, s)
         IN  /\ o \in Trackers /\ o.initialized /\ o.lost = t.lost
             /\ o.missing = t.missing \ {s} /\ o.expected = (s + 1) % SequenceSpace
<1> DEFINE e == (s + 1) % SequenceSpace
<1> DEFINE m == t.missing \ {s}
<1>1. e \in Int /\ m \in SUBSET Int /\ t.lost \in Nat /\ t.reordered \in Nat
  BY SpaceHalves, Division DEF Trackers
<1>2. Observe(t, s) = [t EXCEPT !.received = t.received + 1, !.missing = m, !.expected = e]
  BY DEF Observe, InOrder, Trackers
<1> HIDE DEF e, m
<1>3. Observe(t, s) = Updated(t, e, m, t.lost, t.reordered)
  BY <1>2 DEF Trackers, Updated
<1>4. LET o == Observe(t, s)
      IN  o \in Trackers /\ o.initialized /\ o.expected = e /\ o.missing = m /\ o.lost = t.lost
  BY <1>1, <1>3, UpdatedTracker
<1>. QED  BY <1>4 DEF e, m

LEMMA ObservedAhead ==
  ASSUME NEW t \in Trackers, NEW s \in Int, t.initialized, Distance(s, t.expected) \in Nat \ {0},
         Skipped(t.expected, Distance(s, t.expected)) \in SUBSET Int
  PROVE  LET o == Observe(t, s)
         IN  /\ o \in Trackers /\ o.initialized /\ o.lost = t.lost + Distance(s, t.expected)
             /\ o.missing = t.missing \cup Skipped(t.expected, Distance(s, t.expected))
             /\ o.expected = (s + 1) % SequenceSpace
<1> DEFINE d == Distance(s, t.expected)
<1> DEFINE e == (s + 1) % SequenceSpace
<1> DEFINE m == t.missing \cup Skipped(t.expected, d)
<1> DEFINE l == t.lost + d
<1>1. e \in Int /\ m \in SUBSET Int /\ l \in Nat /\ t.reordered \in Nat /\ d \in Nat /\ d > 0
  BY SpaceHalves, Division DEF Trackers
<1>2. Observe(t, s) = Ahead([t EXCEPT !.received = @ + 1], s)
  BY <1>1 DEF Observe
<1>3. Observe(t, s) = [t EXCEPT !.received = t.received + 1, !.missing = m,
                                !.lost = l, !.expected = e]
  BY <1>2 DEF Ahead, Trackers
<1> HIDE DEF d, e, m, l
<1>4. Observe(t, s) = Updated(t, e, m, l, t.reordered)
  BY <1>3 DEF Trackers, Updated
<1>5. LET o == Observe(t, s)
      IN  o \in Trackers /\ o.initialized /\ o.expected = e /\ o.missing = m /\ o.lost = l
  BY <1>1, <1>4, UpdatedTracker
<1>. QED  BY <1>5 DEF d, e, m, l

LEMMA ObservedLate ==
  ASSUME NEW t \in Trackers, NEW s \in Int, t.initialized,
         Distance(s, t.expected) \in Int, Distance(s, t.expected) < 0
  PROVE  LET o == Observe(t, s)
         IN  /\ o \in Trackers /\ o.initialized /\ o.expected = t.expected
             /\ o.missing = t.missing \ {s}
             /\ o.lost = IF s \in t.missing /\ t.lost > 0 THEN t.lost - 1 ELSE t.lost
<1> DEFINE m == t.missing \ {s}
<1> DEFINE l == IF s \in t.missing /\ t.lost > 0 THEN t.lost - 1 ELSE t.lost
<1> DEFINE r == t.reordered + 1
<1>1. t.expected \in Int /\ m \in SUBSET Int /\ l \in Nat /\ r \in Nat
  BY DEF Trackers
<1>2. Observe(t, s) = Late([t EXCEPT !.received = @ + 1], s)
  BY DEF Observe
<1>3. Observe(t, s) = [t EXCEPT !.received = t.received + 1, !.reordered = r,
                                !.missing = m, !.lost = l]
  BY <1>2 DEF Late, Trackers
<1> HIDE DEF m, l, r
<1>4. Observe(t, s) = Updated(t, t.expected, m, l, r)
  BY <1>3 DEF Trackers, Updated
<1>5. LET o == Observe(t, s)
      IN  o \in Trackers /\ o.initialized /\ o.expected = t.expected /\ o.missing = m /\ o.lost = l
  BY <1>1, <1>4, UpdatedTracker
<1>. QED  BY <1>5 DEF m, l

LEMMA MissingFinite ==
  ASSUME AuditInv
  PROVE  IsFiniteSet(Missing) /\ Cardinality(Missing) \in Nat /\ Missing \subseteq Nat
<1>1. start \in Int /\ next - 1 \in Int /\ Missing \subseteq start .. next - 1
  BY DEF AuditInv, Missing
<1>2. IsFiniteSet(start .. next - 1)
  BY <1>1, FS_Interval
<1>3. IsFiniteSet(Missing)
  BY <1>1, <1>2, FS_Subset
<1>4. Missing \subseteq Nat
  BY DEF AuditInv, Missing
<1>. QED  BY <1>3, <1>4, FS_CardinalityType

\* A packet that arrives once the tracker has been initialized.
LEMMA ArrivesLater ==
  ASSUME AuditInv, NEW k \in Nat, Arrive(k), arrived # {}
  PROVE  /\ SequenceSpace \in Nat /\ SequenceSpace > 0
         /\ k - next \in -Displacement .. Displacement
         /\ Displacement \in Nat /\ Displacement < Half /\ Half < SequenceSpace
         /\ tracker.initialized /\ tracker.expected = next % SequenceSpace
         /\ tracker.lost = Cardinality(Missing)
         /\ Distance(k % SequenceSpace, tracker.expected) = k - next
         /\ UNCHANGED start
         /\ arrived' = arrived \cup {k}
<1>1. /\ SequenceSpace \in Nat /\ SequenceSpace > 0 /\ Half \in Nat /\ SequenceSpace = 2 * Half
  BY SpaceHalves
<1>2. Displacement \in 1 .. Half - 1
  BY AuditAssumption DEF Half
<1>3. k - next \in -Displacement .. Displacement /\ UNCHANGED start /\ arrived' = arrived \cup {k}
  BY DEF Arrive
<1>4. /\ tracker.initialized /\ tracker.expected = next % SequenceSpace
      /\ tracker.lost = Cardinality(Missing) /\ next \in Nat
  BY DEF AuditInv, LossIsExact
<1>5. Distance(k % SequenceSpace, next % SequenceSpace) = k - next
  <2>1. k \in Int /\ next \in Int /\ -Half < k - next /\ k - next < Half
    BY <1>1, <1>2, <1>3, <1>4
  <2>. QED  BY <2>1, DistanceIsSigned
<1>. QED  BY <1>1, <1>2, <1>3, <1>4, <1>5

LEMMA FirstArrives ==
  ASSUME AuditInv, NEW k \in Nat, Arrive(k), arrived = {}
  PROVE  AuditInv'
<1>1. tracker = NoTracker /\ next = 0
  BY DEF AuditInv
<1>2. /\ tracker' = Observe(NoTracker, k % SequenceSpace)
      /\ arrived' = {k} /\ start' = k /\ next' = k + 1
  BY <1>1 DEF Arrive
<1>3. tracker' = [initialized |-> TRUE, expected |-> ((k % SequenceSpace) + 1) % SequenceSpace,
                  missing |-> {}, received |-> 1, lost |-> 0, reordered |-> 0]
  <2>1. ~NoTracker.initialized
    BY DEF NoTracker
  <2>2. tracker' = First([NoTracker EXCEPT !.received = @ + 1], k % SequenceSpace)
    BY <1>2, <2>1 DEF Observe
  <2> DEFINE n == k % SequenceSpace
  <2>3. tracker' = First([NoTracker EXCEPT !.received = @ + 1], n)
    BY <2>2
  <2> HIDE DEF n
  <2>4. [NoTracker EXCEPT !.received = @ + 1] = [NoTracker EXCEPT !.received = 1]
    BY DEF NoTracker
  <2>5. tracker' = [initialized |-> TRUE, expected |-> (n + 1) % SequenceSpace,
                    missing |-> {}, received |-> 1, lost |-> 0, reordered |-> 0]
    BY <2>3, <2>4 DEF NoTracker, First
  <2>. QED  BY <2>5 DEF n
<1>4. ((k % SequenceSpace) + 1) % SequenceSpace = (k + 1) % SequenceSpace
      /\ (k + 1) % SequenceSpace \in Int
  BY SpaceHalves, CountedOn, Division
<1>5. Missing' = {}
  BY <1>2 DEF Missing
<1>6. Cardinality({}) = 0
  BY FS_EmptySet
<1>7. tracker' \in Trackers
  BY <1>3, <1>4 DEF Trackers
<1>8. LossIsExact' /\ Marked' /\ OnlyMarked'
  <2>1. tracker'.expected = next' % SequenceSpace /\ tracker'.lost = 0 /\ tracker'.missing = {}
    BY <1>2, <1>3, <1>4
  <2>. QED  BY <2>1, <1>5, <1>6 DEF LossIsExact, Marked, OnlyMarked
<1>9. tracker'.initialized
  BY <1>3
<1>. QED  BY <1>2, <1>7, <1>8, <1>9 DEF AuditInv

\* The next packet: its number may be marked from an earlier turn.
LEMMA NextArrives ==
  ASSUME AuditInv, NEW k \in Nat, Arrive(k), arrived # {}, k = next
  PROVE  AuditInv'
<1>1. /\ SequenceSpace \in Nat /\ SequenceSpace > 0 /\ tracker.initialized
      /\ Distance(k % SequenceSpace, tracker.expected) = 0
      /\ tracker.lost = Cardinality(Missing)
      /\ start' = start /\ arrived' = arrived \cup {k} /\ next' = k + 1
      /\ tracker' = Observe(tracker, k % SequenceSpace)
  BY ArrivesLater DEF Arrive, AuditInv
<1>2. k % SequenceSpace \in Int /\ tracker \in Trackers
  BY <1>1, Division DEF AuditInv
<1>3. /\ tracker'.initialized /\ tracker'.lost = tracker.lost
      /\ tracker'.missing = tracker.missing \ {k % SequenceSpace}
      /\ tracker'.expected = ((k % SequenceSpace) + 1) % SequenceSpace
      /\ tracker' \in Trackers
  BY <1>1, <1>2, ObservedInOrder
<1>4. tracker'.expected = next' % SequenceSpace
  BY <1>1, <1>3, CountedOn
<1>5. Missing' = Missing
  BY <1>1 DEF Missing, AuditInv
<1>6. Marked'
  <2> SUFFICES ASSUME NEW m \in Missing, m >= next + 1 - SequenceSpace
               PROVE  m % SequenceSpace \in tracker'.missing
    BY <1>1, <1>5 DEF Marked
  <2>1. m \in Int /\ m < k /\ m >= next - SequenceSpace /\ k < m + SequenceSpace
    BY <1>1, MissingFinite DEF Missing, AuditInv
  <2>2. m % SequenceSpace \in tracker.missing
    BY <2>1 DEF AuditInv, Marked
  <2>3. m % SequenceSpace # k % SequenceSpace
    BY <1>1, <2>1, ToldApart
  <2>. QED  BY <1>3, <2>2, <2>3
<1>7. OnlyMarked'
  BY <1>1, <1>3, <1>5 DEF AuditInv, OnlyMarked
<1>. QED  BY <1>1, <1>3, <1>4, <1>5, <1>6, <1>7 DEF AuditInv, LossIsExact

\* A later packet: all between the expected one and it are passed over.
LEMMA LaterArrives ==
  ASSUME AuditInv, NEW k \in Nat, Arrive(k), arrived # {}, k > next
  PROVE  AuditInv'
<1> DEFINE skipped == next .. k - 1
<1>1. /\ SequenceSpace \in Nat /\ SequenceSpace > 0 /\ tracker.initialized
      /\ next \in Nat /\ start \in Nat /\ start < next
      /\ Distance(k % SequenceSpace, tracker.expected) = k - next
      /\ tracker.expected = next % SequenceSpace
      /\ tracker.lost = Cardinality(Missing)
      /\ start' = start /\ arrived' = arrived \cup {k} /\ next' = k + 1
      /\ tracker' = Observe(tracker, k % SequenceSpace)
  BY ArrivesLater DEF Arrive, AuditInv
<1>2. k % SequenceSpace \in Int /\ tracker \in Trackers
  <2>1. k % SequenceSpace \in Int
    BY <1>1, Division
  <2>. QED  BY <2>1 DEF AuditInv
<1>4. Skipped(next % SequenceSpace, k - next) = {n % SequenceSpace : n \in skipped}
  <2>1. \A o \in Int : ((next % SequenceSpace) + o) % SequenceSpace = (next + o) % SequenceSpace
    <3> SUFFICES ASSUME NEW o \in Int
                 PROVE  ((next % SequenceSpace) + o) % SequenceSpace = (next + o) % SequenceSpace
      OBVIOUS
    <3>1. next \in Int /\ SequenceSpace \in Nat /\ SequenceSpace > 0
      BY <1>1
    <3>. QED  BY <3>1, CountedOn
  <2>2. \A o \in 0 .. k - next - 1 : next + o \in skipped
    BY <1>1
  <2>3. \A n \in skipped : n - next \in 0 .. k - next - 1 /\ next + (n - next) = n
    BY <1>1
  <2>. QED  BY <2>1, <2>2, <2>3 DEF Skipped
<1>5. Skipped(next % SequenceSpace, k - next) \in SUBSET Int
  <2>1. \A n \in skipped : n % SequenceSpace \in Int
    BY <1>1, Division
  <2>. QED  BY <1>4, <2>1
<1>3. /\ tracker'.initialized /\ tracker'.lost = tracker.lost + (k - next)
      /\ tracker'.missing = tracker.missing \cup Skipped(next % SequenceSpace, k - next)
      /\ tracker'.expected = ((k % SequenceSpace) + 1) % SequenceSpace
      /\ tracker' \in Trackers
  <2>1. k - next \in Nat \ {0}
    BY <1>1
  <2>. QED  BY <1>1, <1>2, <1>5, <2>1, ObservedAhead
<1>6. tracker'.expected = next' % SequenceSpace
  BY <1>1, <1>3, CountedOn
<1>7. Missing' = Missing \cup skipped /\ Missing \cap skipped = {}
  <2>1. \A m \in skipped : m \notin arrived
    BY <1>1 DEF AuditInv
  <2>. QED  BY <1>1, <2>1 DEF Missing, AuditInv
<1>8. Cardinality(Missing') = Cardinality(Missing) + (k - next)
  <2>1. IsFiniteSet(skipped) /\ Cardinality(skipped) = k - next
    BY <1>1, FS_Interval
  <2>2. IsFiniteSet(Missing) /\ Cardinality(Missing) \in Nat
    BY MissingFinite
  <2>3. Cardinality(Missing \cup skipped) =
           Cardinality(Missing) + Cardinality(skipped) - Cardinality(Missing \cap skipped)
    BY <2>1, <2>2, FS_Union
  <2>4. Cardinality(Missing \cap skipped) = 0
    BY <1>7, FS_EmptySet
  <2>. QED  BY <1>1, <1>7, <2>1, <2>2, <2>3, <2>4
<1>9. Marked'
  <2> SUFFICES ASSUME NEW m \in Missing \cup skipped, m >= next' - SequenceSpace
               PROVE  m % SequenceSpace \in tracker'.missing
    BY <1>7 DEF Marked
  <2>1. CASE m \in Missing
    <3>1. m \in Int /\ m >= next - SequenceSpace
      BY <1>1, <2>1, MissingFinite
    <3>. QED  BY <1>3, <2>1, <3>1 DEF AuditInv, Marked
  <2>2. CASE m \in skipped
    BY <1>3, <1>4, <2>2
  <2>. QED  BY <2>1, <2>2
<1>10. OnlyMarked'
  <2> SUFFICES ASSUME next' - start' <= SequenceSpace, NEW n \in tracker'.missing
               PROVE  \E m \in Missing' : n = m % SequenceSpace
    BY DEF OnlyMarked
  <2>1. next - start <= SequenceSpace
    BY <1>1
  <2>2. CASE n \in tracker.missing
    BY <1>7, <2>1, <2>2 DEF AuditInv, OnlyMarked
  <2>3. CASE n \notin tracker.missing
    BY <1>3, <1>4, <1>7, <2>3
  <2>. QED  BY <2>2, <2>3
<1>11. \A m \in arrived' : m < next'
  BY <1>1 DEF AuditInv
<1>. QED  BY <1>1, <1>3, <1>6, <1>8, <1>9, <1>10, <1>11 DEF AuditInv, LossIsExact

-----------------------------------------------------------------------------
(* A late packet.  It was passed over, or it comes a second time, or it was  *)
(* sent before the first one; only in the first case is its number marked.   *)

LEMMA LateArrives ==
  ASSUME AuditInv, DuplicateSpan <= SequenceSpace,
         NEW k \in Nat, Arrive(k), arrived # {}, k < next
  PROVE  AuditInv'
<1>1. /\ SequenceSpace \in Nat /\ SequenceSpace > 0 /\ tracker.initialized
      /\ next \in Nat /\ start \in Nat /\ start < next
      /\ k > next - SequenceSpace
      /\ Distance(k % SequenceSpace, tracker.expected) = k - next /\ k - next < 0
      /\ tracker.expected = next % SequenceSpace
      /\ tracker.lost = Cardinality(Missing)
      /\ start' = start /\ arrived' = arrived \cup {k} /\ next' = next
      /\ tracker' = Observe(tracker, k % SequenceSpace)
      /\ tracker \in Trackers
  <2>1. next \in Nat /\ start \in Nat /\ start < next /\ tracker \in Trackers
    BY DEF AuditInv
  <2>2. /\ SequenceSpace \in Nat /\ SequenceSpace > 0 /\ tracker.initialized
        /\ k - next \in -Displacement .. Displacement
        /\ Displacement \in Nat /\ Displacement < Half /\ Half < SequenceSpace /\ Half \in Nat
        /\ Distance(k % SequenceSpace, tracker.expected) = k - next
        /\ tracker.expected = next % SequenceSpace
        /\ tracker.lost = Cardinality(Missing)
    BY ArrivesLater, SpaceHalves
  <2>3. k > next - SequenceSpace /\ k - next < 0
    BY <2>1, <2>2
  <2>4. start' = start /\ arrived' = arrived \cup {k} /\ next' = next
        /\ tracker' = Observe(tracker, k % SequenceSpace)
    BY <2>1 DEF Arrive
  <2>. QED  BY <2>1, <2>2, <2>3, <2>4
<1>2. k % SequenceSpace \in Int /\ k - next \in Int
  BY <1>1, Division
<1>3. /\ tracker' \in Trackers /\ tracker'.initialized /\ tracker'.expected = tracker.expected
      /\ tracker'.missing = tracker.missing \ {k % SequenceSpace}
      /\ tracker'.lost = IF k % SequenceSpace \in tracker.missing /\ tracker.lost > 0
                         THEN tracker.lost - 1 ELSE tracker.lost
  BY <1>1, <1>2, ObservedLate
\* The numbers of the packets passed over differ from it, but its own.
<1>5. ASSUME NEW m \in Missing, m # k, m >= next - SequenceSpace
      PROVE  m % SequenceSpace # k % SequenceSpace
  <2>1. m \in Int /\ m < next
    BY MissingFinite, <1>1 DEF Missing
  <2>2. CASE m < k
    BY <1>1, <1>5, <2>1, <2>2, ToldApart
  <2>3. CASE k < m
    BY <1>1, <2>1, <2>3, ToldApart
  <2>. QED  BY <1>1, <1>5, <2>1, <2>2, <2>3
<1>6. CASE k \in Missing
  <2>1. Missing' = Missing \ {k}
    BY <1>1 DEF Missing
  <2>2. IsFiniteSet(Missing) /\ Cardinality(Missing) \in Nat
    BY MissingFinite
  <2>3. Cardinality(Missing') = Cardinality(Missing) - 1 /\ Cardinality(Missing) > 0
    <3>1. Cardinality(Missing \ {k}) = Cardinality(Missing) - 1
      BY <1>6, <2>2, FS_RemoveElement
    <3>2. Cardinality(Missing) # 0
      BY <1>6, <2>2, FS_EmptySet
    <3>. QED  BY <2>1, <2>2, <3>1, <3>2
  <2>4. k % SequenceSpace \in tracker.missing
    BY <1>1, <1>6 DEF AuditInv, Marked
  <2>5. tracker'.lost = Cardinality(Missing')
    BY <1>1, <1>3, <2>3, <2>4
  <2>6. Marked'
    BY <1>1, <1>3, <1>5, <2>1 DEF AuditInv, Marked
  <2>7. OnlyMarked'
    BY <1>1, <1>3, <2>1 DEF AuditInv, OnlyMarked
  <2>. QED  BY <1>1, <1>3, <2>5, <2>6, <2>7 DEF AuditInv, LossIsExact
<1>7. CASE k \notin Missing
  <2>1. Missing' = Missing
    BY <1>1, <1>7 DEF Missing
  <2>2. next - start <= SequenceSpace
    <3>1. CASE k \in arrived
      <4>1. next - start <= DuplicateSpan /\ DuplicateSpan \in Nat
        BY <3>1, AuditAssumption DEF Arrive
      <4>. QED  BY <1>1, <4>1
    <3>2. CASE k < start
      BY <1>1, <3>2
    <3>. QED  BY <1>1, <1>7, <3>1, <3>2 DEF Missing
  <2>3. k % SequenceSpace \notin tracker.missing
    <3>1. \A m \in Missing : m # k /\ m >= next - SequenceSpace
      BY <1>1, <1>7, <2>2 DEF Missing
    <3>. QED  BY <1>5, <2>2, <3>1 DEF AuditInv, OnlyMarked
  <2>4. tracker'.lost = tracker.lost /\ tracker'.missing = tracker.missing
    BY <1>3, <2>3
  <2>. QED  BY <1>1, <1>3, <2>1, <2>4 DEF AuditInv, LossIsExact, Marked, OnlyMarked
<1>. QED  BY <1>6, <1>7

\* Whatever is lost, late or early by less than half a turn, over any number of
\* turns, the count of lost packets is exact (sequence_tracker.hpp, observe), as
\* long as no packet comes twice once a whole turn has passed.
THEOREM LossIsExactHolds ==
  ASSUME DuplicateSpan <= SequenceSpace
  PROVE  Spec => []LossIsExact
<1>1. Init => AuditInv
  <2> SUFFICES ASSUME Init PROVE AuditInv
    OBVIOUS
  <2>1. tracker = NoTracker /\ arrived = {} /\ start = 0 /\ next = 0
    BY DEF Init
  <2>2. NoTracker \in Trackers /\ ~NoTracker.initialized /\ NoTracker.missing = {}
    BY DEF NoTracker, Trackers
  <2>3. Missing = {}
    BY <2>1 DEF Missing
  <2>. QED  BY <2>1, <2>2, <2>3 DEF AuditInv, LossIsExact, Marked, OnlyMarked
<1>2. AuditInv /\ [Next]_vars => AuditInv'
  <2> SUFFICES ASSUME AuditInv, [Next]_vars PROVE AuditInv'
    OBVIOUS
  <2>1. CASE Next
    <3>1. PICK k \in 0 .. LastPacket : Arrive(k)
      BY <2>1 DEF Next
    <3>2. k \in Nat /\ next \in Nat
      BY AuditAssumption DEF AuditInv
    <3>3. CASE arrived = {}
      BY <3>1, <3>2, <3>3, FirstArrives
    <3>4. CASE arrived # {}
      BY <3>1, <3>2, <3>4, NextArrives, LaterArrives, LateArrives
    <3>. QED  BY <3>3, <3>4
  <2>2. CASE UNCHANGED vars
    BY <2>2 DEF vars, AuditInv, LossIsExact, Marked, OnlyMarked, Missing
  <2>. QED  BY <2>1, <2>2
<1>3. AuditInv => LossIsExact
  BY DEF AuditInv
<1>. QED  BY <1>1, <1>2, <1>3, PTL DEF Spec
=============================================================================
