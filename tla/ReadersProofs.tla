---------------------------- MODULE ReadersProofs ----------------------------
(***************************************************************************)
(* Proofs about what clients read.                                         *)
(*                                                                         *)
(* RecordStream, for any number of Collections and clients, any limits and *)
(* any sizes of Events: the inductive invariant IInv adds to the three     *)
(* safety properties that rows are numbered apart (Table), that a page     *)
(* continues where its stream has got to (Paged), that a stream that found *)
(* nothing more is registered and will be woken (Hears), and that replay   *)
(* slots are held by streams (Slots).                                      *)
(*                                                                         *)
(* Listings, for any rows, keys and limits: the inductive invariant        *)
(* ListIInv says of a listing under way what has been listed before its    *)
(* cursor (ListedRows, SteadyRows), what ListApplication has collected     *)
(* between its two cursors (Collected), and that the history knows whether *)
(* a cursor ends at an empty Field (Noted), on which it depends what the   *)
(* SQL of the next page passes over.                                       *)
(***************************************************************************)
EXTENDS RecordStream, Listings, FiniteSetTheorems, WellFoundedInduction, TLAPS

USE StreamAssumption

(* What is known of the table: its rows are numbered apart.                *)
Table ==
  /\ IsFiniteSet(log)
  /\ \A e, f \in log : e.ordinal = f.ordinal => e = f
  /\ \E n \in Nat : \A e \in log : e.ordinal <= n
  /\ \A c \in Collection : mark[c] <= head[c]

(* A page continues where the stream has got to, without a hole.           *)
Paged(s) ==
  /\ phase[s] = "deliver" =>
       \E m \in Nat : m > scan[s] /\ page[s] = (scan[s] + 1)..m
  /\ phase[s] = "write" =>
       \E m \in Nat : m >= scan[s] /\ page[s] = scan[s]..m

(* A stream that has found nothing more hears of what follows.             *)
Hears(s) ==
  /\ phase[s] # "off" => s \in subs
  /\ phase[s] \in {"empty", "wait"} /\ scan[s] < head[Watches[s]]
       => s \in wake \/ unpublished[Watches[s]] > 0

Holders == {s \in Stream : phase[s] \in Holding}

Streams == \A s \in Stream : Paged(s) /\ Hears(s)
Slots   == IsFiniteSet(Holders) /\ slots = Cardinality(Holders)

IInv == TypeOK /\ RetainedWindow /\ NothingMissed /\ Table /\ Streams /\ Slots

-----------------------------------------------------------------------------
(* Naturals. *)

LEMMA Least ==
  ASSUME NEW T \in SUBSET Nat, T # {}
  PROVE  Min(T) \in T /\ \A y \in T : Min(T) <= y
  <1> DEFINE R == OpToRel(<, Nat)
  <1>1. IsWellFoundedOn(R, Nat)
    BY NatLessThanWellFounded
  <1>2. \A x, y \in Nat : y < x => <<y, x>> \in R
    BY DEF OpToRel
  <1> HIDE DEF R
  <1>3. PICK x \in T : \A y \in T : <<y, x>> \notin R
    BY <1>1, WFMin
  <1>4. ASSUME NEW y \in T
        PROVE  x <= y
    <2>1. x \in Nat /\ y \in Nat /\ <<y, x>> \notin R
      BY <1>3, <1>4
    <2>2. ~(y < x)
      BY <1>2, <2>1, Zenon
    <2> QED
      BY <2>1, <2>2
  <1>5. \E n \in T : \A y \in T : n <= y
    BY <1>3, <1>4
  <1> QED
    BY <1>5, Zenon DEF Min

LEMMA Greatest ==
  ASSUME NEW T \in SUBSET Nat, T # {}, NEW b \in Nat, \A x \in T : x <= b
  PROVE  Max(T) \in T /\ \A y \in T : y <= Max(T)
  <1> DEFINE D == {b - x : x \in T}
  <1>1. D \in SUBSET Nat /\ D # {}
    <2>1. \A x \in T : b - x \in Nat
      OBVIOUS
    <2> QED
      BY <2>1
  <1>2. Min(D) \in D /\ \A d \in D : Min(D) <= d
    <2> HIDE DEF D
    <2> QED
      BY <1>1, Least
  <1>3. PICK x \in T : Min(D) = b - x
    BY <1>2
  <1>4. ASSUME NEW y \in T
        PROVE  x >= y
    <2>1. b - y \in D
      OBVIOUS
    <2>2. b - x <= b - y
      BY <1>2, <1>3, <2>1
    <2>3. x \in Nat /\ y \in Nat
      OBVIOUS
    <2> QED
      BY <2>2, <2>3
  <1>5. \E n \in T : \A y \in T : n >= y
    BY <1>4
  <1>6. Max(T) \in T /\ \A y \in T : Max(T) >= y
    BY <1>5, Zenon DEF Max
  <1> QED
    BY <1>6

LEMMA LeastOfInterval ==
  ASSUME NEW a \in Nat, NEW m \in Nat, a <= m
  PROVE  Min(a..m) = a
  <1>1. (a..m) \in SUBSET Nat /\ a \in a..m
    OBVIOUS
  <1>2. Min(a..m) \in a..m /\ Min(a..m) <= a
    BY <1>1, Least
  <1> QED
    BY <1>2

-----------------------------------------------------------------------------
(* The log. *)

Units(S) == {x \in S \X (1..PageBytes) : x[2] <= x[1].size}

LEMMA UnitsFinite ==
  ASSUME NEW S, IsFiniteSet(S)
  PROVE  /\ IsFiniteSet(S \X (1..PageBytes)) /\ IsFiniteSet(Units(S))
         /\ Cardinality(S \X (1..PageBytes)) = Cardinality(S) * PageBytes
  <1>1. IsFiniteSet(1..PageBytes) /\ Cardinality(1..PageBytes) = PageBytes
    BY FS_Interval
  <1>2. /\ IsFiniteSet(S \X (1..PageBytes))
        /\ Cardinality(S \X (1..PageBytes)) = Cardinality(S) * Cardinality(1..PageBytes)
    BY <1>1, FS_Product
  <1>3. Units(S) \in SUBSET (S \X (1..PageBytes))
    BY DEF Units
  <1> QED
    BY <1>1, <1>2, <1>3, FS_Subset

LEMMA Lighter ==
  ASSUME NEW S, IsFiniteSet(S), NEW T \in SUBSET S
  PROVE  /\ IsFiniteSet(T)
         /\ Cardinality(S) \in Nat /\ Cardinality(T) \in Nat
         /\ Cardinality(T) <= Cardinality(S)
         /\ Bytes(S) \in Nat /\ Bytes(T) \in Nat /\ Bytes(T) <= Bytes(S)
  <1>1. IsFiniteSet(T) /\ Cardinality(T) <= Cardinality(S)
    BY FS_Subset
  <1>2. IsFiniteSet(Units(S)) /\ IsFiniteSet(Units(T))
    BY <1>1, UnitsFinite
  <1>3. Units(T) \in SUBSET Units(S)
    BY DEF Units
  <1>4. Cardinality(Units(T)) <= Cardinality(Units(S))
    BY <1>2, <1>3, FS_Subset
  <1>5. /\ Cardinality(S) \in Nat /\ Cardinality(T) \in Nat
        /\ Cardinality(Units(S)) \in Nat /\ Cardinality(Units(T)) \in Nat
    BY <1>1, <1>2, FS_CardinalityType
  <1>6. Bytes(S) = Cardinality(Units(S)) /\ Bytes(T) = Cardinality(Units(T))
    BY DEF Bytes, Units
  <1> QED
    BY <1>1, <1>4, <1>5, <1>6

LEMMA LessFits ==
  ASSUME NEW S, IsFiniteSet(S), WithinLimits(S), NEW T \in SUBSET S
  PROVE  WithinLimits(T)
  BY Lighter DEF WithinLimits

LEMMA NothingFits == WithinLimits({}) /\ IsFiniteSet({})
  <1>1. IsFiniteSet({}) /\ Cardinality({}) = 0
    BY FS_EmptySet
  <1>2. Units({}) = {}
    BY DEF Units
  <1>3. Bytes({}) = Cardinality(Units({}))
    BY DEF Bytes, Units
  <1> QED
    BY <1>1, <1>2, <1>3 DEF WithinLimits

(* A page takes one Event at least. *)
LEMMA OneFits ==
  ASSUME NEW e
  PROVE  Cardinality({e}) <= ReadBatch /\ Bytes({e}) <= PageBytes
  <1>1. IsFiniteSet({e}) /\ Cardinality({e}) = 1
    BY FS_Singleton
  <1>2. /\ IsFiniteSet({e} \X (1..PageBytes))
        /\ Cardinality({e} \X (1..PageBytes)) = 1 * PageBytes
    BY <1>1, UnitsFinite
  <1>3. Units({e}) \in SUBSET ({e} \X (1..PageBytes))
    BY DEF Units
  <1>4. Cardinality(Units({e})) <= Cardinality({e} \X (1..PageBytes))
    BY <1>2, <1>3, FS_Subset
  <1>5. Bytes({e}) = Cardinality(Units({e}))
    BY DEF Bytes, Units
  <1> QED
    BY <1>1, <1>2, <1>4, <1>5

(* Pruning keeps what came last. *)
LEMMA KeptLast ==
  ASSUME NEW S \in SUBSET EventRow, IsFiniteSet(S), NEW e \in Kept(S), NEW f \in S,
         f.ordinal >= e.ordinal
  PROVE  f \in Kept(S)
  <1>1. e \in S /\ WithinLimits(Since(S, e))
    BY DEF Kept
  <1>2. Since(S, e) \in SUBSET S /\ Since(S, f) \in SUBSET Since(S, e)
    BY <1>1 DEF Since, EventRow
  <1>3. IsFiniteSet(Since(S, e))
    BY <1>2, FS_Subset
  <1> QED
    BY <1>1, <1>2, <1>3, LessFits DEF Kept

LEMMA KeptFits ==
  ASSUME NEW S \in SUBSET EventRow, IsFiniteSet(S)
  PROVE  WithinLimits(Kept(S))
  <1>1. CASE Kept(S) = {}
    BY <1>1, NothingFits
  <1>2. CASE Kept(S) # {}
    <2> DEFINE O == {e.ordinal : e \in Kept(S)}
    <2>1. Kept(S) \in SUBSET S
      BY DEF Kept
    <2>2. O \in SUBSET Nat /\ O # {}
      BY <1>2, <2>1 DEF EventRow
    <2>3. Min(O) \in O /\ \A n \in O : Min(O) <= n
      <3> HIDE DEF O
      <3> QED
        BY <2>2, Least
    <2>4. PICK e \in Kept(S) : Min(O) = e.ordinal
      BY <2>3
    <2>5. \A f \in Kept(S) : e.ordinal <= f.ordinal
      <3>1. \A f \in Kept(S) : f.ordinal \in O
        OBVIOUS
      <3> QED
        BY <2>3, <2>4, <3>1
    <2>6. WithinLimits(Since(S, e)) /\ Since(S, e) \in SUBSET S
      BY <2>4 DEF Kept, Since
    <2>7. Kept(S) \in SUBSET Since(S, e)
      BY <2>1, <2>5 DEF Since, EventRow
    <2>8. IsFiniteSet(Since(S, e))
      BY <2>6, FS_Subset
    <2> QED
      BY <2>6, <2>7, <2>8, LessFits
  <1> QED
    BY <1>1, <1>2

(* The rows of a table: numbered apart, in the order of their sequences,   *)
(* one row of each Collection per sequence above its watermark.            *)
Ordered(S) ==
  /\ S \in SUBSET EventRow /\ IsFiniteSet(S)
  /\ \A e, f \in S : e.ordinal = f.ordinal => e = f
  /\ \A e, f \in S : e.c = f.c /\ e.ordinal < f.ordinal => e.seq < f.seq

Spans(S, c, a, b) ==
  /\ \A e \in S : e.c = c => a < e.seq /\ e.seq <= b
  /\ \A k \in (a + 1)..b : \E e \in S : e.c = c /\ e.seq = k

LEMMA SpansOfSequences ==
  ASSUME NEW S, NEW c, \A e \in S : e.seq \in Nat, NEW a \in Nat, NEW b \in Nat
  PROVE  {e.seq : e \in {e \in S : e.c = c}} = (a + 1)..b <=> Spans(S, c, a, b)
  <1> DEFINE Q == {e.seq : e \in {e \in S : e.c = c}}
  <1>1. ASSUME Q = (a + 1)..b
        PROVE  Spans(S, c, a, b)
    <2>1. ASSUME NEW e \in S, e.c = c
          PROVE  a < e.seq /\ e.seq <= b
      <3>1. e.seq \in (a + 1)..b
        BY <1>1, <2>1
      <3> QED
        BY <3>1
    <2>2. ASSUME NEW k \in (a + 1)..b
          PROVE  \E e \in S : e.c = c /\ e.seq = k
      <3>1. k \in Q
        BY <1>1
      <3> QED
        BY <3>1
    <2> QED
      BY <2>1, <2>2 DEF Spans
  <1>2. ASSUME Spans(S, c, a, b)
        PROVE  Q = (a + 1)..b
    <2>1. ASSUME NEW k \in Q
          PROVE  k \in (a + 1)..b
      <3>1. PICK e \in S : e.c = c /\ e.seq = k
        OBVIOUS
      <3>2. a < k /\ k <= b /\ k \in Nat
        BY <1>2, <3>1 DEF Spans
      <3> QED
        BY <3>2
    <2>2. ASSUME NEW k \in (a + 1)..b
          PROVE  k \in Q
      BY <1>2 DEF Spans
    <2> HIDE DEF Q
    <2> QED
      BY <2>1, <2>2
  <1> QED
    BY <1>1, <1>2

(* Appending a row and pruning keeps the order and leaves no hole that its *)
(* watermark does not announce.                                            *)
LEMMA PrunedSpans ==
  ASSUME NEW S, Ordered(S), NEW d \in Collection, NEW a \in Nat, NEW b \in Nat, a <= b,
         Spans(S, d, a, b)
  PROVE  LET m == Max({a} \cup {e.seq : e \in {e \in S \ Kept(S) : e.c = d}}) IN
         m \in Nat /\ m <= b /\ Spans(Kept(S), d, m, b)
  <1> DEFINE G == {a} \cup {e.seq : e \in {e \in S \ Kept(S) : e.c = d}}
             m == Max(G)
  <1>1. G \in SUBSET Nat /\ G # {}
    BY DEF Ordered, EventRow
  <1>2. \A x \in G : x <= b
    BY DEF Spans
  <1>3. a \in G /\ \A g \in S \ Kept(S) : g.c = d => g.seq \in G
    OBVIOUS
  <1>4. \A x \in G : x = a \/ \E g \in S \ Kept(S) : g.c = d /\ x = g.seq
    OBVIOUS
  <1> HIDE DEF G
  <1>5. m \in G /\ \A x \in G : x <= m
    BY <1>1, <1>2, Greatest
  <1>6. m \in Nat /\ m <= b /\ a <= m
    BY <1>1, <1>2, <1>3, <1>5
  <1> HIDE DEF m
  <1>7. ASSUME NEW e \in Kept(S), e.c = d
        PROVE  m < e.seq /\ e.seq <= b
    <2>1. e \in S /\ a < e.seq /\ e.seq <= b /\ e.seq \in Nat
      BY <1>7 DEF Kept, Spans, Ordered, EventRow
    <2>2. CASE m = a
      BY <2>1, <2>2
    <2>3. ASSUME NEW g \in S \ Kept(S), g.c = d, m = g.seq
          PROVE  m < e.seq
      <3>1. ~(g.ordinal >= e.ordinal)
        BY <2>3, KeptLast DEF Ordered
      <3>2. g.ordinal < e.ordinal
        BY <2>1, <3>1 DEF Ordered, EventRow
      <3> QED
        BY <1>7, <2>1, <2>3, <3>2 DEF Ordered
    <2> QED
      BY <1>4, <1>5, <2>1, <2>2, <2>3
  <1>8. ASSUME NEW k \in (m + 1)..b
        PROVE  \E e \in Kept(S) : e.c = d /\ e.seq = k
    <2>1. k \in (a + 1)..b
      BY <1>6
    <2>2. PICK e \in S : e.c = d /\ e.seq = k
      BY <2>1 DEF Spans
    <2>3. CASE e \in Kept(S)
      BY <2>2, <2>3
    <2>4. CASE e \notin Kept(S)
      <3>1. k \in G
        BY <1>3, <2>2, <2>4
      <3> QED
        BY <1>5, <1>6, <3>1
    <2> QED
      BY <2>3, <2>4
  <1>9. Spans(Kept(S), d, m, b)
    BY <1>7, <1>8 DEF Spans
  <1> QED
    BY <1>6, <1>9 DEF m, G

LEMMA OrderedPart ==
  ASSUME NEW S, Ordered(S), NEW T \in SUBSET S
  PROVE  Ordered(T)
  <1>1. IsFiniteSet(T)
    BY FS_Subset DEF Ordered
  <1> QED
    BY <1>1 DEF Ordered

(* What a page takes. *)
LEMMA PageShape ==
  ASSUME NEW c \in Collection, Ordered(log), NEW a \in Nat, NEW b \in Nat,
         Spans(log, c, a, b), NEW n \in Nat, n >= a
  PROVE  /\ Page(c, n) \in SUBSET Nat
         /\ Page(c, n) = {} => b <= n
         /\ Page(c, n) # {} => \E m \in Nat : m > n /\ Page(c, n) = (n + 1)..m
  <1> DEFINE after   == {e \in log : e.c = c /\ e.seq > n}
             upTo(e) == {x \in after : x.seq <= e.seq}
             Fits(e) == Cardinality(upTo(e)) <= ReadBatch /\ Bytes(upTo(e)) <= PageBytes
             P == Page(c, n)
  <1>1. P = {e.seq : e \in {e \in after : Fits(e)}}
    BY DEF Page
  <1>2. /\ \A e \in after : e \in log /\ e.c = c /\ e.seq > n /\ e.seq \in Nat /\ e.seq <= b
        /\ after \in SUBSET log
    BY DEF Ordered, EventRow, Spans
  <1>3. \A e \in log : e.c = c /\ e.seq > n => e \in after
    OBVIOUS
  <1>4. IsFiniteSet(after)
    BY <1>2, FS_Subset DEF Ordered
  <1>5. ASSUME NEW e \in after, NEW f \in after, Fits(e), f.seq <= e.seq
        PROVE  Fits(f)
    <2>1. upTo(e) \in SUBSET after /\ upTo(f) \in SUBSET upTo(e)
      BY <1>2, <1>5
    <2>2. IsFiniteSet(upTo(e))
      BY <1>4, <2>1, FS_Subset
    <2>3. /\ Cardinality(upTo(e)) \in Nat /\ Cardinality(upTo(f)) \in Nat
          /\ Cardinality(upTo(f)) <= Cardinality(upTo(e))
          /\ Bytes(upTo(e)) \in Nat /\ Bytes(upTo(f)) \in Nat
          /\ Bytes(upTo(f)) <= Bytes(upTo(e))
      <3> HIDE DEF upTo
      <3> QED
        BY <2>1, <2>2, Lighter
    <2>4. Cardinality(upTo(e)) <= ReadBatch /\ Bytes(upTo(e)) <= PageBytes
      BY <1>5
    <2>5. ReadBatch \in Nat /\ PageBytes \in Nat
      OBVIOUS
    <2> HIDE DEF upTo
    <2> QED
      BY <2>3, <2>4, <2>5 DEF Fits
  <1>6. ASSUME NEW e \in after, e.seq = n + 1
        PROVE  Fits(e)
    <2>1. ASSUME NEW f \in upTo(e)
          PROVE  f = e
      <3>1. f \in log /\ e \in log /\ f.c = e.c /\ f.seq = e.seq
        BY <1>2, <1>6
      <3>2. /\ f.ordinal \in Nat /\ e.ordinal \in Nat
            /\ ~(f.ordinal < e.ordinal) /\ ~(e.ordinal < f.ordinal)
        BY <3>1 DEF Ordered, EventRow
      <3> QED
        BY <3>1, <3>2 DEF Ordered
    <2>2. e \in upTo(e)
      BY <1>2
    <2>3. upTo(e) = {e}
      BY <2>1, <2>2
    <2> HIDE DEF upTo
    <2> QED
      BY <2>3, OneFits DEF Fits
  <1>7. P \in SUBSET Nat /\ \A k \in P : k > n /\ k <= b
    BY <1>1, <1>2
  <1>8. ASSUME b > n
        PROVE  n + 1 \in P
    <2>1. n + 1 \in (a + 1)..b
      BY <1>8
    <2>2. PICK e \in log : e.c = c /\ e.seq = n + 1
      BY <2>1 DEF Spans
    <2>3. e \in after
      BY <2>2
    <2>4. Fits(e)
      BY <1>6, <2>2, <2>3
    <2> HIDE DEF after, Fits
    <2> QED
      BY <1>1, <2>2, <2>3, <2>4
  <1>9. ASSUME P # {}
        PROVE  \E m \in Nat : m > n /\ P = (n + 1)..m
    <2> DEFINE m == Max(P)
    <2>1. m \in P /\ \A k \in P : k <= m
      <3> HIDE DEF P
      <3> QED
        BY <1>7, <1>9, Greatest
    <2>2. m \in Nat /\ m > n /\ m <= b
      BY <1>7, <2>1
    <2>3. PICK e \in after : Fits(e) /\ m = e.seq
      <3> HIDE DEF Fits, after
      <3> QED
        BY <1>1, <2>1
    <2>4. ASSUME NEW k \in (n + 1)..m
          PROVE  k \in P
      <3>1. k \in (a + 1)..b
        BY <2>2
      <3>2. PICK f \in log : f.c = c /\ f.seq = k
        BY <3>1 DEF Spans
      <3>3. f \in after /\ f.seq <= e.seq
        BY <2>3, <3>2
      <3>4. Fits(f)
        BY <1>5, <2>3, <3>3
      <3> HIDE DEF after, Fits
      <3> QED
        BY <1>1, <3>2, <3>3, <3>4
    <2>5. ASSUME NEW k \in P
          PROVE  k \in (n + 1)..m
      <3>1. k \in Nat /\ k > n /\ k <= m
        BY <1>7, <2>1
      <3> HIDE DEF m
      <3> QED
        BY <2>2, <3>1
    <2>6. P = (n + 1)..m
      BY <2>4, <2>5
    <2> HIDE DEF m, P
    <2> QED
      BY <2>2, <2>6
  <1> HIDE DEF P
  <1>10. P = {} => b <= n
    BY <1>8
  <1> QED
    BY <1>7, <1>9, <1>10 DEF P

-----------------------------------------------------------------------------
(* Types. *)

TypesOfLog ==
  log \in SUBSET EventRow /\ head \in [Collection -> Nat] /\ mark \in [Collection -> Nat]

TypesOfAccess ==
  /\ exists \in SUBSET Collection /\ admitted \in SUBSET Collection
  /\ session \in SUBSET Stream

TypesOfStreams ==
  /\ unpublished \in [Collection -> Nat]
  /\ subs \in SUBSET Stream /\ wake \in SUBSET Stream /\ closing \in BOOLEAN
  /\ slots \in 0..ReplayPages
  /\ phase \in [Stream -> Phases] /\ page \in [Stream -> SUBSET Nat]
  /\ scan \in [Stream -> Nat] /\ offered \in [Stream -> Nat]
  /\ cursor \in [Stream -> Nat \cup {None}]

LEMMA TypesSplit == TypeOK <=> TypesOfLog /\ TypesOfAccess /\ TypesOfStreams
  BY DEF TypeOK, TypesOfLog, TypesOfAccess, TypesOfStreams

LEMMA TypesSplitNext == TypeOK' <=> TypesOfLog' /\ TypesOfAccess' /\ TypesOfStreams'
  BY DEF TypeOK, TypesOfLog, TypesOfAccess, TypesOfStreams

-----------------------------------------------------------------------------
(* The log: what the invariant says of it, and what restores it. *)

LogInv ==
  /\ Ordered(log) /\ WithinLimits(log)
  /\ \E n \in Nat : \A e \in log : e.ordinal <= n
  /\ \A c \in Collection : mark[c] <= head[c] /\ Spans(log, c, mark[c], head[c])

LEMMA LogKnown ==
  ASSUME TypesOfLog
  PROVE  RetainedWindow /\ Table <=> LogInv
  <1>1. \A e \in log : e.seq \in Nat
    BY DEF TypesOfLog, EventRow
  <1>2. \A c \in Collection : mark[c] \in Nat /\ head[c] \in Nat
    BY DEF TypesOfLog
  <1>3. \A c \in Collection :
          SequencesOf(c) = (mark[c] + 1)..head[c] <=> Spans(log, c, mark[c], head[c])
    BY <1>1, <1>2, SpansOfSequences DEF SequencesOf
  <1> QED
    BY <1>3 DEF RetainedWindow, Table, LogInv, TypesOfLog, Ordered

LEMMA LogKnownNext ==
  ASSUME TypesOfLog'
  PROVE  RetainedWindow' /\ Table' <=> LogInv'
  <1>1. \A e \in log' : e.seq \in Nat
    BY DEF TypesOfLog, EventRow
  <1>2. \A c \in Collection : mark'[c] \in Nat /\ head'[c] \in Nat
    BY DEF TypesOfLog
  <1>3. \A c \in Collection :
          SequencesOf(c)' = (mark'[c] + 1)..head'[c] <=> Spans(log', c, mark'[c], head'[c])
    BY <1>1, <1>2, SpansOfSequences DEF SequencesOf
  <1> QED
    BY <1>3 DEF RetainedWindow, Table, LogInv, TypesOfLog, Ordered

LEMMA LogInit ==
  ASSUME Init
  PROVE  TypesOfLog /\ LogInv
  <1>1. TypesOfLog
    BY DEF Init, TypesOfLog
  <1>2. Ordered({})
    BY NothingFits DEF Ordered
  <1>3. ASSUME NEW c \in Collection
        PROVE  Spans({}, c, 0, 0)
    BY DEF Spans
  <1>4. log = {} /\ \A c \in Collection : mark[c] = 0 /\ head[c] = 0
    BY DEF Init
  <1> QED
    BY <1>1, <1>2, <1>3, <1>4, NothingFits DEF LogInv

LEMMA AppendKeepsLog ==
  ASSUME TypesOfLog, LogInv, NEW c \in Collection, AppendEvent(c)
  PROVE  TypesOfLog' /\ LogInv'
  <1>1. PICK size \in Sizes :
          Pruned(log \cup {[ordinal |-> NextOrdinal, c |-> c, seq |-> head[c] + 1,
                            size |-> size]})
    BY DEF AppendEvent
  <1> DEFINE row == [ordinal |-> NextOrdinal, c |-> c, seq |-> head[c] + 1, size |-> size]
             S   == log \cup {row}
             o   == NextOrdinal
  <1>2. o \in Nat /\ \A e \in log : e.ordinal < o
    <2> DEFINE T == {0} \cup {e.ordinal : e \in log}
    <2>1. T \in SUBSET Nat /\ T # {}
      BY DEF TypesOfLog, EventRow
    <2>2. PICK n \in Nat : \A e \in log : e.ordinal <= n
      BY DEF LogInv
    <2>3. \A x \in T : x <= n
      BY <2>2
    <2>4. \A e \in log : e.ordinal \in T
      OBVIOUS
    <2>5. o = Max(T) + 1
      BY DEF NextOrdinal
    <2> HIDE DEF T, o
    <2>6. Max(T) \in T /\ \A x \in T : x <= Max(T)
      BY <2>1, <2>2, <2>3, Greatest
    <2>7. Max(T) \in Nat /\ \A e \in log : e.ordinal \in Nat /\ e.ordinal <= Max(T)
      BY <2>1, <2>4, <2>6
    <2> HIDE DEF T
    <2> QED
      BY <2>5, <2>7
  <1> HIDE DEF o
  <1>3. /\ row \in EventRow
        /\ row.ordinal = o /\ row.c = c /\ row.seq = head[c] + 1
    BY <1>2 DEF EventRow, TypesOfLog, o
  <1> HIDE DEF row
  <1>4. IsFiniteSet(S)
    BY FS_AddElement DEF LogInv, Ordered
  <1>5. \A e \in log : e.c = c => e.seq <= head[c]
    BY DEF LogInv, Spans
  <1>6. Ordered(S)
    <2>1. S \in SUBSET EventRow
      BY <1>3 DEF TypesOfLog
    <2>2. \A e, f \in S : e.ordinal = f.ordinal => e = f
      BY <1>2, <1>3 DEF LogInv, Ordered, TypesOfLog, EventRow
    <2>3. ASSUME NEW e \in S, NEW f \in S, e.c = f.c, e.ordinal < f.ordinal
          PROVE  e.seq < f.seq
      <3>1. CASE e \in log /\ f \in log
        BY <2>3, <3>1 DEF LogInv, Ordered
      <3>2. CASE e \in log /\ f = row
        BY <1>3, <1>5, <2>1, <2>3, <3>2 DEF EventRow, TypesOfLog
      <3>3. CASE e = row
        BY <1>2, <1>3, <2>1, <2>3, <3>3 DEF EventRow
      <3> QED
        BY <3>1, <3>2, <3>3
    <2> QED
      BY <1>4, <2>1, <2>2, <2>3 DEF Ordered
  <1>7. ASSUME NEW d \in Collection
        PROVE  /\ mark[d] \in Nat /\ head'[d] \in Nat /\ mark[d] <= head'[d]
               /\ Spans(S, d, mark[d], head'[d])
    <2>1. /\ mark[d] \in Nat /\ head[d] \in Nat /\ mark[d] <= head[d]
          /\ Spans(log, d, mark[d], head[d])
      BY DEF TypesOfLog, LogInv
    <2>2. head'[d] = IF d = c THEN head[d] + 1 ELSE head[d]
      BY DEF AppendEvent, TypesOfLog
    <2>3. ASSUME NEW e \in S, e.c = d
          PROVE  mark[d] < e.seq /\ e.seq <= head'[d]
      <3>1. CASE e \in log
        BY <2>1, <2>2, <2>3, <3>1 DEF Spans, TypesOfLog, EventRow
      <3>2. CASE e = row
        BY <1>3, <2>1, <2>2, <2>3, <3>2
      <3> QED
        BY <3>1, <3>2
    <2>4. ASSUME NEW k \in (mark[d] + 1)..head'[d]
          PROVE  \E e \in S : e.c = d /\ e.seq = k
      <3>1. CASE k \in (mark[d] + 1)..head[d]
        BY <2>1, <3>1 DEF Spans
      <3>2. CASE d = c /\ k = head[c] + 1
        BY <1>3, <3>2
      <3> QED
        BY <2>1, <2>2, <3>1, <3>2
    <2> QED
      BY <2>1, <2>2, <2>3, <2>4 DEF Spans
  <1>8. log' = Kept(S) /\ mark' = Watermarks(S \ Kept(S))
    BY <1>1 DEF Pruned, row
  <1> HIDE DEF S
  <1>9. ASSUME NEW d \in Collection
        PROVE  /\ mark'[d] \in Nat /\ mark'[d] <= head'[d]
               /\ Spans(Kept(S), d, mark'[d], head'[d])
    <2> DEFINE G == S \ Kept(S)
    <2>1. mark'[d] = Max({mark[d]} \cup {e.seq : e \in {e \in G : e.c = d}})
      BY <1>8 DEF Watermarks
    <2> QED
      BY <1>6, <1>7, <2>1, PrunedSpans
  <1>10. Kept(S) \in SUBSET S
    BY DEF Kept
  <1>11. Ordered(log') /\ WithinLimits(log')
    BY <1>6, <1>8, <1>10, OrderedPart, KeptFits DEF Ordered
  <1>12. \A e \in log' : e.ordinal <= o
    <2>1. ASSUME NEW e \in log'
          PROVE  e \in log \/ e = row
      BY <1>8, <1>10 DEF S
    <2>2. \A e \in log : e.ordinal \in Nat
      BY DEF TypesOfLog, EventRow
    <2>3. \A e \in log : e.ordinal <= o
      BY <1>2, <2>2
    <2> QED
      BY <1>2, <1>3, <2>1, <2>3
  <1>13. mark' \in [Collection -> Nat]
    <2>1. mark' = [d \in Collection |-> mark'[d]]
      BY <1>8 DEF Watermarks
    <2> QED
      BY <1>9, <2>1
  <1>14. head' \in [Collection -> Nat]
    BY DEF AppendEvent, TypesOfLog
  <1> QED
    BY <1>2, <1>8, <1>9, <1>11, <1>12, <1>13, <1>14 DEF LogInv, TypesOfLog, Ordered

LEMMA DeleteKeepsLog ==
  ASSUME TypesOfLog, LogInv, NEW c \in Collection, DeleteCollection(c)
  PROVE  TypesOfLog' /\ LogInv'
  <1>1. log' \in SUBSET log /\ \A e \in log : e.c # c <=> e \in log'
    BY DEF DeleteCollection
  <1>2. TypesOfLog'
    BY <1>1 DEF DeleteCollection, TypesOfLog
  <1>3. Ordered(log') /\ WithinLimits(log')
    BY <1>1, OrderedPart, LessFits DEF LogInv, Ordered
  <1>4. \E n \in Nat : \A e \in log' : e.ordinal <= n
    BY <1>1 DEF LogInv
  <1>5. ASSUME NEW d \in Collection
        PROVE  mark'[d] <= head'[d] /\ Spans(log', d, mark'[d], head'[d])
    <2>1. CASE d = c
      <3>1. mark'[d] = 0 /\ head'[d] = 0
        BY <2>1 DEF DeleteCollection, TypesOfLog
      <3> QED
        BY <1>1, <2>1, <3>1 DEF Spans
    <2>2. CASE d # c
      <3>1. mark'[d] = mark[d] /\ head'[d] = head[d]
        BY <2>2 DEF DeleteCollection, TypesOfLog
      <3> QED
        BY <1>1, <2>2, <3>1 DEF Spans, LogInv
    <2> QED
      BY <2>1, <2>2
  <1> QED
    BY <1>2, <1>3, <1>4, <1>5 DEF LogInv

LEMMA LogStays ==
  ASSUME TypesOfLog, LogInv, UNCHANGED store
  PROVE  TypesOfLog' /\ LogInv'
  BY DEF TypesOfLog, LogInv, store

-----------------------------------------------------------------------------
(* The streams. *)

Offers(s) ==
  /\ phase[s] \in Replaying \ {"write"} => scan[s] <= offered[s]
  /\ phase[s] = "write" => scan[s] <= offered[s] + 1
  /\ cursor[s] <= offered[s]

Fine(s) == Offers(s) /\ Paged(s) /\ Hears(s)

StreamsInv == TypesOfStreams /\ Slots /\ \A s \in Stream : Fine(s)

LEMMA IInvSplit ==
  IInv <=> TypesOfLog /\ LogInv /\ TypesOfAccess /\ StreamsInv
  <1>1. (\A s \in Stream : Fine(s)) <=> NothingMissed /\ Streams
    BY DEF Fine, Offers, NothingMissed, Streams
  <1> QED
    BY <1>1, TypesSplit, LogKnown DEF IInv, StreamsInv

LEMMA IInvSplitNext ==
  IInv' <=> TypesOfLog' /\ LogInv' /\ TypesOfAccess' /\ StreamsInv'
  <1>1. (\A s \in Stream : Fine(s)') <=> NothingMissed' /\ Streams'
    BY DEF Fine, Offers, NothingMissed, Streams
  <1> QED
    BY <1>1, TypesSplitNext, LogKnownNext DEF IInv, StreamsInv

(* The slots a step of one stream takes or gives back. *)
LEMMA HoldersOfMove ==
  ASSUME StreamsInv, NEW s \in Stream, NEW p, phase' = [phase EXCEPT ![s] = p]
  PROVE  /\ slots \in Nat /\ Held(s) \in {0, 1} /\ slots >= Held(s)
         /\ IsFiniteSet(Holders')
         /\ Cardinality(Holders') = slots - Held(s) + (IF p \in Holding THEN 1 ELSE 0)
  <1> DEFINE Others == Holders \ {s}
  <1>1. IsFiniteSet(Holders) /\ slots = Cardinality(Holders) /\ slots \in Nat
    BY DEF StreamsInv, Slots, TypesOfStreams
  <1>2. /\ IsFiniteSet(Others)
        /\ Cardinality(Others) = IF s \in Holders THEN slots - 1 ELSE slots
    BY <1>1, FS_RemoveElement
  <1>3. Cardinality(Others) \in Nat
    BY <1>2, FS_CardinalityType
  <1>4. Held(s) = IF s \in Holders THEN 1 ELSE 0
    BY DEF Held, Holders
  <1>5. Cardinality(Others) = slots - Held(s) /\ slots >= Held(s) /\ Held(s) \in {0, 1}
    BY <1>1, <1>2, <1>3, <1>4
  <1>6. Holders' = IF p \in Holding THEN Others \cup {s} ELSE Others
    BY DEF Holders, StreamsInv, TypesOfStreams
  <1>7. s \notin Others
    OBVIOUS
  <1> HIDE DEF Others
  <1>8. /\ IsFiniteSet(Others \cup {s})
        /\ Cardinality(Others \cup {s}) = Cardinality(Others) + 1
    BY <1>2, <1>7, FS_AddElement
  <1> QED
    BY <1>1, <1>2, <1>5, <1>6, <1>8

(* One stream moves, the others lose nothing. *)
LEMMA OneMoves ==
  ASSUME StreamsInv, NEW s \in Stream, TypesOfStreams', Fine(s)', Slots',
         UNCHANGED <<head, unpublished>>,
         \A t \in Stream : t # s =>
            /\ phase'[t] = phase[t] /\ scan'[t] = scan[t] /\ page'[t] = page[t]
            /\ cursor'[t] = cursor[t] /\ offered'[t] = offered[t]
            /\ t \in wake => t \in wake'
            /\ t \in subs => t \in subs'
  PROVE  StreamsInv'
  <1>1. ASSUME NEW t \in Stream, t # s
        PROVE  Fine(t)'
    <2>1. Fine(t)
      BY DEF StreamsInv
    <2>2. Offers(t)'
      BY <1>1, <2>1 DEF Fine, Offers
    <2>3. Paged(t)'
      BY <1>1, <2>1 DEF Fine, Paged
    <2>4. Hears(t)'
      BY <1>1, <2>1 DEF Fine, Hears
    <2> QED
      BY <2>2, <2>3, <2>4 DEF Fine
  <1> QED
    BY <1>1 DEF StreamsInv

LEMMA EndMoves ==
  ASSUME StreamsInv, NEW s \in Stream, NEW h, h = Held(s), End(s, h), UNCHANGED head,
         cursor' \in [Stream -> Nat \cup {None}], offered' \in [Stream -> Nat],
         \A t \in Stream : t # s => cursor'[t] = cursor[t] /\ offered'[t] = offered[t],
         cursor'[s] <= offered'[s]
  PROVE  StreamsInv'
  <1>1. /\ slots \in Nat /\ h \in {0, 1} /\ slots >= h
        /\ IsFiniteSet(Holders') /\ Cardinality(Holders') = slots - h
    <2> DEFINE p == "off"
    <2>1. phase' = [phase EXCEPT ![s] = p] /\ p \notin Holding
      BY DEF End, Holding
    <2> HIDE DEF p
    <2>2. /\ slots \in Nat /\ Held(s) \in {0, 1} /\ slots >= Held(s)
          /\ IsFiniteSet(Holders')
          /\ Cardinality(Holders') = slots - Held(s) + (IF p \in Holding THEN 1 ELSE 0)
      BY <2>1, HoldersOfMove
    <2> QED
      BY <2>1, <2>2
  <1>2. Slots'
    BY <1>1 DEF Slots, End
  <1>3. TypesOfStreams'
    <2>1. slots' \in 0..ReplayPages
      BY <1>1 DEF TypesOfStreams, StreamsInv, End
    <2>2. /\ phase' \in [Stream -> Phases] /\ page' \in [Stream -> SUBSET Nat]
          /\ scan' \in [Stream -> Nat]
      BY DEF TypesOfStreams, StreamsInv, End, Phases
    <2>3. /\ subs' \in SUBSET Stream /\ wake' \in SUBSET Stream
          /\ closing' \in BOOLEAN /\ unpublished' \in [Collection -> Nat]
      BY DEF TypesOfStreams, StreamsInv, End
    <2> QED
      BY <2>1, <2>2, <2>3 DEF TypesOfStreams
  <1>4. phase'[s] = "off"
    BY DEF End, StreamsInv, TypesOfStreams
  <1>5. Fine(s)'
    BY <1>4 DEF Fine, Offers, Paged, Hears, Replaying
  <1>6. \A t \in Stream : t # s =>
            /\ phase'[t] = phase[t] /\ scan'[t] = scan[t] /\ page'[t] = page[t]
            /\ t \in wake => t \in wake'
            /\ t \in subs => t \in subs'
    BY DEF End, StreamsInv, TypesOfStreams
  <1> QED
    BY <1>2, <1>3, <1>5, <1>6, OneMoves DEF End

(* The first Event of a page has been written or hidden. *)
LEMMA AdvanceMoves ==
  ASSUME StreamsInv, NEW s \in Stream, NEW k \in Nat, NEW m \in Nat, k <= m,
         page[s] = k..m, phase[s] \in {"deliver", "write"}, Advance(s),
         UNCHANGED <<head, registry>>, scan' = [scan EXCEPT ![s] = k],
         k <= offered[s] + 1, offered' = Offered(s, k),
         cursor' = cursor \/ cursor' = [cursor EXCEPT ![s] = k]
  PROVE  StreamsInv'
  <1>1. Min(page[s]) = k
    BY LeastOfInterval
  <1>2. page' = [page EXCEPT ![s] = page[s] \ {k}]
    BY <1>1 DEF Advance
  <1>3. page' \in [Stream -> SUBSET Nat] /\ page'[s] = (k + 1)..m
    BY <1>2 DEF StreamsInv, TypesOfStreams
  <1>4. page[s] # {k} <=> m > k
    <2>1. m \in page[s] /\ k \in page[s]
      OBVIOUS
    <2>2. m = k => page[s] = {k}
      OBVIOUS
    <2> QED
      BY <2>1, <2>2
  <1>5. /\ phase' = [phase EXCEPT ![s] = IF m > k THEN "deliver" ELSE "check"]
        /\ slots' = IF m > k THEN slots ELSE slots - 1
    BY <1>1, <1>4 DEF Advance, Goto
  <1>6. Held(s) = 1
    BY DEF Held, Holding
  <1>7. /\ slots \in Nat /\ slots >= 1 /\ IsFiniteSet(Holders')
        /\ Cardinality(Holders') = slots'
    <2> DEFINE p == IF m > k THEN "deliver" ELSE "check"
    <2>1. p \in Holding <=> m > k
      BY DEF Holding
    <2>2. phase' = [phase EXCEPT ![s] = p]
      BY <1>5
    <2> HIDE DEF p
    <2>3. /\ slots \in Nat /\ slots >= Held(s) /\ IsFiniteSet(Holders')
          /\ Cardinality(Holders') = slots - Held(s) + (IF p \in Holding THEN 1 ELSE 0)
      BY <2>2, HoldersOfMove
    <2> QED
      BY <1>5, <1>6, <2>1, <2>3
  <1>8. Slots'
    BY <1>7 DEF Slots
  <1>9. /\ offered' \in [Stream -> Nat] /\ k <= offered'[s] /\ offered[s] <= offered'[s]
        /\ \A t \in Stream : t # s => offered'[t] = offered[t]
    BY DEF Offered, StreamsInv, TypesOfStreams
  <1>10. /\ cursor' \in [Stream -> Nat \cup {None}]
         /\ cursor'[s] = cursor[s] \/ cursor'[s] = k
         /\ \A t \in Stream : t # s => cursor'[t] = cursor[t]
    BY DEF StreamsInv, TypesOfStreams
  <1>11. /\ phase' \in [Stream -> Phases] /\ phase'[s] = IF m > k THEN "deliver" ELSE "check"
         /\ \A t \in Stream : t # s => phase'[t] = phase[t]
    BY <1>5 DEF StreamsInv, TypesOfStreams, Phases
  <1>12. /\ scan' \in [Stream -> Nat] /\ scan'[s] = k
         /\ \A t \in Stream : t # s => scan'[t] = scan[t]
    BY DEF StreamsInv, TypesOfStreams
  <1>13. slots' \in 0..ReplayPages
    BY <1>5, <1>7 DEF StreamsInv, TypesOfStreams
  <1>14. TypesOfStreams'
    BY <1>3, <1>9, <1>10, <1>11, <1>12, <1>13 DEF StreamsInv, TypesOfStreams, registry
  <1>15. Offers(s)'
    <2>1. cursor[s] <= offered[s]
      BY DEF StreamsInv, Fine, Offers
    <2>2. cursor[s] \in Int /\ offered[s] \in Nat /\ offered'[s] \in Nat
      <3>1. cursor[s] \in Nat \cup {None} /\ offered[s] \in Nat
        BY DEF StreamsInv, TypesOfStreams
      <3> QED
        BY <1>9, <3>1 DEF None
    <2>3. cursor'[s] <= offered'[s]
      BY <1>9, <1>10, <2>1, <2>2
    <2>4. phase'[s] # "write"
      BY <1>11
    <2> QED
      BY <1>9, <1>12, <2>3, <2>4 DEF Offers
  <1>16. Paged(s)'
    BY <1>3, <1>11, <1>12 DEF Paged
  <1>17. Hears(s)'
    BY <1>11 DEF Hears, StreamsInv, Fine, registry
  <1>18. \A t \in Stream : t # s => page'[t] = page[t]
    BY <1>2 DEF StreamsInv, TypesOfStreams
  <1> QED
    BY <1>8, <1>9, <1>10, <1>11, <1>12, <1>14, <1>15, <1>16, <1>17, <1>18, OneMoves
       DEF Fine, registry

(* A stream moves within the loop, its slot with it. *)
LEMMA PhaseMoves ==
  ASSUME StreamsInv, NEW s \in Stream, NEW p \in Phases, Goto(s, p),
         UNCHANGED <<head, unpublished, closing>>,
         slots' = slots - Held(s) + (IF p \in Holding THEN 1 ELSE 0),
         slots' <= ReplayPages, subs \in SUBSET subs', subs' \in SUBSET Stream,
         wake' \in SUBSET Stream, \A t \in wake : t # s => t \in wake',
         scan' \in [Stream -> Nat], page' \in [Stream -> SUBSET Nat],
         offered' \in [Stream -> Nat], cursor' \in [Stream -> Nat \cup {None}],
         \A t \in Stream : t # s =>
            /\ scan'[t] = scan[t] /\ page'[t] = page[t]
            /\ cursor'[t] = cursor[t] /\ offered'[t] = offered[t],
         Fine(s)'
  PROVE  StreamsInv'
  <1>1. phase' = [phase EXCEPT ![s] = p]
    BY DEF Goto
  <1>2. /\ slots \in Nat /\ Held(s) \in {0, 1} /\ slots >= Held(s)
        /\ IsFiniteSet(Holders') /\ Cardinality(Holders') = slots'
    BY <1>1, HoldersOfMove
  <1>3. Slots'
    BY <1>2 DEF Slots
  <1>4. slots' \in 0..ReplayPages
    BY <1>2
  <1>5. /\ phase' \in [Stream -> Phases]
        /\ \A t \in Stream : t # s => phase'[t] = phase[t]
    BY <1>1 DEF StreamsInv, TypesOfStreams
  <1>6. TypesOfStreams'
    BY <1>4, <1>5 DEF StreamsInv, TypesOfStreams
  <1> QED
    BY <1>3, <1>5, <1>6, OneMoves

LEMMA SubscribeStep ==
  ASSUME StreamsInv, NEW s \in Stream, Subscribe(s)
  PROVE  StreamsInv'
  <1>1. Fine(s)'
    <2>1. phase'[s] = "opening" /\ s \in subs'
      BY DEF Subscribe, Goto, StreamsInv, TypesOfStreams
    <2>2. cursor'[s] <= offered'[s]
      BY DEF Subscribe, client, StreamsInv, Fine, Offers
    <2> QED
      BY <2>1, <2>2 DEF Fine, Offers, Paged, Hears, Replaying
  <1>2. Held(s) = 0 /\ "opening" \notin Holding /\ "opening" \in Phases
    BY DEF Subscribe, Held, Holding, Phases
  <1>3. slots' = slots /\ slots \in Nat /\ slots <= ReplayPages
    BY DEF Subscribe, StreamsInv, TypesOfStreams
  <1> QED
    BY <1>1, <1>2, <1>3, PhaseMoves
       DEF Subscribe, store, client, StreamsInv, TypesOfStreams

LEMMA RefuseStep ==
  ASSUME StreamsInv, NEW s \in Stream, Refuse(s)
  PROVE  StreamsInv'
  <1>1. Held(s) = 0
    BY DEF Refuse, Held, Holding
  <1>2. /\ cursor' \in [Stream -> Nat \cup {None}] /\ offered' \in [Stream -> Nat]
        /\ \A t \in Stream : t # s => cursor'[t] = cursor[t] /\ offered'[t] = offered[t]
        /\ cursor'[s] = -1 /\ offered'[s] = 0
    BY DEF Refuse, StreamsInv, TypesOfStreams, None
  <1> QED
    BY <1>1, <1>2, EndMoves DEF Refuse, store

(* A handler that returns and gives its client nothing. *)
LEMMA QuietEnd ==
  ASSUME StreamsInv, NEW s \in Stream, NEW h, h = Held(s), End(s, h), UNCHANGED <<head, client>>
  PROVE  StreamsInv'
  <1>1. /\ cursor' \in [Stream -> Nat \cup {None}] /\ offered' \in [Stream -> Nat]
        /\ \A t \in Stream : t # s => cursor'[t] = cursor[t] /\ offered'[t] = offered[t]
        /\ cursor'[s] <= offered'[s]
    BY DEF client, StreamsInv, TypesOfStreams, Fine, Offers
  <1> QED
    BY <1>1, EndMoves

LEMMA ReadyStep ==
  ASSUME StreamsInv, TypesOfLog, NEW s \in Stream, Ready(s)
  PROVE  StreamsInv'
  <1> DEFINE from == IF cursor[s] = None THEN head[Watches[s]] ELSE cursor[s]
  <1>1. from \in Nat
    <2>1. Watches[s] \in Collection
      OBVIOUS
    <2> QED
      BY <2>1 DEF StreamsInv, TypesOfStreams, TypesOfLog
  <1>2. /\ phase[s] = "opening" /\ scan' = [scan EXCEPT ![s] = from]
        /\ cursor' = [cursor EXCEPT ![s] = from]
        /\ offered' = [offered EXCEPT ![s] = IF cursor[s] = None THEN from ELSE @]
        /\ Goto(s, "check") /\ UNCHANGED <<store, registry, slots, page>>
    BY DEF Ready
  <1>3. from <= offered'[s] /\ offered' \in [Stream -> Nat]
    BY <1>1, <1>2 DEF StreamsInv, TypesOfStreams, Fine, Offers
  <1> HIDE DEF from
  <1>4. /\ scan' \in [Stream -> Nat] /\ cursor' \in [Stream -> Nat \cup {None}]
        /\ scan'[s] = from /\ cursor'[s] = from
        /\ \A t \in Stream : t # s =>
             scan'[t] = scan[t] /\ cursor'[t] = cursor[t] /\ offered'[t] = offered[t]
    BY <1>1, <1>2 DEF StreamsInv, TypesOfStreams
  <1>5. Fine(s)'
    <2>1. phase'[s] = "check"
      BY <1>2 DEF Goto, StreamsInv, TypesOfStreams
    <2>2. s \in subs'
      BY <1>2 DEF registry, StreamsInv, Fine, Hears
    <2> QED
      BY <1>3, <1>4, <2>1, <2>2 DEF Fine, Offers, Paged, Hears
  <1>6. Held(s) = 0 /\ "check" \notin Holding /\ "check" \in Phases
    BY <1>2 DEF Held, Holding, Phases
  <1>7. slots' = slots /\ slots \in Nat /\ slots <= ReplayPages
    BY <1>2 DEF StreamsInv, TypesOfStreams
  <1>8. page' \in [Stream -> SUBSET Nat] /\ page' = page
    BY <1>2 DEF StreamsInv, TypesOfStreams
  <1>9. /\ UNCHANGED <<head, unpublished, closing>>
        /\ subs \in SUBSET subs' /\ subs' \in SUBSET Stream
        /\ wake' \in SUBSET Stream /\ wake' = wake
    BY <1>2 DEF store, registry, StreamsInv, TypesOfStreams
  <1> QED
    BY <1>2, <1>3, <1>4, <1>5, <1>6, <1>7, <1>8, <1>9, PhaseMoves

(* A step of a stream that keeps its position and its page. *)
LEMMA GoOn ==
  ASSUME StreamsInv, NEW s \in Stream, NEW p \in Phases, Goto(s, p),
         UNCHANGED <<head, unpublished, closing, subs, scan, client>>,
         slots' = slots - Held(s) + (IF p \in Holding THEN 1 ELSE 0),
         slots' <= ReplayPages, wake' \in SUBSET wake, wake \in SUBSET (wake' \cup {s}),
         page' \in [Stream -> SUBSET Nat], \A t \in Stream : t # s => page'[t] = page[t],
         phase[s] \in Replaying \ {"write"}, p \in Replaying \ {"write"},
         p = "deliver" => \E m \in Nat : m > scan[s] /\ page'[s] = (scan[s] + 1)..m,
         p \in {"empty", "wait"} /\ scan[s] < head[Watches[s]]
            => s \in wake' \/ unpublished[Watches[s]] > 0
  PROVE  StreamsInv'
  <1>1. phase'[s] = p
    BY DEF Goto, StreamsInv, TypesOfStreams
  <1>2. Fine(s)
    BY DEF StreamsInv
  <1>3. phase[s] # "off" /\ phase[s] # "write" /\ p # "write"
    BY DEF Replaying
  <1>4. Offers(s)'
    BY <1>1, <1>2, <1>3 DEF Fine, Offers, client
  <1>5. Paged(s)'
    BY <1>1, <1>3 DEF Paged
  <1>6. Hears(s)'
    BY <1>1, <1>2, <1>3 DEF Fine, Hears
  <1>7. Fine(s)'
    BY <1>4, <1>5, <1>6 DEF Fine
  <1>8. /\ scan' \in [Stream -> Nat] /\ offered' \in [Stream -> Nat]
        /\ cursor' \in [Stream -> Nat \cup {None}]
        /\ subs' \in SUBSET Stream /\ wake' \in SUBSET Stream
        /\ scan' = scan /\ cursor' = cursor /\ offered' = offered /\ subs' = subs
    BY DEF StreamsInv, TypesOfStreams, client
  <1> QED
    BY <1>7, <1>8, PhaseMoves

LEMMA PhaseFacts ==
  /\ Holding \in SUBSET (Replaying \cap Phases)
  /\ {"check", "slot", "wait"} \in SUBSET ((Replaying \cap Phases) \ Holding)
  /\ {"read", "deliver", "write", "empty"} = Holding
  /\ "write" \notin {"check", "slot", "wait", "read", "deliver", "empty"}
  BY DEF Holding, Replaying, Phases

LEMMA SlotsKnown ==
  ASSUME StreamsInv, NEW s \in Stream
  PROVE  /\ slots \in Nat /\ slots <= ReplayPages /\ slots >= Held(s)
         /\ page \in [Stream -> SUBSET Nat] /\ Fine(s)
         /\ phase[s] \in Holding => Held(s) = 1
         /\ phase[s] \notin Holding => Held(s) = 0
  <1> DEFINE p == phase[s]
  <1>1. phase' = [phase EXCEPT ![s] = p] => slots >= Held(s)
    <2> HIDE DEF p
    <2> QED
      BY HoldersOfMove
  <1>2. phase[s] \in Holding => slots >= 1
    <2>1. IsFiniteSet(Holders) /\ slots = Cardinality(Holders)
      BY DEF StreamsInv, Slots
    <2>2. slots = 0 => Holders = {}
      BY <2>1, FS_EmptySet
    <2> QED
      BY <2>2 DEF StreamsInv, TypesOfStreams, Holders
  <1> QED
    BY <1>2 DEF StreamsInv, TypesOfStreams, Held

LEMMA CheckStep ==
  ASSUME StreamsInv, NEW s \in Stream, Check(s)
  PROVE  StreamsInv'
  <1>1. phase[s] = "check" /\ UNCHANGED <<head, client>>
    BY DEF Check, store
  <1>2. Held(s) = 0
    BY <1>1, SlotsKnown, PhaseFacts
  <1>3. CASE End(s, 0)
    BY <1>1, <1>2, <1>3, QuietEnd
  <1>4. CASE Goto(s, "slot") /\ UNCHANGED <<registry, slots, scan, page>>
    BY <1>1, <1>2, <1>4, GoOn, SlotsKnown, PhaseFacts DEF registry
  <1> QED
    BY <1>3, <1>4 DEF Check

LEMMA TakeSlotStep ==
  ASSUME StreamsInv, NEW s \in Stream, TakeSlot(s)
  PROVE  StreamsInv'
  <1>1. /\ phase[s] = "slot" /\ slots < ReplayPages /\ slots' = slots + 1
        /\ Goto(s, "read") /\ UNCHANGED <<store, registry, scan, page, client>>
    BY DEF TakeSlot, SlotFree
  <1>2. slots' = slots - Held(s) + 1 /\ slots' <= ReplayPages
    BY <1>1, SlotsKnown, PhaseFacts
  <1> QED
    BY <1>1, <1>2, GoOn, SlotsKnown, PhaseFacts DEF registry, store

LEMMA ReadAfterStep ==
  ASSUME StreamsInv, TypesOfLog, LogInv, NEW s \in Stream, ReadAfter(s)
  PROVE  StreamsInv'
  <1> DEFINE c == Watches[s]
             P == Page(c, scan[s])
  <1>1. phase[s] = "read" /\ UNCHANGED <<store, access, client>>
    BY DEF ReadAfter
  <1>2. Held(s) = 1 /\ slots \in Nat /\ slots <= ReplayPages
    BY <1>1, SlotsKnown, PhaseFacts
  <1>3. CASE End(s, 1)
    BY <1>1, <1>2, <1>3, QuietEnd DEF store
  <1>4. ASSUME ~Overtaken(s)
        PROVE  /\ P \in SUBSET Nat
               /\ P = {} => head[c] <= scan[s]
               /\ P # {} => \E m \in Nat : m > scan[s] /\ P = (scan[s] + 1)..m
    <2>1. c \in Collection /\ scan[s] \in Nat
      BY DEF StreamsInv, TypesOfStreams
    <2>2. mark[c] \in Nat /\ head[c] \in Nat /\ Spans(log, c, mark[c], head[c])
      BY <2>1 DEF TypesOfLog, LogInv
    <2>3. scan[s] >= mark[c]
      BY <1>4, <2>1, <2>2 DEF Overtaken, Expired
    <2> QED
      BY <2>1, <2>2, <2>3, PageShape DEF LogInv
  <1>5. CASE /\ ~Overtaken(s) /\ P # {} /\ page' = [page EXCEPT ![s] = P]
             /\ Goto(s, "deliver") /\ UNCHANGED <<registry, slots, scan>>
    <2>1. /\ P \in SUBSET Nat
          /\ \E m \in Nat : m > scan[s] /\ P = (scan[s] + 1)..m
      BY <1>4, <1>5
    <2> HIDE DEF P
    <2>2. /\ page' \in [Stream -> SUBSET Nat] /\ page'[s] = P
          /\ \A t \in Stream : t # s => page'[t] = page[t]
      BY <1>5, <2>1, SlotsKnown
    <2>3. slots' = slots - Held(s) + 1 /\ slots' <= ReplayPages
      BY <1>2, <1>5
    <2> QED
      BY <1>1, <1>5, <2>1, <2>2, <2>3, GoOn, PhaseFacts DEF store, registry
  <1>6. CASE /\ ~Overtaken(s) /\ P = {} /\ Goto(s, "empty")
             /\ UNCHANGED <<registry, slots, scan, page>>
    <2>1. ~(scan[s] < head[c])
      <3>1. head[c] <= scan[s] /\ head[c] \in Nat /\ scan[s] \in Nat
        BY <1>4, <1>6 DEF StreamsInv, TypesOfStreams, TypesOfLog
      <3> QED
        BY <3>1
    <2>2. slots' = slots - Held(s) + 1 /\ slots' <= ReplayPages
      BY <1>2, <1>6
    <2> QED
      BY <1>1, <1>6, <2>1, <2>2, GoOn, SlotsKnown, PhaseFacts DEF store, registry
  <1> QED
    BY <1>3, <1>5, <1>6 DEF ReadAfter

LEMMA ReturnSlotStep ==
  ASSUME StreamsInv, NEW s \in Stream, ReturnSlot(s)
  PROVE  StreamsInv'
  <1>1. /\ phase[s] = "empty" /\ slots' = slots - 1 /\ Goto(s, "wait")
        /\ UNCHANGED <<store, registry, scan, page, client>>
    BY DEF ReturnSlot
  <1>2. slots' = slots - Held(s) + 0 /\ slots' <= ReplayPages
    BY <1>1, SlotsKnown, PhaseFacts
  <1>3. scan[s] < head[Watches[s]] => s \in wake \/ unpublished[Watches[s]] > 0
    BY <1>1, SlotsKnown DEF Fine, Hears
  <1> QED
    BY <1>1, <1>2, <1>3, GoOn, SlotsKnown, PhaseFacts DEF registry, store

LEMMA RevalidateStep ==
  ASSUME StreamsInv, NEW s \in Stream, Revalidate(s)
  PROVE  StreamsInv'
  <1> DEFINE k == scan[s] + 1
  <1>1. phase[s] = "deliver" /\ UNCHANGED <<store, access, cursor>>
    BY DEF Revalidate
  <1>2. PICK m \in Nat : m > scan[s] /\ page[s] = k..m
    BY <1>1, SlotsKnown DEF Fine, Paged
  <1>3. /\ scan[s] \in Nat /\ k \in Nat /\ k <= m /\ offered[s] \in Nat
        /\ scan[s] <= offered[s] /\ cursor[s] <= offered[s]
    <2>1. phase[s] \in Replaying \ {"write"}
      BY <1>1 DEF Replaying, Phases
    <2>2. scan[s] \in Nat /\ offered[s] \in Nat
      BY DEF StreamsInv, TypesOfStreams
    <2>3. scan[s] <= offered[s] /\ cursor[s] <= offered[s]
      BY <2>1 DEF StreamsInv, Fine, Offers
    <2> QED
      BY <1>2, <2>2, <2>3
  <1>4. Held(s) = 1 /\ slots \in Nat /\ slots <= ReplayPages
    BY <1>1, SlotsKnown, PhaseFacts
  <1>5. Min(page[s]) = k
    BY <1>2, <1>3, LeastOfInterval
  <1>6. CASE End(s, 1) /\ UNCHANGED offered
    BY <1>1, <1>4, <1>6, QuietEnd DEF store, client
  <1>7. CASE /\ scan' = [scan EXCEPT ![s] = k] /\ Goto(s, "write")
             /\ UNCHANGED <<slots, page, offered, registry>>
    <2>1. scan' \in [Stream -> Nat] /\ scan'[s] = k /\ \A t \in Stream : t # s => scan'[t] = scan[t]
      BY <1>3, <1>7 DEF StreamsInv, TypesOfStreams
    <2>2. phase'[s] = "write"
      BY <1>7 DEF Goto, StreamsInv, TypesOfStreams
    <2>3. Offers(s)'
      BY <1>1, <1>3, <1>7, <2>1, <2>2 DEF Offers
    <2>4. Paged(s)'
      BY <1>2, <1>3, <1>7, <2>1, <2>2 DEF Paged
    <2>5. Hears(s)'
      BY <1>1, <1>7, <2>2, SlotsKnown DEF Fine, Hears, registry
    <2>6. Fine(s)'
      BY <2>3, <2>4, <2>5 DEF Fine
    <2>7. /\ page' \in [Stream -> SUBSET Nat] /\ offered' \in [Stream -> Nat]
          /\ cursor' \in [Stream -> Nat \cup {None}]
          /\ subs' \in SUBSET Stream /\ wake' \in SUBSET Stream
      BY <1>1, <1>7 DEF StreamsInv, TypesOfStreams, registry
    <2>8. slots' = slots - Held(s) + 1 /\ slots' <= ReplayPages
      BY <1>4, <1>7
    <2> QED
      BY <1>1, <1>7, <2>1, <2>6, <2>7, <2>8, PhaseMoves, PhaseFacts DEF store, registry
  <1>8. CASE /\ scan' = [scan EXCEPT ![s] = k] /\ Advance(s) /\ offered' = Offered(s, k)
             /\ UNCHANGED registry
    <2>1. k <= offered[s] + 1
      BY <1>3
    <2> HIDE DEF k
    <2> QED
      BY <1>1, <1>2, <1>3, <1>8, <2>1, AdvanceMoves DEF store
  <1> QED
    BY <1>5, <1>6, <1>7, <1>8 DEF Revalidate

LEMMA WriteFrameStep ==
  ASSUME StreamsInv, NEW s \in Stream, WriteFrame(s)
  PROVE  StreamsInv'
  <1> DEFINE k == scan[s]
  <1>1. /\ phase[s] = "write" /\ cursor' = [cursor EXCEPT ![s] = k]
        /\ offered' = Offered(s, k) /\ Advance(s) /\ UNCHANGED <<store, registry, scan>>
    BY DEF WriteFrame
  <1>2. PICK m \in Nat : m >= k /\ page[s] = k..m
    BY <1>1, SlotsKnown DEF Fine, Paged
  <1>3. k \in Nat /\ k <= m /\ k <= offered[s] + 1
    BY <1>1, <1>2, SlotsKnown DEF StreamsInv, TypesOfStreams, Fine, Offers
  <1>4. scan' = [scan EXCEPT ![s] = k]
    BY <1>1 DEF StreamsInv, TypesOfStreams
  <1> HIDE DEF k
  <1> QED
    BY <1>1, <1>2, <1>3, <1>4, AdvanceMoves DEF store

LEMMA WakeStep ==
  ASSUME StreamsInv, NEW s \in Stream, Wake(s)
  PROVE  StreamsInv'
  <1>1. /\ phase[s] = "wait" /\ Goto(s, "check") /\ wake' = wake \ {s}
        /\ UNCHANGED <<store, subs, closing, unpublished, slots, scan, page, client>>
    BY DEF Wake
  <1>2. slots' = slots - Held(s) + 0 /\ slots' <= ReplayPages
    BY <1>1, SlotsKnown, PhaseFacts
  <1> QED
    BY <1>1, <1>2, GoOn, SlotsKnown, PhaseFacts DEF store

LEMMA HeartbeatStep ==
  ASSUME StreamsInv, NEW s \in Stream, Heartbeat(s)
  PROVE  StreamsInv'
  <1>1. phase[s] = "wait" /\ UNCHANGED <<head, client>>
    BY DEF Heartbeat, store
  <1>2. Held(s) = 0
    BY <1>1, SlotsKnown, PhaseFacts
  <1>3. CASE End(s, 0)
    BY <1>1, <1>2, <1>3, QuietEnd
  <1>4. CASE Goto(s, "check") /\ UNCHANGED <<registry, slots, scan, page>>
    BY <1>1, <1>2, <1>4, GoOn, SlotsKnown, PhaseFacts DEF registry
  <1> QED
    BY <1>3, <1>4 DEF Heartbeat

LEMMA DisconnectStep ==
  ASSUME StreamsInv, NEW s \in Stream, Disconnect(s)
  PROVE  StreamsInv'
  <1>1. End(s, Held(s)) /\ UNCHANGED head
    BY DEF Disconnect, store
  <1>2. CASE UNCHANGED client
    BY <1>1, <1>2, QuietEnd
  <1>3. CASE /\ phase[s] = "write" /\ cursor' = [cursor EXCEPT ![s] = scan[s]]
             /\ offered' = Offered(s, scan[s])
    <2>1. scan[s] <= offered[s] + 1 /\ scan[s] \in Nat /\ offered[s] \in Nat
      BY <1>3, SlotsKnown DEF Fine, Offers, StreamsInv, TypesOfStreams
    <2>2. /\ offered' \in [Stream -> Nat] /\ scan[s] <= offered'[s]
          /\ \A t \in Stream : t # s => offered'[t] = offered[t]
      BY <1>3, <2>1 DEF Offered, StreamsInv, TypesOfStreams
    <2>3. /\ cursor' \in [Stream -> Nat \cup {None}] /\ cursor'[s] = scan[s]
          /\ \A t \in Stream : t # s => cursor'[t] = cursor[t]
      BY <1>3, <2>1 DEF StreamsInv, TypesOfStreams
    <2> QED
      BY <1>1, <2>2, <2>3, EndMoves
  <1> QED
    BY <1>2, <1>3 DEF Disconnect

LEMMA PlainEnds ==
  ASSUME StreamsInv, NEW s \in Stream, Abandon(s) \/ Cancelled(s)
  PROVE  StreamsInv'
  <1>1. /\ phase[s] \in {"opening", "slot", "wait"} /\ End(s, 0)
        /\ UNCHANGED <<head, client>>
    BY DEF Abandon, Cancelled, store
  <1>2. Held(s) = 0
    BY <1>1 DEF Held, Holding
  <1> QED
    BY <1>1, <1>2, QuietEnd

-----------------------------------------------------------------------------
(* The rest of the system. *)

LEMMA AppendStep ==
  ASSUME StreamsInv, TypesOfLog, NEW c \in Collection, AppendEvent(c)
  PROVE  StreamsInv'
  <1>1. /\ head' = [head EXCEPT ![c] = head[c] + 1]
        /\ unpublished' = [unpublished EXCEPT ![c] = unpublished[c] + 1]
        /\ UNCHANGED <<subs, wake, closing, stream, client>>
    BY DEF AppendEvent
  <1>2. TypesOfStreams'
    BY <1>1 DEF StreamsInv, TypesOfStreams, stream, client
  <1>3. Slots'
    BY <1>1 DEF StreamsInv, Slots, Holders, stream
  <1>4. ASSUME NEW s \in Stream
        PROVE  Fine(s)'
    <2>1. Fine(s)
      BY DEF StreamsInv
    <2>2. Offers(s)' /\ Paged(s)'
      BY <1>1, <2>1 DEF Fine, Offers, Paged, stream, client
    <2>3. Watches[s] \in Collection
      OBVIOUS
    <2>4. \/ unpublished'[Watches[s]] > 0
          \/ /\ head'[Watches[s]] = head[Watches[s]]
             /\ unpublished'[Watches[s]] = unpublished[Watches[s]]
      BY <1>1, <2>3 DEF StreamsInv, TypesOfStreams, TypesOfLog
    <2>5. Hears(s)'
      BY <1>1, <2>1, <2>4 DEF Fine, Hears, stream
    <2> QED
      BY <2>2, <2>5 DEF Fine
  <1> QED
    BY <1>2, <1>3, <1>4 DEF StreamsInv

LEMMA PublishStep ==
  ASSUME StreamsInv, NEW c \in Collection, PublishCommitted(c)
  PROVE  StreamsInv'
  <1>1. /\ unpublished[c] > 0
        /\ unpublished' = [unpublished EXCEPT ![c] = unpublished[c] - 1]
        /\ wake' = wake \cup Woken(c)
        /\ UNCHANGED <<head, subs, closing, stream, client>>
    BY DEF PublishCommitted, store
  <1>2. TypesOfStreams'
    BY <1>1 DEF StreamsInv, TypesOfStreams, stream, client, Woken
  <1>3. Slots'
    BY <1>1 DEF StreamsInv, Slots, Holders, stream
  <1>4. ASSUME NEW s \in Stream
        PROVE  Fine(s)'
    <2>1. Fine(s)
      BY DEF StreamsInv
    <2>2. Offers(s)' /\ Paged(s)'
      BY <1>1, <2>1 DEF Fine, Offers, Paged, stream, client
    <2>3. Watches[s] \in Collection
      OBVIOUS
    <2>4. \/ Watches[s] = c
          \/ unpublished'[Watches[s]] = unpublished[Watches[s]]
      BY <1>1, <2>3 DEF StreamsInv, TypesOfStreams
    <2>5. Hears(s)'
      <3>1. phase'[s] # "off" => s \in subs'
        BY <1>1, <2>1 DEF Fine, Hears, stream
      <3>2. Watches[s] = c /\ phase[s] # "off" => s \in wake'
        BY <1>1, <2>1 DEF Fine, Hears, Woken
      <3> QED
        BY <1>1, <2>1, <2>4, <3>1, <3>2 DEF Fine, Hears, stream
    <2> QED
      BY <2>2, <2>5 DEF Fine
  <1> QED
    BY <1>2, <1>3, <1>4 DEF StreamsInv

LEMMA DeleteStep ==
  ASSUME StreamsInv, TypesOfLog, NEW c \in Collection, DeleteCollection(c)
  PROVE  StreamsInv'
  <1>1. head' = [head EXCEPT ![c] = 0] /\ UNCHANGED <<registry, stream, client>>
    BY DEF DeleteCollection
  <1>2. TypesOfStreams'
    BY <1>1 DEF StreamsInv, TypesOfStreams, stream, client, registry
  <1>3. Slots'
    BY <1>1 DEF StreamsInv, Slots, Holders, stream
  <1>4. ASSUME NEW s \in Stream
        PROVE  Fine(s)'
    <2>1. Fine(s)
      BY DEF StreamsInv
    <2>2. Offers(s)' /\ Paged(s)'
      BY <1>1, <2>1 DEF Fine, Offers, Paged, stream, client
    <2>3. Watches[s] \in Collection /\ scan[s] \in Nat
      BY DEF StreamsInv, TypesOfStreams
    <2>4. head'[Watches[s]] = 0 \/ head'[Watches[s]] = head[Watches[s]]
      BY <1>1, <2>3 DEF TypesOfLog
    <2>5. scan[s] < head'[Watches[s]] => scan[s] < head[Watches[s]]
      BY <2>3, <2>4 DEF TypesOfLog
    <2>6. Hears(s)'
      BY <1>1, <2>1, <2>5 DEF Fine, Hears, stream, registry
    <2> QED
      BY <2>2, <2>6 DEF Fine
  <1> QED
    BY <1>2, <1>3, <1>4 DEF StreamsInv

LEMMA StreamsStay ==
  ASSUME StreamsInv, UNCHANGED <<head, unpublished, subs, wake, stream, client>>,
         closing' \in BOOLEAN
  PROVE  StreamsInv'
  <1>1. TypesOfStreams'
    BY DEF StreamsInv, TypesOfStreams, stream, client
  <1>2. Slots'
    BY DEF StreamsInv, Slots, Holders, stream
  <1>3. ASSUME NEW s \in Stream
        PROVE  Fine(s)'
    BY DEF StreamsInv, Fine, Offers, Paged, Hears, stream, client
  <1> QED
    BY <1>1, <1>2, <1>3 DEF StreamsInv

(* Every stream is off. *)
LEMMA AllOff ==
  ASSUME TypesOfStreams, slots = 0, \A s \in Stream : phase[s] = "off" /\ cursor[s] <= offered[s]
  PROVE  StreamsInv
  <1>1. Holders = {}
    BY DEF Holders, Holding
  <1>2. Slots
    BY <1>1, FS_EmptySet DEF Slots
  <1>3. \A s \in Stream : Fine(s)
    BY DEF Fine, Offers, Paged, Hears, Replaying
  <1> QED
    BY <1>2, <1>3 DEF StreamsInv

LEMMA RestartStep ==
  ASSUME StreamsInv, Restart
  PROVE  StreamsInv'
  <1>1. /\ slots' = 0 /\ UNCHANGED client
        /\ \A s \in Stream : phase'[s] = "off" /\ cursor'[s] <= offered'[s]
    BY DEF Restart, Reset, client, StreamsInv, Fine, Offers
  <1>2. TypesOfStreams'
    <2>1. slots' \in 0..ReplayPages
      BY <1>1
    <2>2. /\ phase' \in [Stream -> Phases] /\ page' \in [Stream -> SUBSET Nat]
          /\ scan' \in [Stream -> Nat]
      BY DEF Restart, Reset, Phases
    <2>3. /\ unpublished' \in [Collection -> Nat] /\ subs' \in SUBSET Stream
          /\ wake' \in SUBSET Stream /\ closing' \in BOOLEAN
      BY DEF Restart, Reset
    <2>4. offered' \in [Stream -> Nat] /\ cursor' \in [Stream -> Nat \cup {None}]
      BY <1>1 DEF client, StreamsInv, TypesOfStreams
    <2> QED
      BY <2>1, <2>2, <2>3, <2>4 DEF TypesOfStreams
  <1>3. Holders' = {}
    BY <1>1 DEF Holders, Holding
  <1>4. Slots'
    BY <1>1, <1>3, FS_EmptySet DEF Slots
  <1>5. \A s \in Stream : Fine(s)'
    BY <1>1 DEF Fine, Offers, Paged, Hears, Replaying
  <1> QED
    BY <1>2, <1>4, <1>5 DEF StreamsInv

LEMMA StreamsInit ==
  ASSUME Init
  PROVE  StreamsInv /\ TypesOfAccess
  <1>1. TypesOfStreams
    <2>1. slots \in 0..ReplayPages
      BY DEF Init
    <2>2. /\ phase \in [Stream -> Phases] /\ page \in [Stream -> SUBSET Nat]
          /\ scan \in [Stream -> Nat]
      BY DEF Init, Phases
    <2>3. /\ unpublished \in [Collection -> Nat] /\ subs \in SUBSET Stream
          /\ wake \in SUBSET Stream /\ closing \in BOOLEAN
      BY DEF Init
    <2>4. offered \in [Stream -> Nat] /\ cursor \in [Stream -> Nat \cup {None}]
      BY DEF Init
    <2> QED
      BY <2>1, <2>2, <2>3, <2>4 DEF TypesOfStreams
  <1>2. slots = 0 /\ \A s \in Stream : phase[s] = "off" /\ cursor[s] <= offered[s]
    BY DEF Init, None
  <1>3. TypesOfAccess
    BY DEF Init, TypesOfAccess
  <1> QED
    BY <1>1, <1>2, <1>3, AllOff

(* What the steps of streams leave alone. *)
LEMMA StepLeaves ==
  ASSUME NEW s \in Stream,
         Step(s) \/ Subscribe(s) \/ TakeSlot(s) \/ Cancelled(s) \/ Disconnect(s)
  PROVE  UNCHANGED <<store, access>>
  BY DEF Step, Subscribe, TakeSlot, Cancelled, Disconnect, Refuse, Abandon, Ready, Check,
         ReadAfter, ReturnSlot, Revalidate, WriteFrame, Wake, Heartbeat

LEMMA StreamSteps ==
  ASSUME TypesOfLog, LogInv, StreamsInv, NEW s \in Stream,
         Step(s) \/ Subscribe(s) \/ TakeSlot(s) \/ Cancelled(s) \/ Disconnect(s)
  PROVE  StreamsInv'
  BY SubscribeStep, TakeSlotStep, PlainEnds, DisconnectStep, RefuseStep, ReadyStep, CheckStep,
     ReadAfterStep, ReturnSlotStep, RevalidateStep, WriteFrameStep, WakeStep, HeartbeatStep
  DEF Step

LEMMA IInvNext ==
  ASSUME IInv, [Next]_vars
  PROVE  IInv'
  <1> USE IInvSplit, IInvSplitNext
  <1>1. ASSUME NEW c \in Collection, AppendEvent(c)
        PROVE  IInv'
    <2>1. TypesOfAccess'
      BY <1>1 DEF AppendEvent, access, TypesOfAccess
    <2> QED
      BY <1>1, <2>1, AppendKeepsLog, AppendStep
  <1>2. ASSUME NEW c \in Collection, PublishCommitted(c)
        PROVE  IInv'
    <2>1. UNCHANGED store /\ TypesOfAccess'
      BY <1>2 DEF PublishCommitted, access, TypesOfAccess
    <2> QED
      BY <1>2, <2>1, LogStays, PublishStep
  <1>3. ASSUME NEW c \in Collection, DeleteCollection(c)
        PROVE  IInv'
    <2>1. TypesOfAccess'
      BY <1>3 DEF DeleteCollection, TypesOfAccess
    <2> QED
      BY <1>3, <2>1, DeleteKeepsLog, DeleteStep
  <1>4. ASSUME \/ \E c \in Collection : ApplyListRule(c)
               \/ \E s \in Stream : Revoke(s) \/ SignIn(s)
        PROVE  IInv'
    <2>1. /\ UNCHANGED store /\ UNCHANGED <<head, unpublished, subs, wake, stream, client>>
          /\ closing' = closing
      BY <1>4 DEF ApplyListRule, Revoke, SignIn, store, registry
    <2>2. TypesOfAccess'
      BY <1>4 DEF ApplyListRule, Revoke, SignIn, TypesOfAccess
    <2>3. closing' \in BOOLEAN
      BY <2>1 DEF StreamsInv, TypesOfStreams
    <2> QED
      BY <2>1, <2>2, <2>3, LogStays, StreamsStay
  <1>5. ASSUME NEW s \in Stream,
               Step(s) \/ Subscribe(s) \/ TakeSlot(s) \/ Cancelled(s) \/ Disconnect(s)
        PROVE  IInv'
    <2>1. UNCHANGED <<store, access>>
      BY <1>5, StepLeaves
    <2>2. TypesOfAccess'
      BY <2>1 DEF TypesOfAccess, access
    <2> QED
      BY <1>5, <2>1, <2>2, LogStays, StreamSteps
  <1>6. CASE Close
    <2>1. /\ UNCHANGED store /\ UNCHANGED <<head, unpublished, subs, wake, stream, client>>
          /\ closing' \in BOOLEAN /\ TypesOfAccess'
      BY <1>6 DEF Close, store, access, TypesOfAccess
    <2> QED
      BY <2>1, LogStays, StreamsStay
  <1>7. CASE Restart
    <2>1. UNCHANGED store /\ TypesOfAccess'
      BY <1>7 DEF Restart, access, TypesOfAccess
    <2> QED
      BY <1>7, <2>1, LogStays, RestartStep
  <1>8. CASE UNCHANGED vars
    <2>1. /\ UNCHANGED store /\ UNCHANGED <<head, unpublished, subs, wake, stream, client>>
          /\ closing' = closing /\ TypesOfAccess'
      BY <1>8 DEF vars, store, registry, access, TypesOfAccess
    <2>2. closing' \in BOOLEAN
      BY <2>1 DEF StreamsInv, TypesOfStreams
    <2> QED
      BY <2>1, <2>2, LogStays, StreamsStay
  <1> QED
    BY <1>1, <1>2, <1>3, <1>4, <1>5, <1>6, <1>7, <1>8 DEF Next

THEOREM Invariance == Spec => []IInv
  <1>1. Init => IInv
    BY LogInit, StreamsInit, IInvSplit
  <1>2. IInv /\ [Next]_vars => IInv'
    BY IInvNext
  <1> QED
    BY <1>1, <1>2, PTL DEF Spec

(* Every variable keeps its type, and the replay slots never exceed their  *)
(* channel, which no stream ever overdraws.                                *)
THEOREM TypeCorrect == Spec => []TypeOK
  BY Invariance, PTL DEF IInv

(* Whatever the limits, the Collections that share them and the sizes of   *)
(* Events, what pruning leaves is the Events of each Collection between    *)
(* its watermark and its head, in commit order.                            *)
THEOREM WindowIsRetained == Spec => []RetainedWindow
  BY Invariance, PTL DEF IInv

(* However many clients and whatever the page limits, no stream scans past *)
(* an Event its client has not been offered.                               *)
THEOREM NothingIsMissed == Spec => []NothingMissed
  BY Invariance, PTL DEF IInv

(* A commit, its publication and the last empty read of a stream may fall  *)
(* in any order.                                                           *)
THEOREM WakesAreNotLost == Spec => []WakeNotLost
  <1>1. IInv => WakeNotLost
    BY DEF IInv, Streams, Hears, WakeNotLost
  <1> QED
    BY <1>1, Invariance, PTL

-----------------------------------------------------------------------------
(* Listings. *)

HIDE StreamAssumption
USE ListingsAssumption

(* The order in which a listing shows places, the values of a key and an   *)
(* ID, given the directions d: sort is one of Orders.                      *)
Orders == [key: Direction \cup {"none"}, id: Direction]

Order(d, p, q) ==
  \/ d.key # "none" /\ Precedes(p.key, q.key, d.key)
  \/ (d.key = "none" \/ p.key = q.key) /\ Precedes(p.id, q.id, d.id)

Behind(d, p, c) == c = Start \/ Order(d, c, p)

Chain(d, S) ==
  /\ S \subseteq Place /\ IsFiniteSet(S)
  /\ \A p, q \in S : p = q \/ Order(d, p, q) \/ Order(d, q, p)

(* Rows whose history is simple: those that nobody wrote, and in the       *)
(* listings from the newest on all that a redrive has not moved back.      *)
Tame(i) == \/ i \notin changed \/ listing = "deliveries"
           \/ listing = "activity" /\ i \notin redriven

(* The history knows what the key of a cursor is.                          *)
Ended(c) == c # Start => (IF c.key = Null THEN "empty" ELSE "value") \in ended
Noted    == Ended(nextCursor) /\ Ended(raw)

(* What the client has got is not behind its cursor.                       *)
ListedRows ==
  \A i \in Id : Tame(i) =>
    /\ listed[i] <= 1
    /\ listed[i] = 1 /\ at # "done" =>
         /\ nextCursor # Start
         /\ i \in Present => ~Order(sort, nextCursor, Position(i))
         /\ i \notin Present => i \in changed

(* Steady rows that are not behind the cursor have been listed, but for    *)
(* those that the cursors pass over.                                       *)
SteadyRows ==
  /\ steady \subseteq Wanted \ changed
  /\ \A i \in steady :
       at = "done" \/ ~Behind(sort, Position(i), nextCursor)
         => listed[i] = 1 \/ PassedOver(i)

(* What ListApplication has collected lies between the two cursors, and    *)
(* every steady Record there has been collected.                           *)
Collected ==
  at = "request" =>
    /\ listing = "application"
    /\ \A p \in Place : Behind(sort, p, raw) => Behind(sort, p, nextCursor)
    /\ \A p \in visible :
         /\ Behind(sort, p, nextCursor) /\ ~Behind(sort, p, raw)
         /\ p.id \notin changed => p.id \in Present /\ p = Position(p.id)
    /\ \A i \in steady :
         Behind(sort, Position(i), nextCursor) /\ ~Behind(sort, Position(i), raw)
           => Position(i) \in visible \/ PassedOver(i)

ListIInv == ListTypeOK /\ ListedRows /\ SteadyRows /\ Collected /\ Noted

LEMMA PlaceParts ==
  \A p \in Place : p.key \in Nat /\ p.id \in Nat /\ p.id \in Id /\ p # Start
  <1> SUFFICES ASSUME NEW p \in Place
               PROVE  p.key \in Nat /\ p.id \in Nat /\ p.id \in Id /\ p # Start
    OBVIOUS
  <1>1. p.key \in Keys /\ p.id \in Id
    BY DEF Place
  <1>2. p.id \in Nat /\ p.id # 0
    BY <1>1
  <1>3. p.key \in Value \/ p.key = 0
    BY <1>1, Zenon DEF Keys, Null
  <1>4. \A v \in Value : v \in Nat
    OBVIOUS
  <1>5. Start.id = 0
    BY DEF Start
  <1>6. 0 \in Nat
    OBVIOUS
  <1>7. p.key \in Nat
    BY <1>3, <1>4, <1>6, Zenon
  <1> QED
    BY <1>1, <1>2, <1>5, <1>7

LEMMA OrderLaws ==
  ASSUME NEW d \in Orders, NEW p \in Place, NEW q \in Place
  PROVE  /\ ~Order(d, p, p)
         /\ ~(Order(d, p, q) /\ Order(d, q, p))
         /\ \A r \in Place : Order(d, p, q) /\ Order(d, q, r) => Order(d, p, r)
  <1>1. d.key \in {"asc", "desc", "none"} /\ d.id \in {"asc", "desc"}
    BY DEF Orders, Direction
  <1> QED
    BY <1>1, PlaceParts DEF Order, Precedes

LEMMA OrderTotal ==
  ASSUME NEW d \in Orders, NEW p \in Place, NEW q \in Place,
         p.id # q.id \/ (d.key # "none" /\ p # q)
  PROVE  Order(d, p, q) \/ Order(d, q, p)
  <1>1. d.key \in {"asc", "desc", "none"} /\ d.id \in {"asc", "desc"}
    BY DEF Orders, Direction
  <1>2. p.id # q.id \/ p.key # q.key
    BY DEF Place
  <1> QED
    BY <1>1, <1>2, PlaceParts DEF Order, Precedes

\* What the SQL of a page finds is behind the cursor in the order of the
\* listing; what is behind and is not found has an empty Field where the cursor
\* has a value, or a value where the cursor has an empty Field.
LEMMA AfterIsBehind ==
  ASSUME listing \in Listing, sort \in Sorts,
         NEW p \in Place, NEW c \in Place \cup {Start}
  PROVE  /\ AfterCursor(p, c) => Behind(sort, p, c)
         /\ Behind(sort, p, c) /\ ~AfterCursor(p, c) =>
              /\ OfRecords /\ c # Start
              /\ \/ sort.key = "asc" /\ p.key # Null /\ c.key = Null
                 \/ sort.key = "desc" /\ p.key = Null /\ c.key # Null
  <1>1. CASE c = Start
    BY <1>1 DEF AfterCursor, Behind
  <1>2. CASE c # Start
    <2>1. c \in Place
      BY <1>2
    <2> QED
      BY <1>2, <2>1, PlaceParts DEF AfterCursor, AfterRecord, AfterRequest, AfterEntry,
         Behind, Order, Precedes, Sorts, OfRecords, Listing, Direction, Null
  <1> QED
    BY <1>1, <1>2

LEMMA SortsAreOrders ==
  ASSUME listing \in Listing, sort \in Sorts
  PROVE  /\ sort \in Orders
         /\ sort.key = "none" <=> listing = "deliveries"
  BY DEF Sorts, Orders, OfRecords, Listing, Direction

-----------------------------------------------------------------------------
(* The first and the last of finitely many places. *)

LEMMA OneLast ==
  ASSUME NEW d \in Orders, NEW S, Chain(d, S), S # {}
  PROVE  /\ \E p \in S : \A q \in S : ~Order(d, q, p)
         /\ \E p \in S : \A q \in S : ~Order(d, p, q)
  <1> DEFINE B(p) == {q \in S : Order(d, q, p)}
             T    == {Cardinality(B(p)) : p \in S}
  <1>1. \A p \in S : IsFiniteSet(B(p)) /\ Cardinality(B(p)) \in Nat
                     /\ Cardinality(B(p)) <= Cardinality(S)
    BY FS_Subset, FS_CardinalityType DEF Chain
  <1>2. Cardinality(S) \in Nat
    BY FS_CardinalityType DEF Chain
  <1>3. \A p, q \in S : Order(d, q, p) => Cardinality(B(q)) < Cardinality(B(p))
    <2> SUFFICES ASSUME NEW p \in S, NEW q \in S, Order(d, q, p)
                 PROVE  Cardinality(B(q)) < Cardinality(B(p))
      OBVIOUS
    <2>1. B(q) \subseteq B(p) /\ q \in B(p) /\ q \notin B(q)
      BY OrderLaws DEF Chain
    <2>2. Cardinality(B(q)) <= Cardinality(B(p))
          /\ (Cardinality(B(q)) = Cardinality(B(p)) => B(q) = B(p))
      BY <2>1, <1>1, FS_Subset
    <2> QED
      BY <2>1, <2>2, <1>1
  <1>4. T \in SUBSET Nat /\ T # {} /\ \A x \in T : x <= Cardinality(S)
    BY <1>1
  <1>5. PICK m \in T : \A y \in T : m <= y
    <2> HIDE DEF T
    <2> QED
      BY <1>4, Least
  <1>6. PICK n \in T : \A y \in T : y <= n
    <2> HIDE DEF T
    <2> QED
      BY <1>4, <1>2, Greatest
  <1>7. PICK p \in S : m = Cardinality(B(p))
    BY <1>5
  <1>8. PICK q \in S : n = Cardinality(B(q))
    BY <1>6
  <1>9. \A r \in S : Cardinality(B(p)) <= Cardinality(B(r))
                     /\ Cardinality(B(r)) <= Cardinality(B(q))
    BY <1>5, <1>6, <1>7, <1>8
  <1> HIDE DEF B, T
  <1>10. \A r \in S : ~Order(d, r, p) /\ ~Order(d, q, r)
    BY <1>1, <1>3, <1>9
  <1> QED
    BY <1>10

LEMMA PartOfChain ==
  ASSUME NEW d, NEW S, Chain(d, S), NEW T \in SUBSET S
  PROVE  Chain(d, T)
  BY FS_Subset DEF Chain

\* A page is the first rows of what there is: the cursor is its last row,
\* and what it leaves out is behind the cursor.
LEMMA FirstRows ==
  ASSUME sort \in Orders, NEW S, Chain(sort, S), NEW n \in Nat \ {0}
  PROVE  /\ FirstOf(S, n) \subseteq S
         /\ Cardinality(S) <= n => FirstOf(S, n) = S
         /\ Cardinality(S) > n =>
              /\ LastOf(FirstOf(S, n)) \in FirstOf(S, n)
              /\ \A p \in FirstOf(S, n) : ~Order(sort, LastOf(FirstOf(S, n)), p)
              /\ \A p \in S \ FirstOf(S, n), q \in FirstOf(S, n) : Order(sort, q, p)
  <1> DEFINE B(p) == {q \in S : Order(sort, q, p)}
             F    == {p \in S : Cardinality(B(p)) < n}
  <1>1. FirstOf(S, n) = F
    BY DEF FirstOf, Before, Order
  <1>2. \A p \in S : IsFiniteSet(B(p)) /\ Cardinality(B(p)) \in Nat
    BY FS_Subset, FS_CardinalityType DEF Chain
  <1>3. ASSUME Cardinality(S) <= n, NEW p \in S
        PROVE  Cardinality(B(p)) < n
    <2>1. B(p) \subseteq S /\ p \notin B(p)
      BY OrderLaws DEF Chain
    <2>2. Cardinality(B(p)) <= Cardinality(S) /\ (Cardinality(B(p)) = Cardinality(S) => B(p) = S)
      BY <2>1, FS_Subset DEF Chain
    <2>3. Cardinality(S) \in Nat
      BY FS_CardinalityType DEF Chain
    <2> QED
      BY <1>3, <2>1, <2>2, <2>3, <1>2
  <1>4. ASSUME Cardinality(S) > n
        PROVE  F # {}
    <2>1. S # {}
      BY <1>4, FS_EmptySet
    <2>2. PICK p \in S : \A q \in S : ~Order(sort, q, p)
      BY <2>1, OneLast
    <2>3. B(p) = {}
      BY <2>2
    <2>4. Cardinality(B(p)) = 0
      BY <2>3, FS_EmptySet
    <2> QED
      BY <2>4
  <1>5. ASSUME Cardinality(S) > n
        PROVE  LastOf(F) \in F /\ \A p \in F : ~Order(sort, LastOf(F), p)
    <2>1. Chain(sort, F)
      <3>1. F \in SUBSET S
        OBVIOUS
      <3> HIDE DEF F
      <3> QED
        BY <3>1, PartOfChain
    <2>2. \E p \in F : \A q \in F : ~Order(sort, p, q)
      <3> HIDE DEF F
      <3> QED
        BY <2>1, <1>4, <1>5, OneLast
    <2>3. LastOf(F) = CHOOSE p \in F : \A q \in F : ~Order(sort, p, q)
      BY DEF LastOf, Before, Order
    <2> HIDE DEF F
    <2> QED
      BY <2>2, <2>3
  <1>6. ASSUME NEW p \in S \ F, NEW q \in F
        PROVE  Order(sort, q, p)
    <2>1. p # q /\ p \in S /\ q \in S
      OBVIOUS
    <2>2. ASSUME Order(sort, p, q)
          PROVE  FALSE
      <3>1. B(p) \subseteq B(q)
        BY <2>1, <2>2, OrderLaws DEF Chain
      <3>2. Cardinality(B(p)) <= Cardinality(B(q))
        BY <3>1, <2>1, <1>2, FS_Subset
      <3> QED
        BY <3>2, <2>1, <1>2
    <2> QED
      BY <2>1, <2>2 DEF Chain
  <1>7. F \subseteq S /\ (Cardinality(S) <= n => F = S)
    BY <1>3
  <1> HIDE DEF B, F
  <1> QED
    BY <1>1, <1>5, <1>6, <1>7

-----------------------------------------------------------------------------
(* What a listing finds. *)

LEMMA Known ==
  ASSUME ListTypeOK
  PROVE  /\ Present \subseteq Id /\ Candidates \subseteq Present /\ Wanted \subseteq Candidates
         /\ \A i \in Present : Position(i) \in Place /\ Position(i).id = i
         /\ sort \in Orders /\ (sort.key = "none" <=> listing = "deliveries")
  <1>1. Present \subseteq Id /\ Candidates \subseteq Present /\ Wanted \subseteq Candidates
    BY DEF Present, Candidates, Wanted, Newest
  <1>2. \A i \in Present : Position(i) \in Place /\ Position(i).id = i
    BY DEF Present, Position, Place, Row, ListTypeOK
  <1>3. sort \in Orders /\ (sort.key = "none" <=> listing = "deliveries")
    BY SortsAreOrders DEF ListTypeOK
  <1> QED
    BY <1>1, <1>2, <1>3

LEMMA Found ==
  ASSUME ListTypeOK, NEW c \in Place \cup {Start}, Ended(c)
  PROVE  /\ Chain(sort, Matching(c))
         /\ \A p \in Matching(c) :
              p.id \in Candidates /\ p = Position(p.id) /\ Behind(sort, p, c)
         /\ \A i \in Candidates : Behind(sort, Position(i), c) =>
              Position(i) \in Matching(c) \/ PassedOver(i)
  <1>1. ASSUME NEW p \in Matching(c)
        PROVE  p \in Place /\ p.id \in Candidates /\ p = Position(p.id) /\ Behind(sort, p, c)
    <2>1. PICK i \in Candidates : p = Position(i)
      BY DEF Matching
    <2>2. p \in Place /\ p.id = i
      BY <2>1, Known
    <2>3. AfterCursor(p, c)
      BY DEF Matching
    <2> QED
      BY <2>1, <2>2, <2>3, AfterIsBehind DEF ListTypeOK
  <1>2. ASSUME NEW i \in Candidates, Behind(sort, Position(i), c)
        PROVE  Position(i) \in Matching(c) \/ PassedOver(i)
    <2>1. Position(i) \in Place
      BY Known
    <2>2. CASE AfterCursor(Position(i), c)
      BY <2>2 DEF Matching
    <2>3. CASE ~AfterCursor(Position(i), c)
      <3>1. /\ OfRecords /\ c # Start
            /\ \/ sort.key = "asc" /\ Position(i).key # Null /\ c.key = Null
               \/ sort.key = "desc" /\ Position(i).key = Null /\ c.key # Null
        BY <1>2, <2>1, <2>3, AfterIsBehind DEF ListTypeOK
      <3>2. Position(i).key = rows[i].key
        BY DEF Position
      <3>3. (IF c.key = Null THEN "empty" ELSE "value") \in ended
        BY <3>1 DEF Ended
      <3> QED
        BY <3>1, <3>2, <3>3 DEF PassedOver
    <2> QED
      BY <2>2, <2>3
  <1>3. IsFiniteSet(Matching(c))
    <2>1. IsFiniteSet(Candidates)
      BY Known, FS_Subset
    <2> DEFINE f == [i \in Candidates |-> Position(i)]
    <2>2. IsFiniteSet({f[i] : i \in Candidates})
      <3>1. f \in Surjection(Candidates, {f[i] : i \in Candidates})
        BY DEF Surjection
      <3> HIDE DEF f
      <3> QED
        BY <2>1, <3>1, FS_Surjection
    <2>3. Matching(c) \subseteq {f[i] : i \in Candidates}
      BY DEF Matching
    <2> QED
      BY <2>2, <2>3, FS_Subset
  <1>4. ASSUME NEW p \in Matching(c), NEW q \in Matching(c), p # q
        PROVE  Order(sort, p, q) \/ Order(sort, q, p)
    <2>1. p.id # q.id /\ p \in Place /\ q \in Place
      BY <1>1, <1>4
    <2> QED
      BY <2>1, Known, OrderTotal
  <1> QED
    BY <1>1, <1>2, <1>3, <1>4 DEF Chain

\* How often a page has a row of which it has at most one place.
LEMMA OnPage ==
  ASSUME NEW S, IsFiniteSet(S), NEW i
  PROVE  /\ Cardinality({p \in S : p.id = i}) \in Nat
         /\ (\A p \in S : p.id # i) => Cardinality({p \in S : p.id = i}) = 0
         /\ \A x \in S : x.id = i /\ (\A p \in S : p.id = i => p = x)
               => Cardinality({p \in S : p.id = i}) = 1
  <1> DEFINE C == {p \in S : p.id = i}
  <1>1. Cardinality(C) \in Nat
    BY FS_Subset, FS_CardinalityType
  <1>2. ASSUME \A p \in S : p.id # i
        PROVE  Cardinality(C) = 0
    <2>1. C = {}
      BY <1>2
    <2> QED
      BY <2>1, FS_EmptySet
  <1>3. ASSUME NEW x \in S, x.id = i, \A p \in S : p.id = i => p = x
        PROVE  Cardinality(C) = 1
    <2>1. C = {x}
      BY <1>3
    <2> QED
      BY <2>1, FS_Singleton
  <1> QED
    BY <1>1, <1>2, <1>3

LEMMA SameTable ==
  ASSUME UNCHANGED <<query, table>>
  PROVE  /\ Present' = Present /\ Wanted' = Wanted
         /\ \A i : Position(i)' = Position(i) /\ Tame(i)' = Tame(i)
         /\ sort' = sort /\ listing' = listing /\ steady' = steady /\ changed' = changed
  BY DEF query, table, Present, Wanted, Candidates, Newest, Passes, Position, Tame

\* The history of the cursors only grows, and takes in what a page ends at.
LEMMA Growing ==
  ASSUME ListTypeOK, UNCHANGED <<query, table>>, ended \subseteq ended'
  PROVE  /\ \A i : PassedOver(i) => PassedOver(i)'
         /\ \A c : Ended(c) => (c # Start =>
                      (IF c.key = Null THEN "empty" ELSE "value") \in ended')
  BY DEF query, table, PassedOver, OfRecords, Ended

LEMMA EndsAt ==
  ASSUME ListTypeOK, NEW c, Ends(c)
  PROVE  /\ ended \subseteq ended' /\ ended' \in SUBSET {"empty", "value"}
         /\ (IF c.key = Null THEN "empty" ELSE "value") \in ended'
  <1>1. ended' = ended \cup {IF c.key = Null THEN "empty" ELSE "value"}
    BY DEF Ends
  <1>2. ended \in SUBSET {"empty", "value"}
    BY DEF ListTypeOK
  <1> QED
    BY <1>1, <1>2

LEMMA SameTypes ==
  ASSUME ListTypeOK, UNCHANGED <<query, table>>, listed' \in [Id -> Nat],
         at' \in {"client", "request", "done"}, nextCursor' \in Place \cup {Start},
         raw' \in Place \cup {Start}, visible' \in SUBSET Place, IsFiniteSet(visible'),
         ended' \in SUBSET {"empty", "value"}
  PROVE  ListTypeOK'
  <1>1. Sorts' = Sorts /\ Filters' = Filters
    BY DEF query, Sorts, Filters, OfRecords
  <1> QED
    BY <1>1 DEF ListTypeOK, query, table

-----------------------------------------------------------------------------
(* A page that has what is behind the cursor up to where the next starts.  *)

Pageable(S) ==
  /\ Chain(sort, S)
  /\ \A p \in S : /\ Behind(sort, p, nextCursor)
                  /\ Tame(p.id) => p.id \in Present /\ p = Position(p.id)
  /\ \A i \in steady : Behind(sort, Position(i), nextCursor) =>
       \/ Position(i) \in S \/ PassedOver(i)
       \/ Cardinality(S) > Limit /\ \A p \in S : Order(sort, p, Position(i))

\* A row is given at most once.
LEMMA Gives ==
  ASSUME ListIInv, at # "done", NEW S, Pageable(S), NEW P \in SUBSET S, Given(P)
  PROVE  /\ listed' \in [Id -> Nat]
         /\ \A i \in Id : Tame(i) =>
              /\ listed'[i] \in {0, 1}
              /\ listed'[i] = 1 <=> listed[i] = 1 \/ (i \in Present /\ Position(i) \in P)
  <1>1. P \subseteq Place /\ IsFiniteSet(P)
    BY FS_Subset DEF Pageable, Chain
  <1> DEFINE N(i) == Cardinality({p \in P : p.id = i})
  <1>2. \A i :
              /\ N(i) \in Nat
              /\ (\A p \in P : p.id # i) => N(i) = 0
              /\ \A x \in P : x.id = i /\ (\A p \in P : p.id = i => p = x) => N(i) = 1
    <2> TAKE i
    <2> QED
      BY <1>1, OnPage
  <1>3. listed' = [i \in Id |-> listed[i] + N(i)]
    BY DEF Given
  <1> HIDE DEF N
  <1>4. ASSUME NEW i \in Id, Tame(i)
        PROVE  /\ i \in Present /\ Position(i) \in P => N(i) = 1 /\ listed[i] # 1
               /\ ~(i \in Present /\ Position(i) \in P) => N(i) = 0
    <2>1. \A p \in P : p.id = i => i \in Present /\ p = Position(i)
      BY <1>4 DEF Pageable
    <2>2. ASSUME i \in Present, Position(i) \in P
          PROVE  N(i) = 1
      <3>1. Position(i).id = i
        BY <2>2, Known DEF ListIInv
      <3> QED
        BY <2>1, <2>2, <3>1, <1>2
    <2>3. ASSUME i \in Present, Position(i) \in P
          PROVE  listed[i] # 1
      BY <2>3, <1>4 DEF ListIInv, ListedRows, Pageable, Behind
    <2>4. ASSUME ~(i \in Present /\ Position(i) \in P)
          PROVE  N(i) = 0
      <3>1. \A p \in P : p.id # i
        BY <2>1, <2>4
      <3> QED
        BY <3>1, <1>2
    <2> QED
      BY <2>2, <2>3, <2>4
  <1>5. listed \in [Id -> Nat] /\ \A i \in Id : Tame(i) => listed[i] <= 1
    BY DEF ListIInv, ListTypeOK, ListedRows
  <1> QED
    BY <1>2, <1>3, <1>4, <1>5

LEMMA LastPage ==
  ASSUME ListIInv, at # "done", NEW S, Pageable(S), Cardinality(S) <= Limit,
         Given(S), at' = "done", UNCHANGED <<query, table, ended>>
  PROVE  ListedRows' /\ SteadyRows' /\ Collected' /\ listed' \in [Id -> Nat]
  <1>1. /\ listed' \in [Id -> Nat]
        /\ \A i \in Id : Tame(i) =>
             /\ listed'[i] \in {0, 1}
             /\ listed'[i] = 1 <=> listed[i] = 1 \/ (i \in Present /\ Position(i) \in S)
    BY Gives
  <1>2. ListedRows'
    BY <1>1, SameTable DEF ListedRows
  <1>3. ASSUME NEW i \in steady
        PROVE  listed'[i] = 1 \/ PassedOver(i)
    <2>1. i \in Present /\ i \in Id /\ Tame(i)
      BY Known DEF ListIInv, SteadyRows, Tame
    <2>2. ~Behind(sort, Position(i), nextCursor) => listed[i] = 1 \/ PassedOver(i)
      BY DEF ListIInv, SteadyRows
    <2>3. Behind(sort, Position(i), nextCursor) => Position(i) \in S \/ PassedOver(i)
      <3>1. ~(Cardinality(S) > Limit)
        BY FS_CardinalityType DEF Pageable, Chain
      <3> QED
        BY <3>1 DEF Pageable
    <2> QED
      BY <1>1, <2>1, <2>2, <2>3
  <1>4. SteadyRows'
    BY <1>3, SameTable, Growing DEF SteadyRows, ListIInv
  <1> QED
    BY <1>1, <1>2, <1>4 DEF Collected

LEMMA OnePage ==
  ASSUME ListIInv, at # "done", NEW S, Pageable(S), Cardinality(S) > Limit,
         Given(FirstOf(S, Limit)), nextCursor' = LastOf(FirstOf(S, Limit)),
         Ends(nextCursor'), at' = "client", UNCHANGED <<query, table>>
  PROVE  /\ ListedRows' /\ SteadyRows' /\ Collected'
         /\ listed' \in [Id -> Nat] /\ nextCursor' \in Place
  <1> DEFINE P == FirstOf(S, Limit)
             L == nextCursor'
  <1>1. sort \in Orders /\ Chain(sort, S) /\ Limit \in Nat \ {0}
    BY Known DEF ListIInv, Pageable
  <1>2. /\ P \in SUBSET S /\ L \in P
        /\ \A p \in P : ~Order(sort, L, p)
        /\ \A p \in S \ P : Order(sort, L, p)
    BY <1>1, FirstRows
  <1>3. L \in S /\ L \in Place /\ L # Start /\ S \subseteq Place
    BY <1>1, <1>2, PlaceParts DEF Chain
  <1>4. Given(P)
    OBVIOUS
  <1> HIDE DEF P
  <1>5. /\ listed' \in [Id -> Nat]
        /\ \A i \in Id : Tame(i) =>
             /\ listed'[i] \in {0, 1}
             /\ listed'[i] = 1 <=> listed[i] = 1 \/ (i \in Present /\ Position(i) \in P)
    BY <1>2, <1>4, Gives
  <1>6. ASSUME NEW i \in Id, Tame(i), listed'[i] = 1
        PROVE  /\ i \in Present => ~Order(sort, L, Position(i))
               /\ i \notin Present => i \in changed
    <2>1. CASE i \in Present /\ Position(i) \in P
      BY <1>2, <2>1
    <2>2. CASE ~(i \in Present /\ Position(i) \in P)
      <3>1. listed[i] = 1
        BY <1>5, <1>6, <2>2
      <3>2. /\ nextCursor # Start
            /\ i \in Present => ~Order(sort, nextCursor, Position(i))
            /\ i \notin Present => i \in changed
        BY <1>6, <3>1 DEF ListIInv, ListedRows
      <3>3. Order(sort, nextCursor, L) /\ nextCursor \in Place
        BY <1>3, <3>2 DEF Pageable, Behind, ListIInv, ListTypeOK
      <3>4. i \in Present => Position(i) \in Place
        BY Known DEF ListIInv
      <3> QED
        BY <1>1, <1>3, <3>2, <3>3, <3>4, OrderLaws
    <2> QED
      BY <2>1, <2>2
  <1>7. ListedRows'
    BY <1>3, <1>5, <1>6, SameTable DEF ListedRows
  <1>8. ASSUME NEW i \in steady, ~Behind(sort, Position(i), L)
        PROVE  listed'[i] = 1 \/ PassedOver(i)
    <2>1. i \in Present /\ i \in Id /\ Tame(i) /\ Position(i) \in Place
      BY Known DEF ListIInv, SteadyRows, Tame
    <2>2. ~Behind(sort, Position(i), nextCursor) => listed[i] = 1 \/ PassedOver(i)
      BY DEF ListIInv, SteadyRows
    <2>3. Behind(sort, Position(i), nextCursor) => Position(i) \in P \/ PassedOver(i)
      <3>1. ~Order(sort, L, Position(i))
        BY <1>8 DEF Behind
      <3> QED
        BY <1>2, <1>3, <3>1 DEF Pageable
    <2> QED
      BY <1>5, <2>1, <2>2, <2>3
  <1>9. SteadyRows'
    BY <1>8, SameTable, Growing, EndsAt DEF SteadyRows, ListIInv
  <1> QED
    BY <1>3, <1>5, <1>7, <1>9 DEF Collected

-----------------------------------------------------------------------------
(* The steps. *)

LEMMA NextPageKeeps ==
  ASSUME ListIInv, NextPage, listing # "application"
  PROVE  ListIInv'
  <1> DEFINE S == Matching(nextCursor)
  <1>1. nextCursor \in Place \cup {Start} /\ at = "client" /\ UNCHANGED <<query, table, raw, visible>>
    BY DEF ListIInv, ListTypeOK, NextPage
  <1>5. raw' \in Place \cup {Start} /\ visible' \in SUBSET Place /\ IsFiniteSet(visible')
    BY <1>1 DEF ListIInv, ListTypeOK
  <1>2. Pageable(S)
    <2>1. /\ Chain(sort, S)
          /\ \A p \in S :
               p.id \in Candidates /\ p = Position(p.id) /\ Behind(sort, p, nextCursor)
          /\ \A i \in Candidates : Behind(sort, Position(i), nextCursor) =>
               Position(i) \in S \/ PassedOver(i)
      BY <1>1, Found DEF ListIInv, Noted
    <2>2. Candidates \subseteq Present /\ steady \subseteq Candidates
      BY Known DEF ListIInv, SteadyRows
    <2> HIDE DEF S
    <2> QED
      BY <2>1, <2>2 DEF Pageable
  <1>3. CASE Cardinality(S) > Limit
    <2>1. /\ Given(FirstOf(S, Limit)) /\ nextCursor' = LastOf(FirstOf(S, Limit))
          /\ at' = "client" /\ Ends(nextCursor')
      BY <1>1, <1>3 DEF NextPage
    <2> HIDE DEF S
    <2>2. /\ ListedRows' /\ SteadyRows' /\ Collected'
          /\ listed' \in [Id -> Nat] /\ nextCursor' \in Place
      BY <1>1, <1>2, <1>3, <2>1, OnePage
    <2>4. /\ ended \subseteq ended' /\ ended' \in SUBSET {"empty", "value"}
          /\ (IF nextCursor'.key = Null THEN "empty" ELSE "value") \in ended'
      BY <2>1, EndsAt DEF ListIInv
    <2>3. ListTypeOK'
      BY <1>1, <1>5, <2>1, <2>2, <2>4, SameTypes DEF ListIInv
    <2>5. Noted'
      BY <1>1, <2>4, Growing DEF ListIInv, Noted, Ended
    <2> QED
      BY <2>2, <2>3, <2>5 DEF ListIInv
  <1>4. CASE ~(Cardinality(S) > Limit)
    <2>1. /\ Given(FirstOf(S, Limit)) /\ nextCursor' = nextCursor /\ at' = "done"
          /\ ended' = ended
      BY <1>4 DEF NextPage
    <2> HIDE DEF S
    <2>2. Cardinality(S) <= Limit /\ Limit \in Nat \ {0}
      BY <1>2, <1>4, FS_CardinalityType DEF Pageable, Chain
    <2>3. FirstOf(S, Limit) = S
      BY <1>2, <2>2, Known, FirstRows DEF Pageable, ListIInv
    <2>4. Given(S)
      BY <2>1, <2>3
    <2>5. ListedRows' /\ SteadyRows' /\ Collected' /\ listed' \in [Id -> Nat]
      BY <1>1, <1>2, <2>1, <2>2, <2>4, LastPage
    <2>6. ListTypeOK'
      BY <1>1, <1>5, <2>1, <2>5, SameTypes DEF ListIInv, ListTypeOK
    <2>7. Noted'
      BY <1>1, <2>1 DEF ListIInv, Noted, Ended
    <2> QED
      BY <2>5, <2>6, <2>7 DEF ListIInv
  <1> QED
    BY <1>3, <1>4

\* What ListApplication has when it has read on, in the order of the listing.
LEMMA Reads ==
  ASSUME ListIInv, at = "request",
         NEW here, here = Matching(raw), NEW chunk, chunk = FirstOf(here, RawLimit),
         NEW found, found = visible \cup {p \in chunk : rows[p.id].allowed}
  PROVE  /\ Chain(sort, found) /\ chunk \subseteq Place
         /\ Cardinality(here) > RawLimit =>
              /\ LastOf(chunk) \in chunk /\ Behind(sort, LastOf(chunk), raw)
              /\ \A p \in chunk : ~Order(sort, LastOf(chunk), p)
         /\ \A p \in found :
              /\ Behind(sort, p, nextCursor)
              /\ p \in chunk \/ (p \in visible /\ raw # Start /\ ~Order(sort, raw, p))
              /\ p.id \notin changed => p.id \in Present /\ p = Position(p.id)
         /\ \A i \in steady : Behind(sort, Position(i), nextCursor) =>
              \/ Position(i) \in found \/ PassedOver(i)
              \/ /\ Cardinality(here) > RawLimit
                 /\ \A p \in found \cup chunk : Order(sort, p, Position(i))
  <1>1. /\ raw \in Place \cup {Start} /\ visible \in SUBSET Place /\ IsFiniteSet(visible)
        /\ RawLimit \in Nat \ {0} /\ sort \in Orders
    BY Known DEF ListIInv, ListTypeOK
  <1>2. /\ listing = "application"
        /\ \A p \in Place : Behind(sort, p, raw) => Behind(sort, p, nextCursor)
        /\ \A p \in visible :
             /\ Behind(sort, p, nextCursor) /\ ~Behind(sort, p, raw)
             /\ p.id \notin changed => p.id \in Present /\ p = Position(p.id)
        /\ \A i \in steady :
             Behind(sort, Position(i), nextCursor) /\ ~Behind(sort, Position(i), raw)
               => Position(i) \in visible \/ PassedOver(i)
    BY DEF ListIInv, Collected
  <1>3. /\ Chain(sort, here)
        /\ \A p \in here :
             p.id \in Candidates /\ p = Position(p.id) /\ Behind(sort, p, raw)
        /\ \A i \in Candidates :
             Behind(sort, Position(i), raw) => Position(i) \in here \/ PassedOver(i)
    BY <1>1, Found DEF ListIInv, Noted
  <1>4. /\ chunk \subseteq here
        /\ Cardinality(here) <= RawLimit => chunk = here
        /\ Cardinality(here) > RawLimit =>
             /\ LastOf(chunk) \in chunk
             /\ \A p \in chunk : ~Order(sort, LastOf(chunk), p)
             /\ \A p \in here \ chunk, q \in chunk : Order(sort, q, p)
    BY <1>1, <1>3, FirstRows
  <1>5. chunk \subseteq Place /\ IsFiniteSet(chunk)
    BY <1>3, <1>4, FS_Subset DEF Chain
  <1>6. Chain(sort, found)
    <2>1. found \subseteq Place
      BY <1>1, <1>5
    <2>2. IsFiniteSet(found)
      <3>1. IsFiniteSet({p \in chunk : rows[p.id].allowed})
        BY <1>5, FS_Subset
      <3> QED
        BY <1>1, <3>1, FS_Union
    <2>3. sort.key # "none"
      BY <1>2, Known DEF ListIInv
    <2> QED
      BY <1>1, <2>1, <2>2, <2>3, OrderTotal DEF Chain
  <1>7. ASSUME NEW p \in found
        PROVE  /\ Behind(sort, p, nextCursor)
               /\ p \in chunk \/ (p \in visible /\ raw # Start /\ ~Order(sort, raw, p))
               /\ p.id \notin changed => p.id \in Present /\ p = Position(p.id)
    <2>1. CASE p \in visible
      BY <1>2, <2>1 DEF Behind
    <2>2. CASE p \in chunk
      <3>1. p \in here /\ p \in Place
        BY <1>4, <1>5, <2>2
      <3> QED
        BY <1>2, <1>3, <2>2, <3>1, Known DEF ListIInv
    <2> QED
      BY <2>1, <2>2
  <1>8. ASSUME NEW i \in steady, Behind(sort, Position(i), nextCursor),
               Position(i) \notin found, ~PassedOver(i)
        PROVE  /\ Cardinality(here) > RawLimit
               /\ \A p \in found \cup chunk : Order(sort, p, Position(i))
    <2>1. /\ i \in Candidates /\ rows[i].allowed
          /\ Position(i) \in Place /\ Position(i).id = i
      BY <1>2, Known DEF ListIInv, SteadyRows, Wanted
    <2>2. Behind(sort, Position(i), raw)
      BY <1>2, <1>8
    <2>3. Position(i) \in here /\ Position(i) \notin chunk
      BY <1>3, <1>8, <2>1, <2>2
    <2>4. Cardinality(here) > RawLimit
      <3>1. ~(Cardinality(here) <= RawLimit)
        BY <1>4, <2>3
      <3>2. Cardinality(here) \in Nat
        BY <1>3, FS_CardinalityType DEF Chain
      <3> QED
        BY <1>1, <3>1, <3>2
    <2>5. \A p \in chunk : Order(sort, p, Position(i))
      BY <1>4, <2>3, <2>4
    <2>6. ASSUME NEW p \in visible
          PROVE  Order(sort, p, Position(i))
      <3>1. raw \in Place /\ p \in Place /\ ~Order(sort, raw, p) /\ Order(sort, raw, Position(i))
        BY <1>1, <1>2, <2>2 DEF Behind
      <3>2. p = raw \/ Order(sort, p, raw)
        BY <1>1, <1>2, <3>1, Known, OrderTotal DEF ListIInv
      <3> QED
        BY <1>1, <2>1, <3>1, <3>2, OrderLaws
    <2> QED
      BY <2>4, <2>5, <2>6
  <1> QED
    BY <1>3, <1>4, <1>5, <1>6, <1>7, <1>8

LEMMA ReadOnKeeps ==
  ASSUME ListIInv, ReadOn
  PROVE  ListIInv'
  <1> DEFINE here  == Matching(raw)
             chunk == FirstOf(here, RawLimit)
             found == visible \cup {p \in chunk : rows[p.id].allowed}
  <1>1. /\ at = "request" /\ UNCHANGED <<query, table>>
        /\ \/ /\ Cardinality(found) > Limit
              /\ Given(FirstOf(found, Limit)) /\ nextCursor' = LastOf(FirstOf(found, Limit))
              /\ Ends(nextCursor') /\ at' = "client" /\ UNCHANGED <<raw, visible>>
           \/ /\ Cardinality(found) <= Limit /\ Cardinality(here) > RawLimit
              /\ raw' = LastOf(chunk) /\ visible' = found /\ Ends(raw')
              /\ UNCHANGED <<listed, nextCursor, at>>
           \/ /\ Cardinality(found) <= Limit /\ Cardinality(here) <= RawLimit
              /\ Given(found) /\ at' = "done"
              /\ UNCHANGED <<raw, visible, nextCursor, ended>>
    BY DEF ReadOn
  <1>2. /\ Chain(sort, found) /\ chunk \subseteq Place
        /\ Cardinality(here) > RawLimit =>
             /\ LastOf(chunk) \in chunk /\ Behind(sort, LastOf(chunk), raw)
             /\ \A p \in chunk : ~Order(sort, LastOf(chunk), p)
        /\ \A p \in found :
             /\ Behind(sort, p, nextCursor)
             /\ p \in chunk \/ (p \in visible /\ raw # Start /\ ~Order(sort, raw, p))
             /\ p.id \notin changed => p.id \in Present /\ p = Position(p.id)
        /\ \A i \in steady : Behind(sort, Position(i), nextCursor) =>
             \/ Position(i) \in found \/ PassedOver(i)
             \/ /\ Cardinality(here) > RawLimit
                /\ \A p \in found \cup chunk : Order(sort, p, Position(i))
    BY <1>1, Reads
  <1>3. /\ raw \in Place \cup {Start} /\ visible \in SUBSET Place /\ IsFiniteSet(visible)
        /\ nextCursor \in Place \cup {Start} /\ listed \in [Id -> Nat]
        /\ at \in {"client", "request", "done"} /\ sort \in Orders
        /\ Limit \in Nat /\ RawLimit \in Nat
    BY Known DEF ListIInv, ListTypeOK
  <1>4. listing = "application" /\ \A i : Tame(i) => i \notin changed
    BY <1>1 DEF ListIInv, Collected, Tame
  <1> HIDE DEF here, chunk, found
  <1>5. CASE /\ Cardinality(found) > Limit
             /\ Given(FirstOf(found, Limit)) /\ nextCursor' = LastOf(FirstOf(found, Limit))
             /\ Ends(nextCursor') /\ at' = "client" /\ UNCHANGED <<raw, visible>>
    <2>1. Pageable(found)
      BY <1>2, <1>4, <1>5 DEF Pageable
    <2>2. /\ ListedRows' /\ SteadyRows' /\ Collected'
          /\ listed' \in [Id -> Nat] /\ nextCursor' \in Place
      BY <1>1, <1>5, <2>1, OnePage
    <2>4. /\ ended \subseteq ended' /\ ended' \in SUBSET {"empty", "value"}
          /\ (IF nextCursor'.key = Null THEN "empty" ELSE "value") \in ended'
      BY <1>5, EndsAt DEF ListIInv
    <2>3. ListTypeOK'
      BY <1>1, <1>3, <1>5, <2>2, <2>4, SameTypes DEF ListIInv
    <2>5. Noted'
      BY <1>1, <1>5, <2>4, Growing DEF ListIInv, Noted, Ended
    <2> QED
      BY <2>2, <2>3, <2>5 DEF ListIInv
  <1>6. CASE /\ Cardinality(found) <= Limit /\ Cardinality(here) <= RawLimit
             /\ Given(found) /\ at' = "done"
             /\ UNCHANGED <<raw, visible, nextCursor, ended>>
    <2>1. ~(Cardinality(here) > RawLimit)
      <3>1. Chain(sort, here)
        BY <1>3, Found DEF here, ListIInv, Noted
      <3>2. Cardinality(here) \in Nat
        BY <3>1, FS_CardinalityType DEF Chain
      <3> QED
        BY <1>3, <1>6, <3>2
    <2>2. Pageable(found)
      BY <1>2, <1>4, <2>1 DEF Pageable
    <2>3. ListedRows' /\ SteadyRows' /\ Collected' /\ listed' \in [Id -> Nat]
      BY <1>1, <1>6, <2>2, LastPage
    <2>4. ListTypeOK'
      BY <1>1, <1>3, <1>6, <2>3, SameTypes DEF ListIInv, ListTypeOK
    <2>5. Noted'
      BY <1>6 DEF ListIInv, Noted, Ended
    <2> QED
      BY <2>3, <2>4, <2>5 DEF ListIInv
  <1>7. CASE /\ Cardinality(found) <= Limit /\ Cardinality(here) > RawLimit
             /\ raw' = LastOf(chunk) /\ visible' = found /\ Ends(raw')
             /\ UNCHANGED <<listed, nextCursor, at>>
    <2> DEFINE L == raw'
    <2>9. /\ ended \subseteq ended' /\ ended' \in SUBSET {"empty", "value"}
          /\ (IF raw'.key = Null THEN "empty" ELSE "value") \in ended'
      BY <1>7, EndsAt DEF ListIInv
    <2>1. /\ L \in chunk /\ L \in Place /\ L # Start /\ Behind(sort, L, raw)
          /\ \A p \in chunk : ~Order(sort, L, p)
      BY <1>2, <1>7, PlaceParts
    <2>2. ASSUME NEW p \in Place, Behind(sort, p, L)
          PROVE  Behind(sort, p, raw)
      BY <1>3, <2>1, <2>2, OrderLaws DEF Behind
    <2>3. \A p \in Place : Behind(sort, p, L) => Behind(sort, p, nextCursor)
      BY <1>1, <2>2 DEF ListIInv, Collected
    <2>4. \A p \in found : ~Behind(sort, p, L)
      <3> SUFFICES ASSUME NEW p \in found
                   PROVE  ~Order(sort, L, p)
        BY <2>1 DEF Behind
      <3>1. p \in Place /\ (p \in chunk \/ (raw # Start /\ ~Order(sort, raw, p)))
        BY <1>2 DEF Chain
      <3> QED
        BY <1>3, <2>1, <3>1, OrderLaws DEF Behind
    <2>5. ASSUME NEW i \in steady, Behind(sort, Position(i), nextCursor), ~Behind(sort, Position(i), L)
          PROVE  Position(i) \in found \/ PassedOver(i)
      BY <1>2, <2>1, <2>5 DEF Behind
    <2>6. Collected'
      BY <1>1, <1>2, <1>4, <1>7, <2>3, <2>4, <2>5, <2>9, SameTable, Growing
         DEF Collected, ListIInv
    <2>7. ListedRows' /\ SteadyRows'
      BY <1>1, <1>7, <2>9, SameTable, Growing DEF ListedRows, SteadyRows, ListIInv
    <2>8. ListTypeOK'
      BY <1>1, <1>2, <1>3, <1>7, <2>1, <2>9, SameTypes DEF ListIInv, Chain
    <2>10. Noted'
      BY <1>1, <1>7, <2>9, Growing DEF ListIInv, Noted, Ended
    <2> QED
      BY <2>6, <2>7, <2>8, <2>10 DEF ListIInv
  <1> QED
    BY <1>1, <1>5, <1>6, <1>7

LEMMA ListApplicationKeeps ==
  ASSUME ListIInv, ListApplication
  PROVE  ListIInv'
  <1>1. /\ listing = "application" /\ at = "client" /\ at' = "request"
        /\ raw' = nextCursor /\ visible' = {} /\ UNCHANGED <<query, table, nextCursor, listed, ended>>
    BY DEF ListApplication
  <1>2. ListTypeOK'
    BY <1>1, SameTypes, FS_EmptySet DEF ListIInv, ListTypeOK
  <1>3. ListedRows' /\ SteadyRows' /\ Collected'
    BY <1>1, SameTable, Growing DEF ListedRows, SteadyRows, Collected, ListIInv
  <1>4. Noted'
    BY <1>1 DEF ListIInv, Noted, Ended
  <1> QED
    BY <1>2, <1>3, <1>4 DEF ListIInv

\* In the listings from the newest on a row that was pruned does not come
\* back, and one that changes, unless a redrive moves it back, does not get
\* into what is still to be listed.
LEMMA WriteKeeps ==
  ASSUME ListIInv, NEW w \in Id, NEW row \in Row \cup {Absent}, Write(w, row),
         listing \in {"deliveries", "activity"} /\ w \notin Present => w \notin changed,
         redriven \subseteq redriven', redriven' \in SUBSET Id,
         listing = "activity" /\ w \in Present /\ row # Absent =>
           ~(row.key < rows[w].key) \/ w \in redriven'
  PROVE  ListIInv'
  <1>1. /\ at # "done" /\ rows' = [rows EXCEPT ![w] = row]
        /\ steady' = (steady \ {w}) \cap (IF listing = "activity" THEN Newest' ELSE Id)
        /\ changed' = changed \cup {w} /\ changes' = changes + 1
        /\ UNCHANGED <<listing, sort, filter, at, nextCursor, raw, visible, listed, ended>>
    BY DEF Write, query, pages
  <1>2. ListTypeOK /\ rows \in [Id -> Row \cup {Absent}]
    BY DEF ListIInv, ListTypeOK
  <1>3. /\ rows' \in [Id -> Row \cup {Absent}] /\ rows'[w] = row
        /\ \A i \in Id : i # w => rows'[i] = rows[i]
    <2>1. rows' = [rows EXCEPT ![w] = row]
      BY <1>1
    <2> QED
      BY <1>2, <2>1
  <1>4. /\ \A i \in Id : i # w => (i \in Present' <=> i \in Present)
        /\ w \in Present' <=> row # Absent
    BY <1>3 DEF Present
  <1>5. \A i \in Id : i # w => Position(i)' = Position(i)
    BY <1>3 DEF Position
  <1>6. ListTypeOK'
    <2>1. Sorts' = Sorts /\ Filters' = Filters
      BY <1>1 DEF Sorts, Filters, OfRecords
    <2>2. changed' \in SUBSET Id /\ steady' \in SUBSET Id /\ changes' \in Nat
      <3>1. steady \in SUBSET Id /\ changed \in SUBSET Id /\ changes \in Nat
        BY <1>2 DEF ListTypeOK
      <3>2. steady' \subseteq steady
        BY <1>1
      <3>3. changed' \in SUBSET Id
        BY <1>1, <3>1
      <3>4. changes' \in Nat
        BY <1>1, <3>1
      <3> QED
        BY <3>1, <3>2, <3>3, <3>4
    <2> QED
      BY <1>1, <1>2, <1>3, <2>1, <2>2 DEF ListTypeOK
  <1>7. \A i : Tame(i)' => Tame(i)
    BY <1>1 DEF Tame
  <1>8. ASSUME Tame(w)', listed[w] = 1
        PROVE  /\ nextCursor # Start
               /\ row # Absent => ~Order(sort, nextCursor, Position(w)')
               /\ w \in changed'
    <2>1. /\ Tame(w) /\ w \in changed'
          /\ listing = "deliveries" \/ (listing = "activity" /\ w \notin redriven')
      BY <1>1, <1>7, <1>8 DEF Tame
    <2>2. /\ nextCursor # Start /\ w \in Present
          /\ ~Order(sort, nextCursor, Position(w))
      BY <1>1, <1>8, <2>1 DEF ListIInv, ListedRows
    <2>3. ASSUME row # Absent
          PROVE  ~Order(sort, nextCursor, Position(w)')
      <3> DEFINE c == nextCursor
      <3>1. /\ Position(w).id = w /\ Position(w).key = rows[w].key
            /\ (Position(w)').id = w /\ (Position(w)').key = row.key
        BY <1>3 DEF Position
      <3>2. c \in Place /\ Position(w) \in Place
        BY <1>2, <2>2, Known DEF ListTypeOK
      <3>3. /\ c.key \in Nat /\ c.id \in Nat /\ rows[w].key \in Nat /\ w \in Nat
        BY <3>1, <3>2, PlaceParts
      <3>4. CASE listing = "deliveries"
        <4>1. sort.key = "none"
          BY <1>2, <3>4, Known
        <4> QED
          BY <2>2, <3>1, <4>1 DEF Order
      <3>5. CASE listing = "activity"
        <4>1. sort.key = "desc" /\ sort.id = "desc"
          BY <1>2, <3>5 DEF ListTypeOK, Sorts, OfRecords
        <4>2. row.key \in Nat /\ ~(row.key < rows[w].key)
          <5>1. row \in Row
            BY <2>3
          <5>2. [key |-> row.key, id |-> w] \in Place
            BY <5>1 DEF Row, Place
          <5>3. row.key \in Nat
            BY <5>2, PlaceParts
          <5> QED
            BY <2>1, <2>2, <2>3, <3>5, <5>3
        <4>3. /\ ~(rows[w].key < c.key)
              /\ c.key = rows[w].key => ~(w < c.id)
          BY <2>2, <3>1, <4>1 DEF Order, Precedes
        <4>4. ~(row.key < c.key) /\ (c.key = row.key => ~(w < c.id))
          BY <3>3, <4>2, <4>3
        <4> QED
          BY <3>1, <4>1, <4>4 DEF Order, Precedes
      <3> QED
        BY <2>1, <3>4, <3>5
    <2> QED
      BY <2>1, <2>2, <2>3
  <1>9. ListedRows'
    <2>1. ASSUME NEW i \in Id, Tame(i)'
          PROVE  /\ listed[i] <= 1
                 /\ listed[i] = 1 =>
                      /\ nextCursor # Start
                      /\ i \in Present' => ~Order(sort, nextCursor, Position(i)')
                      /\ i \notin Present' => i \in changed'
      <3>1. Tame(i)
        BY <1>7, <2>1
      <3>2. CASE i = w
        BY <1>4, <1>8, <2>1, <3>1, <3>2 DEF ListIInv, ListedRows
      <3>3. CASE i # w
        BY <1>1, <1>4, <1>5, <2>1, <3>1, <3>3 DEF ListIInv, ListedRows
      <3> QED
        BY <3>2, <3>3
    <2> QED
      BY <1>1, <2>1 DEF ListedRows
  <1>10. ASSUME NEW i \in steady'
         PROVE  /\ i \in steady /\ i # w /\ i \in Id /\ i \in Wanted' /\ i \notin changed'
                /\ Position(i)' = Position(i) /\ (PassedOver(i) => PassedOver(i)')
    <2>1. i \in steady /\ i # w /\ i \in Wanted /\ i \notin changed /\ i \in Id
      BY <1>1, <1>2 DEF ListIInv, SteadyRows, ListTypeOK
    <2>2. rows'[i] = rows[i] /\ i \in Present'
      BY <1>2, <1>3, <1>4, <2>1, Known
    <2>3. listing = "activity" => i \in Newest'
      BY <1>1
    <2>4. i \in Wanted'
      BY <1>1, <2>1, <2>2, <2>3 DEF Wanted, Candidates, Passes
    <2>5. PassedOver(i) => PassedOver(i)'
      BY <1>1, <2>2 DEF PassedOver, OfRecords
    <2> QED
      BY <1>1, <1>5, <2>1, <2>4, <2>5
  <1>11. SteadyRows'
    BY <1>1, <1>10 DEF SteadyRows, ListIInv
  <1>12. Collected'
    <2>1. ASSUME at = "request", NEW p \in visible, p.id \notin changed'
          PROVE  p.id \in Present' /\ p = Position(p.id)'
      <3>1. p.id \in Present /\ p = Position(p.id) /\ p.id # w /\ p.id \in Id
        BY <1>1, <1>2, <2>1, Known DEF ListIInv, Collected
      <3> QED
        BY <1>4, <1>5, <3>1
    <2> QED
      BY <1>1, <1>10, <2>1 DEF Collected, ListIInv
  <1>13. Noted'
    BY <1>1 DEF ListIInv, Noted, Ended
  <1> QED
    BY <1>6, <1>9, <1>11, <1>12, <1>13 DEF ListIInv

LEMMA ListInitOK ==
  ASSUME ListInit
  PROVE  ListIInv
  <1>1. ListTypeOK
    <2>1. {} \in SUBSET Place /\ IsFiniteSet({}) /\ Start \in Place \cup {Start}
      BY FS_EmptySet
    <2>2. steady \in SUBSET Id
      BY DEF ListInit, Wanted, Candidates, Newest, Present
    <2> QED
      BY <2>1, <2>2 DEF ListInit, ListTypeOK
  <1>2. ListedRows /\ SteadyRows /\ Collected /\ Noted
    BY DEF ListInit, ListedRows, SteadyRows, Collected, Behind, Noted, Ended
  <1> QED
    BY <1>1, <1>2 DEF ListIInv

LEMMA ListStep ==
  ASSUME ListIInv, [ListNext]_listVars
  PROVE  ListIInv'
  <1>1. CASE UNCHANGED listVars
    <2>1. UNCHANGED <<query, table>> /\ UNCHANGED <<at, nextCursor, raw, visible, listed, ended>>
      BY <1>1 DEF listVars, pages
    <2>2. ListTypeOK'
      BY <2>1, SameTypes DEF ListIInv, ListTypeOK
    <2>3. ListedRows' /\ SteadyRows' /\ Collected'
      BY <2>1, SameTable, Growing DEF ListedRows, SteadyRows, Collected, ListIInv
    <2>4. Noted'
      BY <2>1 DEF ListIInv, Noted, Ended
    <2> QED
      BY <2>2, <2>3, <2>4 DEF ListIInv
  <1>2. CASE List \/ ListRequests \/ ListAudit \/ ListDeliveries \/ History \/ ListActivity
    BY <1>2, NextPageKeeps
       DEF List, ListRequests, ListAudit, ListDeliveries, History, ListActivity
  <1>3. CASE ListApplication
    BY <1>3, ListApplicationKeeps
  <1>4. CASE ReadOn
    BY <1>4, ReadOnKeeps
  <1>8. redriven \in SUBSET Id
    BY DEF ListIInv, ListTypeOK
  <1>5. CASE \E i \in Id : PruneOlderThan(i)
    BY <1>5, <1>8, WriteKeeps DEF PruneOlderThan
  <1>6. ASSUME NEW i \in Id, NEW row \in Row \cup {Absent},
               \/ WriteRecord(i, row) \/ AppendRequest(i, row)
               \/ UpdateResponseMetrics(i, row) \/ AppendInTransaction(i, row)
        PROVE  ListIInv'
    <2>1. /\ Write(i, row) /\ listing \notin {"deliveries", "activity"}
          /\ redriven' = redriven
      BY <1>6 DEF WriteRecord, AppendRequest, UpdateResponseMetrics, AppendInTransaction,
         Appended, OfRecords
    <2> QED
      BY <1>8, <2>1, WriteKeeps
  <1>7. ASSUME NEW i \in Id, NEW row \in Row \cup {Absent},
               WriteDelivery(i, row) \/ WriteFact(i, row)
        PROVE  ListIInv'
    <2>1. /\ Write(i, row)
          /\ i \notin Present => i \notin changed
      BY <1>7 DEF WriteDelivery, WriteFact, Present
    <2>2. CASE WriteDelivery(i, row)
      BY <1>8, <2>1, <2>2, WriteKeeps DEF WriteDelivery
    <2>3. CASE WriteFact(i, row)
      <3>1. redriven' = IF i \in Present /\ row # Absent /\ row.key < rows[i].key
                        THEN redriven \cup {i} ELSE redriven
        BY <2>3 DEF WriteFact
      <3>2. redriven \subseteq redriven' /\ redriven' \in SUBSET Id
        BY <1>8, <3>1
      <3> QED
        BY <2>1, <3>1, <3>2, WriteKeeps
    <2> QED
      BY <1>7, <2>2, <2>3
  <1> QED
    BY <1>1, <1>2, <1>3, <1>4, <1>5, <1>6, <1>7 DEF ListNext

\* The inductive invariant holds in every state.
THEOREM ListInvariance ==
  ListSpec => []ListIInv
  <1>1. ListInit => ListIInv
    BY ListInitOK
  <1>2. ListIInv /\ [ListNext]_listVars => ListIInv'
    BY ListStep
  <1> QED
    BY <1>1, <1>2, PTL DEF ListSpec

\* The variables keep their types.
THEOREM ListTypeCorrect ==
  ListSpec => []ListTypeOK
  <1>1. ListIInv => ListTypeOK
    BY DEF ListIInv
  <1> QED
    BY <1>1, ListInvariance, PTL

\* Whatever is written during a listing, every steady row is on exactly one of
\* its pages unless an empty Field makes the cursors pass it over, and no row
\* is on two that nobody wrote, or that is listed from the newest on and was
\* not moved back by a redrive.
THEOREM EveryRowIsListedOnce ==
  ListSpec => []ListedOnce
  <1>1. ListIInv => ListedOnce
    BY DEF ListIInv, ListedRows, SteadyRows, Tame, ListedOnce
  <1> QED
    BY <1>1, ListInvariance, PTL
=============================================================================
