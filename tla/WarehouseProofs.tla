---------------------------- MODULE WarehouseProofs ----------------------------
(***************************************************************************)
(* Warehouse, for any listings, consumers, prices and bounds.              *)
(*                                                                         *)
(* The argument, in four parts.  Shape: what a consumer holds agrees with  *)
(* where it stands.  Apart: while no two consumers hold a batch, what one  *)
(* is about to insert is not there.  Opening: the opening row of a listing *)
(* is in the hands of whoever holds its first batch, or in the ledger.     *)
(* TrueLedger: while batches are taken in turn, every row tells what the   *)
(* log says, and every batch that changes what it says has its row in the  *)
(* ledger or on the way; so the latest row before a batch is the truth up  *)
(* to there, and what is derived from it is the truth after.               *)
(***************************************************************************)
EXTENDS Warehouse, FiniteSetTheorems, WellFoundedInduction, TLAPS

\* The least of a set of naturals.
LEMMA LeastOfNats ==
  ASSUME NEW S, S \subseteq Nat, S # {}
  PROVE  Min(S) \in S /\ \A y \in S : Min(S) <= y
<1> DEFINE Below(x) == {y \in Nat : y < x}
           T == {Below(x) : x \in S}
<1>1. T \subseteq FiniteSubsetsOf(Nat)
  <2> SUFFICES ASSUME NEW x \in S PROVE Below(x) \in SUBSET Nat /\ IsFiniteSet(Below(x))
    BY DEF FiniteSubsetsOf
  <2>1. x \in Nat /\ Below(x) \in SUBSET Nat /\ \A y \in Below(x) : y <= x
    OBVIOUS
  <2> QED
    BY <2>1, FS_BoundedSetOfNaturals
<1>2. T # {}
  OBVIOUS
<1> HIDE DEF T
<1>3. PICK D \in T : \A E \in T : ~(<<E, D>> \in StrictSubsetOrdering(Nat))
  BY <1>1, <1>2, FS_StrictSubsetOrderingWellFounded, WFMin
<1>4. PICK x \in S : D = Below(x)
  BY <1>3 DEF T
<1>5. ASSUME NEW y \in S, ~(x <= y)
      PROVE  FALSE
  <2>1. y \in Nat /\ x \in Nat /\ y < x
    BY <1>5
  <2>2. /\ Below(y) \in T /\ Below(y) \subseteq Below(x)
        /\ y \in Below(x) /\ y \notin Below(y)
    BY <2>1 DEF T
  <2>3. <<Below(y), D>> \in StrictSubsetOrdering(Nat)
    BY <1>4, <2>2 DEF StrictSubsetOrdering
  <2> QED
    BY <1>3, <2>2, <2>3
<1> QED
  BY <1>5 DEF Min

\* The greatest of a bounded set of naturals.
LEMMA GreatestOfNats ==
  ASSUME NEW S, S \subseteq Nat, S # {}, NEW n \in Nat, \A x \in S : x <= n
  PROVE  Max(S) \in S /\ \A y \in S : y <= Max(S)
<1> DEFINE T == {n - x : x \in S}
<1>1. T \subseteq Nat /\ T # {}
  <2>1. \A x \in S : n - x \in Nat
    OBVIOUS
  <2> QED
    BY <2>1
<1>2. Min(T) \in T /\ \A y \in T : Min(T) <= y
  BY <1>1, LeastOfNats
<1>3. PICK x \in S : Min(T) = n - x
  BY <1>2
<1>4. \A y \in S : y <= x
  <2> TAKE y \in S
  <2>1. n - y \in T /\ n - x <= n - y
    BY <1>2, <1>3
  <2> QED
    BY <2>1
<1>5. \A y \in S : x >= y
  BY <1>4
<1> QED
  BY <1>5 DEF Max

\* The last of a bounded set of batch numbers, 0 for none.
LEMMA LastOfNats ==
  ASSUME NEW S, S \subseteq Nat \ {0}, NEW n \in Nat, \A x \in S : x <= n
  PROVE  /\ Last(S) \in Nat /\ (Last(S) = 0 <=> S = {})
         /\ S # {} => Last(S) \in S
         /\ \A y \in S : y <= Last(S)
BY GreatestOfNats DEF Last

\* Of rows of earlier times, one is the latest.
LEMMA LatestRow ==
  ASSUME NEW C \in SUBSET Rows, C # {}, NEW t \in Nat, \A c \in C : c.by < t
  PROVE  Latest(C) \in C /\ \A d \in C : d.by <= Latest(C).by
<1> DEFINE S == {c.by : c \in C}
<1>1. S \subseteq Nat /\ S # {} /\ \A x \in S : x <= t
  BY DEF Rows
<1>2. Max(S) \in S /\ \A y \in S : y <= Max(S)
  BY <1>1, GreatestOfNats
<1>3. \E c \in C : \A d \in C : d.by <= c.by
  BY <1>2
<1> QED
  BY <1>3 DEF Latest

-----------------------------------------------------------------------------
(* What is derived has the values the columns can have.                    *)

\* Any evidence has a verdict.
LEMMA EvaluateType ==
  ASSUME NEW probe, NEW seen, NEW misses, NEW scanned, NEW age
  PROVE  Evaluate(probe, seen, misses, scanned, age) \in Verdicts
<1>1. \A p \in DOMAIN Settled : Settled[p] \in Verdicts
  BY DEF Settled, Verdict, Verdicts, States
<1>2. Inferred(seen, misses, scanned, age) \in Verdicts
  BY DEF Inferred, Verdict, Verdicts, States
<1> QED
  BY <1>1, <1>2 DEF Evaluate

\* A snapshot of evidence has the values its columns can have.
LEMMA SnapshotType ==
  ASSUME NEW probe \in Outcomes, NEW seen \in BOOLEAN, NEW misses \in Nat, NEW scanned \in BOOLEAN,
         NEW price \in Prices \cup {NoPrice}
  PROVE  Snapshot(probe, seen, misses, scanned, price) \in Snapshots
<1> DEFINE v == Evaluate(probe, seen, misses, scanned, "recent")
           s == probe \in DOMAIN Settled
<1>1. v \in Verdicts /\ s \in BOOLEAN
  BY EvaluateType
<1> HIDE DEF v, s
<1>2. Snapshot(probe, seen, misses, scanned, price) =
        [verdict |-> v, settled |-> s, price |-> price, misses |-> misses,
         seen |-> seen, scanned |-> scanned, probe |-> probe]
  BY DEF Snapshot, v, s
<1> QED
  BY <1>1, <1>2 DEF Snapshots

\* The latest page and the latest probe of a listing, if there are any.
LEMMA BeforeType ==
  ASSUME NEW g \in Seq(Batches), NEW F \in SUBSET (1..Len(g)), NEW l, NEW t \in Nat
  PROVE  /\ SeenBefore(g, F, l, t) \in F \cup {0} /\ ProbeBefore(g, F, l, t) \in F \cup {0}
         /\ SeenBefore(g, F, l, t) # 0 =>
              /\ SeenBefore(g, F, l, t) < t /\ IsPage(g[SeenBefore(g, F, l, t)])
              /\ l \in g[SeenBefore(g, F, l, t)].of
         /\ ProbeBefore(g, F, l, t) # 0 =>
              /\ ProbeBefore(g, F, l, t) < t /\ ~IsPage(g[ProbeBefore(g, F, l, t)])
              /\ l \in g[ProbeBefore(g, F, l, t)].of
         /\ \A i \in F : i < t /\ l \in g[i].of =>
              /\ IsPage(g[i]) => SeenBefore(g, F, l, t) # 0 /\ i <= SeenBefore(g, F, l, t)
              /\ ~IsPage(g[i]) => ProbeBefore(g, F, l, t) # 0 /\ i <= ProbeBefore(g, F, l, t)
<1> DEFINE P == {i \in F : i < t /\ IsPage(g[i]) /\ l \in g[i].of}
           Q == {i \in F : i < t /\ ~IsPage(g[i]) /\ l \in g[i].of}
<1>1. /\ P \subseteq Nat \ {0} /\ Q \subseteq Nat \ {0}
      /\ (\A x \in P : x <= t) /\ (\A x \in Q : x <= t)
  <2>1. Len(g) \in Nat
    OBVIOUS
  <2>2. \A i \in F : i \in Nat \ {0} /\ (i < t => i <= t)
    BY <2>1
  <2> QED
    BY <2>2
<1>2. SeenBefore(g, F, l, t) = Last(P) /\ ProbeBefore(g, F, l, t) = Last(Q)
  BY DEF SeenBefore, ProbeBefore
<1>3. /\ Last(P) \in Nat /\ (Last(P) = 0 <=> P = {}) /\ (P # {} => Last(P) \in P)
      /\ \A y \in P : y <= Last(P)
  BY <1>1, LastOfNats
<1>4. /\ Last(Q) \in Nat /\ (Last(Q) = 0 <=> Q = {}) /\ (Q # {} => Last(Q) \in Q)
      /\ \A y \in Q : y <= Last(Q)
  BY <1>1, LastOfNats
<1>5. \A i \in F : i \in Nat /\ i # 0
  OBVIOUS
<1> QED
  BY <1>2, <1>3, <1>4, <1>5

\* What is known of a listing before a batch; something is, if it was seen.
LEMMA PreviousType ==
  ASSUME NEW g \in Seq(Batches), NEW F \in SUBSET (1..Len(g)), NEW K \in SUBSET Rows,
         NEW l \in Listings, NEW t \in Nat
  PROVE  LET p == Previous(g, F, K, l, t) IN
         /\ p \in Snapshots \cup {None}
         /\ SeenBefore(g, F, l, t) # 0 => p \in Snapshots
<1> DEFINE page == SeenBefore(g, F, l, t)
           probed == ProbeBefore(g, F, l, t)
           earlier == ChangesBefore(K, l, t)
           answer == IF probed = 0 THEN "none" ELSE g[probed].probe
           row == Latest(earlier).current
           price == IF row.price = NoPrice /\ page # 0 THEN g[page].price ELSE row.price
           seen == row.misses = 0 /\ page # 0
           scanned == page # 0
           first == IF page = 0 THEN NoPrice ELSE g[page].price
<1>1. Previous(g, F, K, l, t) =
        IF earlier # {} THEN [row EXCEPT !.price = price, !.seen = seen, !.scanned = scanned,
                                       !.probe = answer]
        ELSE IF page # 0 \/ probed # 0 THEN Snapshot(answer, page # 0, 0, page # 0, first)
        ELSE None
  BY DEF Previous
<1>2. page \in F \cup {0} /\ probed \in F \cup {0}
  BY BeforeType
<1>3. \A i \in F : g[i] \in Batches
  OBVIOUS
<1>4. answer \in Outcomes /\ first \in Prices \cup {NoPrice} /\ scanned \in BOOLEAN /\ seen \in BOOLEAN
  BY <1>2, <1>3 DEF Batches, Outcomes
<1>5. Snapshot(answer, page # 0, 0, page # 0, first) \in Snapshots
  BY <1>4, SnapshotType
<1>6. earlier # {} => row \in Snapshots
  <2>1. earlier \in SUBSET Rows /\ \A c \in earlier : c.by < t
    BY DEF ChangesBefore
  <2> HIDE DEF earlier
  <2>2. earlier # {} => Latest(earlier) \in Rows
    BY <2>1, LatestRow
  <2> QED
    BY <2>2 DEF Rows
<1>7. earlier # {} => price \in Prices \cup {NoPrice}
  BY <1>2, <1>3, <1>6 DEF Batches, Snapshots
<1> HIDE DEF price, seen, scanned, answer, row, earlier, page, probed, first
<1>8. earlier # {} => [row EXCEPT !.price = price, !.seen = seen, !.scanned = scanned,
                                !.probe = answer] \in Snapshots
  BY <1>4, <1>6, <1>7 DEF Snapshots
<1> QED
  BY <1>1, <1>5, <1>8 DEF page

\* The rows made of two snapshots are rows, and say which.
LEMMA ChangesType ==
  ASSUME NEW i \in Nat \ {0}, NEW l \in Listings, NEW p \in Snapshots \cup {None},
         NEW c \in Snapshots, NEW r \in Changes(i, l, p, c)
  PROVE  r \in Rows /\ r.by = i /\ r.listing = l /\ r.previous = p /\ r.current = c
<1>1. Differences(p, c) \subseteq Kinds
  BY DEF Differences, Kinds
<1>2. PICK k \in Kinds : r = [by |-> i, listing |-> l, kind |-> k, previous |-> p, current |-> c]
  BY <1>1 DEF Changes
<1> QED
  BY <1>2 DEF Rows

\* What batch i says of a listing it names, and of one it is held against, is a change from
\* what is known of it before.
Before(g, F, K, i, l) == Previous(g, F, K, l, i)
Told(g, F, K, i, l) ==
  IF IsPage(g[i]) THEN Sighted(g[i], Before(g, F, K, i, l)) ELSE Probed(g[i], Before(g, F, K, i, l))

\* A derived row is of a listing the batch names, or of one it is held against.
LEMMA DerivedRow ==
  ASSUME NEW g, NEW F, NEW K, NEW i
  PROVE  \A r : r \in Derived(g, F, K, i) <=>
           \/ \E l \in g[i].of : r \in Changes(i, l, Before(g, F, K, i, l), Told(g, F, K, i, l))
           \/ \E l \in Missing(g, F, i) :
                r \in Changes(i, l, Before(g, F, K, i, l), Missed(Before(g, F, K, i, l)))
BY DEF Derived, Before, Told

\* What is known before a batch, and what the batch says, are snapshots.
LEMMA TellType ==
  ASSUME NEW g \in Seq(Batches), NEW F \in SUBSET (1..Len(g)), NEW K \in SUBSET Rows,
         NEW i \in 1..Len(g), NEW l \in Listings
  PROVE  /\ Before(g, F, K, i, l) \in Snapshots \cup {None}
         /\ Told(g, F, K, i, l) \in Snapshots
         /\ l \in Missing(g, F, i) =>
              Before(g, F, K, i, l) \in Snapshots /\ Missed(Before(g, F, K, i, l)) \in Snapshots
<1> DEFINE p == Before(g, F, K, i, l)
<1>1. i \in Nat /\ g[i] \in Batches
  OBVIOUS
<1>2. p \in Snapshots \cup {None} /\ (SeenBefore(g, F, l, i) # 0 => p \in Snapshots)
  BY <1>1, PreviousType DEF Before
<1>3. l \in Missing(g, F, i) => SeenBefore(g, F, l, i) # 0
  BY DEF Missing
<1> HIDE DEF p
<1>4. p \in Snapshots => Missed(p) \in Snapshots
  <2> SUFFICES ASSUME p \in Snapshots PROVE Missed(p) \in Snapshots
    OBVIOUS
  <2>1. p.probe \in Outcomes /\ p.misses + 1 \in Nat /\ p.price \in Prices \cup {NoPrice}
    BY DEF Snapshots
  <2> QED
    BY <2>1, SnapshotType DEF Missed
<1>5. Sighted(g[i], p) \in Snapshots
  <2>1. (IF p = None THEN "none" ELSE p.probe) \in Outcomes /\ g[i].price \in Prices \cup {NoPrice}
    BY <1>1, <1>2 DEF Snapshots, Batches, Outcomes
  <2> QED
    BY <2>1, SnapshotType DEF Sighted
<1>6. Probed(g[i], p) \in Snapshots
  <2>1. g[i].probe \in Outcomes
    BY <1>1 DEF Batches
  <2>2. CASE p = None
    BY <2>1, <2>2, SnapshotType DEF Probed
  <2>3. CASE p # None
    <3>1. p.seen \in BOOLEAN /\ p.misses \in Nat /\ p.scanned \in BOOLEAN /\ p.price \in Prices \cup {NoPrice}
      BY <1>2, <2>3 DEF Snapshots
    <3> QED
      BY <2>1, <2>3, <3>1, SnapshotType DEF Probed
  <2> QED
    BY <2>2, <2>3
<1> QED
  BY <1>2, <1>3, <1>4, <1>5, <1>6 DEF Told, p

\* A derived row is a row of its batch that follows what was known before.
LEMMA DerivedType ==
  ASSUME NEW g \in Seq(Batches), NEW F \in SUBSET (1..Len(g)), NEW K \in SUBSET Rows,
         NEW i \in 1..Len(g), NEW r \in Derived(g, F, K, i)
  PROVE  /\ r \in Rows /\ r.by = i /\ r.previous = Before(g, F, K, i, r.listing)
         /\ \/ r.listing \in g[i].of /\ r.current = Told(g, F, K, i, r.listing)
            \/ /\ r.listing \in Missing(g, F, i)
               /\ r.current = Missed(Before(g, F, K, i, r.listing))
<1>1. i \in Nat \ {0} /\ g[i] \in Batches /\ g[i].of \subseteq Listings
  <2>1. i \in Nat \ {0} /\ g[i] \in Batches
    OBVIOUS
  <2> QED
    BY <2>1 DEF Batches
<1>2. Missing(g, F, i) \subseteq Listings
  BY DEF Missing
<1>3. CASE \E l \in g[i].of : r \in Changes(i, l, Before(g, F, K, i, l), Told(g, F, K, i, l))
  <2>1. PICK l \in g[i].of : r \in Changes(i, l, Before(g, F, K, i, l), Told(g, F, K, i, l))
    BY <1>3
  <2>2. l \in Listings /\ Before(g, F, K, i, l) \in Snapshots \cup {None} /\ Told(g, F, K, i, l) \in Snapshots
    BY <1>1, TellType
  <2> QED
    BY <1>1, <2>1, <2>2, ChangesType
<1>4. CASE \E l \in Missing(g, F, i) :
             r \in Changes(i, l, Before(g, F, K, i, l), Missed(Before(g, F, K, i, l)))
  <2>1. PICK l \in Missing(g, F, i) :
          r \in Changes(i, l, Before(g, F, K, i, l), Missed(Before(g, F, K, i, l)))
    BY <1>4
  <2>2. /\ l \in Listings /\ Before(g, F, K, i, l) \in Snapshots \cup {None}
        /\ Missed(Before(g, F, K, i, l)) \in Snapshots
    BY <1>2, <2>1, TellType
  <2> QED
    BY <1>1, <2>1, <2>2, ChangesType
<1> QED
  BY <1>3, <1>4, DerivedRow

-----------------------------------------------------------------------------
(* What a log says of a listing, batch after batch.                        *)

Shown(g, l, n) == SeenBefore(g, 1..Len(g), l, n + 1)
Asked(g, l, n) == ProbeBefore(g, 1..Len(g), l, n + 1)
Answer(g, l, n) == IF Asked(g, l, n) = 0 THEN "none" ELSE g[Asked(g, l, n)].probe
Unseen(g, l, n) == {k \in Shown(g, l, n) + 1..n : g[k].last /\ g[k].run # g[Shown(g, l, n)].run}
Ruling(a, m) == Evaluate(a, m = 0, m, TRUE, "recent")
Said(g, l, n) ==
  [verdict |-> Ruling(Answer(g, l, n), Cardinality(Unseen(g, l, n))),
   misses |-> Cardinality(Unseen(g, l, n)), price |-> g[Shown(g, l, n)].price]

\* What Truth tells is what the log says.
LEMMA TruthSaid == \A l, n : Truth(l, n) = Said(log, l, n)
BY DEF Truth, Said, Ruling, Unseen, Answer, Asked, Shown, Captured

\* What was before a time hangs on the batches before it alone.
LEMMA SameBefore ==
  ASSUME NEW g, NEW h, NEW F, NEW G, NEW l, NEW t \in Nat,
         NEW u \in Nat,
         {i \in F : i < t /\ l \in g[i].of} = {i \in G : i < u /\ l \in h[i].of},
         \A i \in F : i < t => g[i] = h[i]
  PROVE  /\ SeenBefore(g, F, l, t) = SeenBefore(h, G, l, u)
         /\ ProbeBefore(g, F, l, t) = ProbeBefore(h, G, l, u)
<1> DEFINE A == {i \in F : i < t /\ l \in g[i].of}
           B == {i \in G : i < u /\ l \in h[i].of}
<1>1. \A i \in A : g[i] = h[i]
  OBVIOUS
<1>2. /\ {i \in F : i < t /\ IsPage(g[i]) /\ l \in g[i].of} = {i \in A : IsPage(g[i])}
      /\ {i \in G : i < u /\ IsPage(h[i]) /\ l \in h[i].of} = {i \in B : IsPage(h[i])}
      /\ {i \in F : i < t /\ ~IsPage(g[i]) /\ l \in g[i].of} = {i \in A : ~IsPage(g[i])}
      /\ {i \in G : i < u /\ ~IsPage(h[i]) /\ l \in h[i].of} = {i \in B : ~IsPage(h[i])}
  OBVIOUS
<1>3. A = B
  OBVIOUS
<1> HIDE DEF A, B
<1>4. /\ {i \in A : IsPage(g[i])} = {i \in B : IsPage(h[i])}
      /\ {i \in A : ~IsPage(g[i])} = {i \in B : ~IsPage(h[i])}
  BY <1>1, <1>3
<1> QED
  BY <1>2, <1>4 DEF SeenBefore, ProbeBefore

\* A batch at the end changes nothing of what was said before.
LEMMA SaidStays ==
  ASSUME NEW g \in Seq(Batches), NEW b \in Batches, NEW l, NEW n \in 1..Len(g), Shown(g, l, n) # 0
  PROVE  Said(Append(g, b), l, n) = Said(g, l, n)
<1> DEFINE h == Append(g, b)
           F == 1..Len(g)
           G == 1..Len(h)
<1>1. /\ Len(g) \in Nat /\ Len(h) = Len(g) + 1 /\ n \in Nat /\ n + 1 \in Nat
      /\ \A i \in F : h[i] = g[i] /\ i \in G
      /\ \A i \in G : i < n + 1 => i \in F
  OBVIOUS
<1>2. /\ Shown(g, l, n) \in F \cup {0} /\ Asked(g, l, n) \in F \cup {0}
  BY <1>1, BeforeType DEF Shown, Asked
<1> HIDE DEF h
<1>3. {i \in F : i < n + 1 /\ l \in g[i].of} = {i \in G : i < n + 1 /\ l \in h[i].of}
  BY <1>1
<1>4. Shown(h, l, n) = Shown(g, l, n) /\ Asked(h, l, n) = Asked(g, l, n)
  <2> HIDE DEF F, G
  <2>1. /\ SeenBefore(g, F, l, n + 1) = SeenBefore(h, G, l, n + 1)
        /\ ProbeBefore(g, F, l, n + 1) = ProbeBefore(h, G, l, n + 1)
    BY <1>1, <1>3, SameBefore
  <2> QED
    BY <2>1 DEF Shown, Asked, F, G
<1>5. Answer(h, l, n) = Answer(g, l, n)
  BY <1>1, <1>2, <1>4 DEF Answer
<1>6. h[Shown(g, l, n)] = g[Shown(g, l, n)]
  BY <1>1, <1>2
<1>7. Unseen(h, l, n) = Unseen(g, l, n)
  <2> DEFINE s == Shown(g, l, n)
  <2>1. s \in Nat /\ \A k \in s + 1..n : k \in F
    BY <1>1, <1>2
  <2>2. {k \in s + 1..n : h[k].last /\ h[k].run # h[s].run}
          = {k \in s + 1..n : g[k].last /\ g[k].run # g[s].run}
    BY <1>1, <1>6, <2>1
  <2> QED
    BY <1>4, <2>2 DEF Unseen
<1> QED
  BY <1>4, <1>5, <1>6, <1>7 DEF Said, h

\* Terminal batches are pages, a probed listing was shown before, and the pages come one run
\* after the other.
Ordered(g) ==
  /\ \A i \in 1..Len(g) : ~IsPage(g[i]) =>
       /\ ~g[i].last
       /\ \A l \in g[i].of : \E j \in 1..(i - 1) : IsPage(g[j]) /\ l \in g[j].of
  /\ \A i, j \in 1..Len(g) : i <= j /\ IsPage(g[i]) /\ IsPage(g[j]) => g[i].run <= g[j].run

\* The missed scans up to a batch are finitely many.
LEMMA UnseenFinite ==
  ASSUME NEW g \in Seq(Batches), NEW l, NEW n \in 0..Len(g)
  PROVE  /\ IsFiniteSet(Unseen(g, l, n)) /\ Cardinality(Unseen(g, l, n)) \in Nat
         /\ \A k \in Unseen(g, l, n) : k <= n
<1> DEFINE s == Shown(g, l, n)
<1>1. n \in Nat /\ s \in Nat /\ Len(g) \in Nat
  <2>1. s \in 1..Len(g) \cup {0} /\ n \in Nat /\ Len(g) \in Nat
    BY BeforeType DEF Shown
  <2> QED
    BY <2>1
<1>2. IsFiniteSet(s + 1..n)
  BY <1>1, FS_Interval
<1>3. Unseen(g, l, n) \subseteq s + 1..n
  BY DEF Unseen
<1>4. \A k \in s + 1..n : k <= n
  BY <1>1
<1> QED
  BY <1>2, <1>3, <1>4, FS_Subset, FS_CardinalityType

\* What a page that shows a listing says of it.
LEMMA ShownHere ==
  ASSUME NEW g \in Seq(Batches), NEW l, NEW i \in 1..Len(g), IsPage(g[i]), l \in g[i].of
  PROVE  /\ Shown(g, l, i) = i /\ Asked(g, l, i) = Asked(g, l, i - 1)
         /\ Unseen(g, l, i) = {} /\ Cardinality(Unseen(g, l, i)) = 0
<1> DEFINE s == Shown(g, l, i)
<1>1. Len(g) \in Nat /\ i \in Nat /\ i < i + 1 /\ i + 1 \in Nat /\ i - 1 + 1 = i
  OBVIOUS
<1>2. /\ s \in 1..Len(g) \cup {0} /\ (s # 0 => s < i + 1) /\ s # 0 /\ i <= s
  BY <1>1, BeforeType DEF Shown
<1>3. s = i
  BY <1>1, <1>2
<1>4. {j \in 1..Len(g) : j < i + 1 /\ ~IsPage(g[j]) /\ l \in g[j].of}
        = {j \in 1..Len(g) : j < i /\ ~IsPage(g[j]) /\ l \in g[j].of}
  BY <1>1
<1>5. Asked(g, l, i) = Asked(g, l, i - 1)
  BY <1>1, <1>4 DEF Asked, ProbeBefore
<1>6. Unseen(g, l, i) = {}
  BY <1>1, <1>3 DEF Unseen
<1> QED
  BY <1>3, <1>5, <1>6, FS_EmptySet

\* What a batch says of a listing it does not show.
LEMMA ShownBefore ==
  ASSUME NEW g \in Seq(Batches), Ordered(g), NEW l, NEW i \in 1..Len(g), ~(IsPage(g[i]) /\ l \in g[i].of),
         Shown(g, l, i - 1) # 0
  PROVE  LET s == Shown(g, l, i - 1)
             U == Unseen(g, l, i - 1)
         IN
         /\ Shown(g, l, i) = s /\ s < i /\ s \in 1..Len(g)
         /\ Asked(g, l, i) = IF l \in g[i].of THEN i ELSE Asked(g, l, i - 1)
         /\ Unseen(g, l, i) = IF g[i].last /\ g[i].run # g[s].run THEN U \cup {i} ELSE U
         /\ Cardinality(Unseen(g, l, i))
              = IF g[i].last /\ g[i].run # g[s].run THEN Cardinality(U) + 1 ELSE Cardinality(U)
<1> DEFINE s == Shown(g, l, i - 1)
           U == Unseen(g, l, i - 1)
<1>1. Len(g) \in Nat /\ i \in Nat /\ i < i + 1 /\ i + 1 \in Nat /\ i - 1 + 1 = i /\ i - 1 \in 0..Len(g)
      /\ i - 1 \in Nat
  OBVIOUS
<1>2. {j \in 1..Len(g) : j < i + 1 /\ IsPage(g[j]) /\ l \in g[j].of}
        = {j \in 1..Len(g) : j < i /\ IsPage(g[j]) /\ l \in g[j].of}
  BY <1>1
<1>3. Shown(g, l, i) = s
  BY <1>1, <1>2 DEF Shown, SeenBefore
<1>4. s \in 1..Len(g) \cup {0} /\ (s # 0 => s < i)
  BY <1>1, BeforeType DEF Shown
<1>5. Asked(g, l, i) = IF l \in g[i].of THEN i ELSE Asked(g, l, i - 1)
  <2>1. CASE l \in g[i].of
    <3> DEFINE q == Asked(g, l, i)
    <3>1. /\ q \in 1..Len(g) \cup {0} /\ (q # 0 => q < i + 1) /\ q # 0 /\ i <= q
      BY <1>1, <2>1, BeforeType DEF Asked
    <3> QED
      BY <1>1, <2>1, <3>1
  <2>2. CASE l \notin g[i].of
    <3>1. {j \in 1..Len(g) : j < i + 1 /\ ~IsPage(g[j]) /\ l \in g[j].of}
            = {j \in 1..Len(g) : j < i /\ ~IsPage(g[j]) /\ l \in g[j].of}
      BY <1>1, <2>2
    <3> QED
      BY <1>1, <2>2, <3>1 DEF Asked, ProbeBefore
  <2> QED
    BY <2>1, <2>2
<1> HIDE DEF s
<1>6. Unseen(g, l, i) = {k \in s + 1..i : g[k].last /\ g[k].run # g[s].run}
  BY <1>3 DEF Unseen
<1>7. U = {k \in s + 1..(i - 1) : g[k].last /\ g[k].run # g[s].run}
  BY DEF Unseen, s
<1>8. s # 0 /\ s \in Nat
  BY <1>4 DEF s
<1>9. Unseen(g, l, i) = IF g[i].last /\ g[i].run # g[s].run THEN U \cup {i} ELSE U
  BY <1>1, <1>4, <1>6, <1>7, <1>8
<1>10. IsFiniteSet(U) /\ i \notin U
  BY <1>1, UnseenFinite
<1> HIDE DEF U
<1>11. Cardinality(U \cup {i}) = Cardinality(U) + 1
  BY <1>10, FS_AddElement
<1> QED
  BY <1>3, <1>4, <1>5, <1>8, <1>9, <1>11 DEF s, U

\* A snapshot that tells what a log says of a listing up to a batch.
Tells(g, p, l, n) ==
  /\ p \in Snapshots /\ p # None
  /\ Core(p) = Said(g, l, n)
  /\ p.seen <=> p.misses = 0
  /\ p.scanned = TRUE
  /\ p.probe = Answer(g, l, n)

\* A snapshot made of a probe and a count of misses.
LEMMA SnapshotCore ==
  ASSUME NEW a \in Outcomes, NEW m \in Nat, NEW seen \in BOOLEAN, seen <=> m = 0, NEW price
  PROVE  Core(Snapshot(a, seen, m, TRUE, price)) = [verdict |-> Ruling(a, m), misses |-> m, price |-> price]
<1> DEFINE v == Evaluate(a, seen, m, TRUE, "recent")
<1>1. v = Ruling(a, m)
  <2>1. CASE a \in DOMAIN Settled
    BY <2>1 DEF Ruling, Evaluate
  <2>2. CASE a \notin DOMAIN Settled /\ m = 0
    <3>1. v = Inferred(seen, m, TRUE, "recent") /\ Ruling(a, m) = Inferred(m = 0, m, TRUE, "recent")
      BY <2>2 DEF Ruling, Evaluate
    <3>2. /\ Inferred(seen, m, TRUE, "recent") = Verdict("active", "observed", "high")
          /\ Inferred(m = 0, m, TRUE, "recent") = Verdict("active", "observed", "high")
      BY <2>2 DEF Inferred
    <3> QED
      BY <3>1, <3>2
  <2>3. CASE a \notin DOMAIN Settled /\ m # 0
    <3>1. v = Inferred(seen, m, TRUE, "recent") /\ Ruling(a, m) = Inferred(m = 0, m, TRUE, "recent")
      BY <2>3 DEF Ruling, Evaluate
    <3>2. Inferred(seen, m, TRUE, "recent") = Inferred(m = 0, m, TRUE, "recent")
      BY <2>3 DEF Inferred
    <3> QED
      BY <3>1, <3>2
  <2> QED
    BY <2>1, <2>2, <2>3
<1> HIDE DEF v
<1>2. Snapshot(a, seen, m, TRUE, price).verdict = v
  BY DEF Snapshot, v
<1>3. Snapshot(a, seen, m, TRUE, price).misses = m /\ Snapshot(a, seen, m, TRUE, price).price = price
  BY DEF Snapshot
<1> QED
  BY <1>1, <1>2, <1>3 DEF Core

\* A snapshot made of a sighting.
LEMMA SeenCore ==
  \A a \in Outcomes : \A price :
    Core(Snapshot(a, TRUE, 0, TRUE, price)) = [verdict |-> Ruling(a, 0), misses |-> 0, price |-> price]
<1> SUFFICES ASSUME NEW a \in Outcomes, NEW price
             PROVE  Core(Snapshot(a, TRUE, 0, TRUE, price))
                      = [verdict |-> Ruling(a, 0), misses |-> 0, price |-> price]
  OBVIOUS
<1>1. 0 \in Nat /\ TRUE \in BOOLEAN /\ (TRUE <=> 0 = 0)
  OBVIOUS
<1> QED
  BY <1>1, SnapshotCore, Zenon

\* The same of a listing that was missed.
LEMMA MissedCore ==
  \A a \in Outcomes : \A m \in Nat \ {0} : \A price :
    Core(Snapshot(a, FALSE, m, TRUE, price)) = [verdict |-> Ruling(a, m), misses |-> m, price |-> price]
<1> SUFFICES ASSUME NEW a \in Outcomes, NEW m \in Nat \ {0}, NEW price
             PROVE  Core(Snapshot(a, FALSE, m, TRUE, price))
                      = [verdict |-> Ruling(a, m), misses |-> m, price |-> price]
  OBVIOUS
<1>1. m \in Nat /\ FALSE \in BOOLEAN /\ (FALSE <=> m = 0)
  OBVIOUS
<1> QED
  BY <1>1, SnapshotCore, Zenon

\* The answer a log has is an outcome.
LEMMA AnswerType ==
  ASSUME NEW g \in Seq(Batches), NEW l, NEW n \in Nat
  PROVE  Answer(g, l, n) \in Outcomes
<1> DEFINE q == Asked(g, l, n)
<1>1. n + 1 \in Nat
  OBVIOUS
<1>2. q \in 1..Len(g) \cup {0}
  BY <1>1, BeforeType DEF Asked
<1> HIDE DEF q
<1>3. \A i \in 1..Len(g) : g[i] \in Batches
  OBVIOUS
<1>4. (IF q = 0 THEN "none" ELSE g[q].probe) \in Outcomes
  BY <1>2, <1>3 DEF Batches, Outcomes
<1> QED
  BY <1>4 DEF Answer, q

\* The batch after: what it says of a listing it names, of one it misses, and of the others.
LEMMA TellsOn ==
  ASSUME NEW g \in Seq(Batches), Ordered(g), NEW l, NEW i \in 1..Len(g),
         Shown(g, l, i - 1) # 0, NEW p, Tells(g, p, l, i - 1)
  PROVE  LET hit == g[i].last /\ g[i].run # g[Shown(g, l, i - 1)].run IN
         /\ l \in g[i].of =>
              Core(IF IsPage(g[i]) THEN Sighted(g[i], p) ELSE Probed(g[i], p)) = Said(g, l, i)
         /\ (l \notin g[i].of /\ hit) => Core(Missed(p)) = Said(g, l, i)
         /\ (l \notin g[i].of /\ ~hit) => Said(g, l, i) = Said(g, l, i - 1)
<1> DEFINE s == Shown(g, l, i - 1)
           hit == g[i].last /\ g[i].run # g[s].run
           m == Cardinality(Unseen(g, l, i - 1))
           a == Answer(g, l, i - 1)
           price == g[s].price
<1>1. i \in Nat /\ i - 1 \in Nat /\ i - 1 \in 0..Len(g) /\ i # 0 /\ g[i] \in Batches /\ Len(g) \in Nat
  OBVIOUS
<1>2. m \in Nat /\ a \in Outcomes
  BY <1>1, UnseenFinite, AnswerType
<1>3. Said(g, l, i - 1) = [verdict |-> Ruling(a, m), misses |-> m, price |-> price]
  BY DEF Said
<1>4. /\ p # None /\ p.verdict = Ruling(a, m) /\ p.misses = m /\ p.price = price
      /\ p.seen \in BOOLEAN /\ (p.seen <=> m = 0) /\ p.scanned = TRUE /\ p.probe = a
  <2>1. Core(p) = [verdict |-> Ruling(a, m), misses |-> m, price |-> price]
    BY <1>3 DEF Tells
  <2> HIDE DEF a, m, price
  <2>2. p.verdict = Ruling(a, m) /\ p.misses = m /\ p.price = price
    BY <2>1 DEF Core
  <2>3. p # None /\ p.seen \in BOOLEAN /\ p.scanned = TRUE /\ p.probe = a /\ (p.seen <=> p.misses = 0)
    BY DEF Tells, Snapshots, a
  <2> QED
    BY <2>2, <2>3
<1>5. CASE IsPage(g[i]) /\ l \in g[i].of
  <2>1. /\ Shown(g, l, i) = i /\ Asked(g, l, i) = Asked(g, l, i - 1)
        /\ Cardinality(Unseen(g, l, i)) = 0
    BY <1>5, ShownHere
  <2>2. Answer(g, l, i) = a
    BY <2>1 DEF Answer
  <2>3. Said(g, l, i) = [verdict |-> Ruling(a, 0), misses |-> 0, price |-> g[i].price]
    BY <2>1, <2>2 DEF Said
  <2>4. Sighted(g[i], p) = Snapshot(a, TRUE, 0, TRUE, g[i].price)
    BY <1>4 DEF Sighted
  <2> HIDE DEF a
  <2>5. Core(Sighted(g[i], p)) = Said(g, l, i)
    BY <1>2, <2>3, <2>4, SeenCore
  <2> QED
    BY <1>5, <2>5
<1>6. CASE ~(IsPage(g[i]) /\ l \in g[i].of)
  <2>1. /\ Shown(g, l, i) = s
        /\ Asked(g, l, i) = IF l \in g[i].of THEN i ELSE Asked(g, l, i - 1)
        /\ Cardinality(Unseen(g, l, i)) = IF hit THEN m + 1 ELSE m
    BY <1>6, ShownBefore
  <2>2. CASE l \in g[i].of
    <3>1. ~IsPage(g[i]) /\ ~g[i].last
      BY <1>6, <2>2 DEF Ordered
    <3>2. Answer(g, l, i) = g[i].probe /\ g[i].probe \in Outcomes
      BY <1>1, <2>1, <2>2 DEF Answer, Batches
    <3>3. Said(g, l, i) = [verdict |-> Ruling(g[i].probe, m), misses |-> m, price |-> price]
      BY <2>1, <3>1, <3>2 DEF Said
    <3>4. Probed(g[i], p) = Snapshot(g[i].probe, p.seen, m, TRUE, price)
      BY <1>4 DEF Probed
    <3> HIDE DEF a, m, price
    <3> DEFINE o == g[i].probe
    <3>5. Core(Snapshot(o, p.seen, m, TRUE, price))
            = [verdict |-> Ruling(o, m), misses |-> m, price |-> price]
      <4> HIDE DEF o
      <4>1. o \in Outcomes /\ m \in Nat /\ p.seen \in BOOLEAN /\ (p.seen <=> m = 0)
        BY <1>2, <1>4, <3>2 DEF o
      <4> QED
        BY <4>1, SnapshotCore, Zenon
    <3>6. Core(Probed(g[i], p)) = Said(g, l, i)
      BY <3>3, <3>4, <3>5
    <3> QED
      BY <2>2, <3>1, <3>6
  <2>3. CASE l \notin g[i].of /\ hit
    <3>1. Answer(g, l, i) = a
      BY <2>1, <2>3 DEF Answer
    <3>2. Said(g, l, i) = [verdict |-> Ruling(a, m + 1), misses |-> m + 1, price |-> price]
      BY <2>1, <2>3, <3>1 DEF Said
    <3>3. Missed(p) = Snapshot(a, FALSE, m + 1, TRUE, price)
      BY <1>4 DEF Missed
    <3> HIDE DEF a, m, price
    <3>4. m + 1 \in Nat \ {0}
      BY <1>2
    <3>5. Core(Missed(p)) = Said(g, l, i)
      BY <1>2, <3>2, <3>3, <3>4, MissedCore
    <3> QED
      BY <2>3, <3>5
  <2>4. CASE l \notin g[i].of /\ ~hit
    <3>1. Answer(g, l, i) = a
      BY <2>1, <2>4 DEF Answer
    <3>2. Said(g, l, i) = Said(g, l, i - 1)
      BY <2>1, <2>4, <3>1 DEF Said
    <3> QED
      BY <2>4, <3>2
  <2> QED
    BY <2>2, <2>3, <2>4
<1> QED
  BY <1>5, <1>6

\* The first batch that names a listing says what the page shows.
LEMMA TellsFirst ==
  ASSUME NEW g \in Seq(Batches), NEW l, NEW i \in 1..Len(g), IsPage(g[i]), l \in g[i].of,
         \A j \in 1..Len(g) : l \in g[j].of => i <= j
  PROVE  Core(Sighted(g[i], None)) = Said(g, l, i)
<1>1. i \in Nat /\ i + 1 \in Nat
  OBVIOUS
<1>2. Shown(g, l, i) = i /\ Cardinality(Unseen(g, l, i)) = 0
  BY ShownHere
<1>3. Asked(g, l, i) = 0
  <2> DEFINE q == Asked(g, l, i)
  <2>1. /\ q \in 1..Len(g) \cup {0}
        /\ q # 0 => q < i + 1 /\ ~IsPage(g[q]) /\ l \in g[q].of
    BY <1>1, BeforeType DEF Asked
  <2> HIDE DEF q
  <2>2. ~(q # 0)
    BY <1>1, <2>1
  <2> QED
    BY <2>2 DEF q
<1>4. Said(g, l, i) = [verdict |-> Ruling("none", 0), misses |-> 0, price |-> g[i].price]
  BY <1>2, <1>3 DEF Said, Answer
<1>5. Sighted(g[i], None) = Snapshot("none", TRUE, 0, TRUE, g[i].price)
  BY DEF Sighted
<1>6. "none" \in Outcomes
  BY DEF Outcomes
<1> QED
  BY <1>4, <1>5, <1>6, SeenCore

\* Where the verdict, the misses or the price differ, there is a row.
LEMMA DifferencesTell ==
  ASSUME NEW p, NEW c, p # None => Core(p) # Core(c)
  PROVE  Differences(p, c) # {}
<1>1. p # None => p.verdict # c.verdict \/ p.misses # c.misses \/ p.price # c.price
  BY DEF Core
<1>2. CASE p = None
  BY <1>2 DEF Differences
<1>3. CASE p # None /\ p.verdict # c.verdict
  <2>1. <<p.verdict, p.settled>> # <<c.verdict, c.settled>>
    BY <1>3
  <2>2. "state_transition" \in Differences(p, c)
    BY <1>3, <2>1 DEF Differences, Kinds
  <2> QED
    BY <2>2
<1>4. CASE p # None /\ p.misses # c.misses
  <2>1. "follow_up_miss_transition" \in Differences(p, c)
    BY <1>4 DEF Differences, Kinds
  <2> QED
    BY <2>1
<1>5. CASE p # None /\ p.price # c.price
  <2>1. "price_change" \in Differences(p, c)
    BY <1>5 DEF Differences, Kinds
  <2> QED
    BY <2>1
<1> QED
  BY <1>1, <1>2, <1>3, <1>4, <1>5

-----------------------------------------------------------------------------
(* The shape of the state.                                                 *)

\* A consumer at work holds a batch, derived rows of that batch alone, and knows its facts.
Holder(c) ==
  /\ taken[c] = 0 <=> stage[c] = "idle"
  /\ taken[c] # 0 => taken[c] \in Captured
  /\ (stage[c] = "facts" /\ ~lacking[c]) => facts[taken[c]] > 0
  /\ stage[c] \in {"changes", "settle"} => facts[taken[c]] > 0
  /\ \A r \in derived[c] : r.by = taken[c]
  /\ stage[c] \notin {"facts", "changes"} => derived[c] = {}

Shape ==
  /\ TypeOK
  /\ \A c \in Consumers : Holder(c)
  /\ Known \subseteq Captured
  /\ done \subseteq Known

\* The first states have the shape.
LEMMA InitShape == Init => Shape
<1> SUFFICES ASSUME Init PROVE Shape
  OBVIOUS
<1>1. log \in Seq(Batches) /\ Len(log) = 0 /\ MaxBatches \in Nat /\ MaxFaults \in Nat
  BY WarehouseAssumption DEF Init
<1>2. TypeOK
  <2>1. /\ facts \in [Numbers -> Nat] /\ faults \in 0..MaxFaults
        /\ stage \in [Consumers -> {"idle", "read", "facts", "changes", "settle"}]
        /\ taken \in [Consumers -> Numbers \cup {0}] /\ lacking \in [Consumers -> BOOLEAN]
        /\ derived \in [Consumers -> SUBSET Rows]
    BY <1>1 DEF Init
  <2>2. Len(log) <= MaxBatches
    BY <1>1
  <2>3. /\ done \subseteq Captured /\ ledger \subseteq Rows
        /\ repeated \in BOOLEAN /\ disordered \in BOOLEAN /\ overlapped \in BOOLEAN
    BY DEF Init
  <2> QED
    BY <1>1, <2>1, <2>2, <2>3 DEF TypeOK
<1>3. \A c \in Consumers : Holder(c)
  BY DEF Init, Holder
<1>4. Known = {}
  BY DEF Init, Known
<1> QED
  BY <1>2, <1>3, <1>4 DEF Shape, Init

\* What a publication adds: a batch at the end.
Published(b) ==
  /\ b \in Batches
  /\ Len(log) < MaxBatches
  /\ log' = Append(log, b)
  /\ UNCHANGED <<done, tables, consumer, faults, disordered, overlapped>>

\* Either capture publishes a batch.
LEMMA Publishes ==
  ASSUME TypeOK, CapturePage \/ CaptureProbe
  PROVE  \E b \in Batches : Published(b)
<1>1. ASSUME CapturePage
      PROVE  \E b \in Batches : Published(b)
  <2>1. PICK of \in SUBSET Listings \ {{}}, r \in RunsNow \cap Numbers, last \in BOOLEAN :
          \E p \in Priced[r] :
            Publish([run |-> r, of |-> of, price |-> p, last |-> last, probe |-> "none"])
    BY <1>1 DEF CapturePage
  <2>2. PICK p \in Priced[r] :
          Publish([run |-> r, of |-> of, price |-> p, last |-> last, probe |-> "none"])
    BY <2>1
  <2> DEFINE b == [run |-> r, of |-> of, price |-> p, last |-> last, probe |-> "none"]
  <2>3. p \in Prices /\ r \in Nat
    BY WarehouseAssumption DEF Numbers
  <2>4. b \in Batches
    BY <2>3 DEF Batches, Outcomes
  <2> QED
    BY <2>2, <2>4 DEF Published, Publish
<1>2. ASSUME CaptureProbe
      PROVE  \E b \in Batches : Published(b)
  <2>1. PICK l \in UNION {log[i].of : i \in Pages}, a \in Answers :
          Publish([run |-> 0, of |-> {l}, price |-> NoPrice, last |-> FALSE, probe |-> a])
    BY <1>2 DEF CaptureProbe
  <2> DEFINE b == [run |-> 0, of |-> {l}, price |-> NoPrice, last |-> FALSE, probe |-> a]
  <2>2. PICK i \in Pages : l \in log[i].of
    BY <2>1
  <2>3. log[i] \in Batches
    BY <2>2 DEF Pages, Captured, TypeOK
  <2>4. l \in Listings /\ a \in Outcomes
    BY <2>2, <2>3, ChangeAssumption DEF Batches
  <2>5. b \in Batches
    BY <2>4 DEF Batches
  <2> QED
    BY <2>1, <2>5 DEF Published, Publish
<1> QED
  BY <1>1, <1>2

\* The batches published stay as they are.
LEMMA LogGrows ==
  ASSUME TypeOK, NEW b, Published(b)
  PROVE  /\ log' \in Seq(Batches) /\ Len(log') = Len(log) + 1 /\ Len(log') <= MaxBatches
         /\ log'[Len(log) + 1] = b
         /\ \A i \in Captured : log'[i] = log[i]
         /\ Captured' = Captured \cup {Len(log) + 1} /\ Len(log) + 1 \notin Captured
<1>1. Len(log) \in Nat /\ MaxBatches \in Nat /\ log \in Seq(Batches)
  BY WarehouseAssumption DEF TypeOK
<1>2. log' \in Seq(Batches) /\ Len(log') = Len(log) + 1 /\ Len(log') <= MaxBatches
  BY <1>1 DEF Published
<1>3. log'[Len(log) + 1] = b /\ \A i \in Captured : log'[i] = log[i]
  BY <1>1 DEF Published, Captured
<1>4. Captured' = Captured \cup {Len(log) + 1} /\ Len(log) + 1 \notin Captured
  BY <1>1, <1>2 DEF Captured
<1> QED
  BY <1>2, <1>3, <1>4

-----------------------------------------------------------------------------
(* What each step of a consumer does, variable by variable.                *)

Same(d) == /\ stage'[d] = stage[d] /\ taken'[d] = taken[d]
           /\ lacking'[d] = lacking[d] /\ derived'[d] = derived[d]

\* A claim touches the claimant, the faults and the history alone.
LEMMA ClaimDoes ==
  ASSUME Shape, NEW c \in Consumers, NEW i \in Captured, Claim(c, i)
  PROVE  /\ stage[c] = "idle" /\ i \notin done
         /\ stage' = [stage EXCEPT ![c] = "read"] /\ taken' = [taken EXCEPT ![c] = i]
         /\ stage'[c] = "read" /\ taken'[c] = i
         /\ lacking' = lacking /\ derived' = derived
         /\ \A d \in Consumers \ {c} : Same(d)
         /\ faults' = IF i \in Held THEN faults - 1 ELSE faults
         /\ (i \in Held => faults > 0)
         /\ overlapped' = (overlapped \/ i \in Held)
         /\ UNCHANGED <<log, done, facts, ledger, repeated, disordered>>
BY DEF Claim, Goes, feed, tables, Shape, TypeOK, Same

\* A read leaves the tables alone.
LEMMA ReadDoes ==
  ASSUME Shape, NEW c \in Consumers, Read(c)
  PROVE  LET i == taken[c]
             D == Derived(log, Known, ledger, i)
         IN
         /\ stage[c] = "read" /\ i \in Captured
         /\ stage' = [stage EXCEPT ![c] = "facts"] /\ derived' = [derived EXCEPT ![c] = D]
         /\ lacking' = [lacking EXCEPT ![c] = facts[i] = 0]
         /\ stage'[c] = "facts" /\ derived'[c] = D /\ lacking'[c] = (facts[i] = 0)
         /\ taken' = taken
         /\ \A d \in Consumers \ {c} : Same(d)
         /\ disordered' = (disordered \/ ~InTurn(i))
         /\ UNCHANGED <<log, done, facts, ledger, repeated, faults, overlapped>>
<1> DEFINE D == Derived(log, Known, ledger, taken[c])
<1>1. /\ stage[c] = "read" /\ stage' = [stage EXCEPT ![c] = "facts"]
      /\ derived' = [derived EXCEPT ![c] = D]
      /\ lacking' = [lacking EXCEPT ![c] = facts[taken[c]] = 0]
      /\ disordered' = (disordered \/ ~InTurn(taken[c]))
      /\ UNCHANGED <<log, done, facts, ledger, repeated, taken, faults, overlapped>>
  BY DEF Read, Goes, feed, tables
<1> HIDE DEF D
<1>2. /\ stage'[c] = "facts" /\ derived'[c] = D /\ lacking'[c] = (facts[taken[c]] = 0)
      /\ \A d \in Consumers \ {c} : Same(d)
  BY <1>1 DEF Shape, TypeOK, Same
<1>3. taken[c] \in Captured
  BY <1>1 DEF Shape, Holder
<1> QED
  BY <1>1, <1>2, <1>3 DEF D

\* An insertion of facts adds the batch to those known.
LEMMA InsertFactsDoes ==
  ASSUME Shape, NEW c \in Consumers, InsertFacts(c)
  PROVE  LET i == taken[c]
             D == {r \in derived[c] : \A s \in ledger : Key(s) # Key(r)}
         IN
         /\ stage[c] = "facts" /\ i \in Captured /\ i \in Numbers
         /\ stage' = [stage EXCEPT ![c] = "changes"] /\ derived' = [derived EXCEPT ![c] = D]
         /\ stage'[c] = "changes" /\ derived'[c] = D
         /\ taken' = taken /\ lacking' = lacking
         /\ \A d \in Consumers \ {c} : Same(d)
         /\ facts' \in [Numbers -> Nat]
         /\ facts'[i] = (IF lacking[c] THEN facts[i] + 1 ELSE facts[i]) /\ facts'[i] > 0
         /\ \A j \in Numbers \ {i} : facts'[j] = facts[j]
         /\ Known' = Known \cup {i}
         /\ UNCHANGED <<log, done, ledger, repeated, faults, disordered, overlapped>>
<1> DEFINE i == taken[c]
           D == {r \in derived[c] : \A s \in ledger : Key(s) # Key(r)}
           n == IF lacking[c] THEN facts[i] + 1 ELSE facts[i]
<1>1. /\ stage[c] = "facts" /\ stage' = [stage EXCEPT ![c] = "changes"]
      /\ derived' = [derived EXCEPT ![c] = D]
      /\ facts' = [facts EXCEPT ![i] = n]
      /\ UNCHANGED <<log, done, ledger, repeated, taken, lacking, faults, disordered, overlapped>>
  BY DEF InsertFacts, Goes, feed
<1>2. i \in Captured /\ Holder(c) /\ i \in Numbers
  BY <1>1 DEF Shape, Holder, TypeOK
<1>3. n \in Nat /\ n > 0 /\ n >= facts[i]
  BY <1>1, <1>2 DEF Shape, TypeOK, Holder
<1> HIDE DEF D, n
<1>4. /\ derived'[c] = D /\ stage'[c] = "changes" /\ facts'[i] = n
      /\ \A d \in Consumers \ {c} : Same(d)
      /\ \A j \in Numbers \ {i} : facts'[j] = facts[j]
      /\ facts' \in [Numbers -> Nat]
  BY <1>1, <1>2, <1>3 DEF Shape, TypeOK, Same
<1>5. Known' = Known \cup {i}
  BY <1>2, <1>3, <1>4 DEF Known
<1> QED
  BY <1>1, <1>2, <1>3, <1>4, <1>5 DEF D, n

\* An insertion of change rows adds what was derived to the ledger.
LEMMA InsertChangesDoes ==
  ASSUME Shape, NEW c \in Consumers, InsertChanges(c)
  PROVE  /\ stage[c] = "changes" /\ taken[c] \in Captured
         /\ stage' = [stage EXCEPT ![c] = "settle"] /\ derived' = [derived EXCEPT ![c] = {}]
         /\ stage'[c] = "settle" /\ derived'[c] = {}
         /\ taken' = taken /\ lacking' = lacking
         /\ \A d \in Consumers \ {c} : Same(d)
         /\ ledger' = ledger \cup derived[c]
         /\ repeated' = (repeated \/ \E r \in derived[c], s \in ledger : Key(r) = Key(s))
         /\ UNCHANGED <<log, done, facts, faults, disordered, overlapped>>
<1>1. /\ stage[c] = "changes" /\ stage' = [stage EXCEPT ![c] = "settle"]
      /\ derived' = [derived EXCEPT ![c] = {}]
      /\ ledger' = ledger \cup derived[c]
      /\ repeated' = (repeated \/ \E r \in derived[c], s \in ledger : Key(r) = Key(s))
      /\ UNCHANGED <<log, done, facts, taken, lacking, faults, disordered, overlapped>>
  BY DEF InsertChanges, Goes, feed
<1>2. stage'[c] = "settle" /\ derived'[c] = {} /\ \A d \in Consumers \ {c} : Same(d)
  BY <1>1 DEF Shape, TypeOK, Same
<1>3. taken[c] \in Captured
  BY <1>1 DEF Shape, Holder
<1> QED
  BY <1>1, <1>2, <1>3

\* A consumer is through with a batch, or fails.
LEMMA LeavesDoes ==
  ASSUME Shape, NEW c \in Consumers, Settle(c) \/ Fault(c)
  PROVE  /\ stage[c] # "idle" /\ taken[c] \in Captured
         /\ stage' = [stage EXCEPT ![c] = "idle"] /\ taken' = [taken EXCEPT ![c] = 0]
         /\ lacking' = [lacking EXCEPT ![c] = FALSE] /\ derived' = [derived EXCEPT ![c] = {}]
         /\ stage'[c] = "idle" /\ taken'[c] = 0 /\ derived'[c] = {}
         /\ \A d \in Consumers \ {c} : Same(d)
         /\ faults' \in 0..MaxFaults
         /\ \/ done' = done
            \/ stage[c] = "settle" /\ done' = done \cup {taken[c]}
         /\ UNCHANGED <<log, facts, ledger, repeated, disordered, overlapped>>
<1>1. /\ stage[c] # "idle"
      /\ stage' = [stage EXCEPT ![c] = "idle"] /\ taken' = [taken EXCEPT ![c] = 0]
      /\ lacking' = [lacking EXCEPT ![c] = FALSE] /\ derived' = [derived EXCEPT ![c] = {}]
      /\ UNCHANGED <<log, facts, ledger, repeated, disordered, overlapped>>
      /\ \/ faults' = faults
         \/ faults > 0 /\ faults' = faults - 1
      /\ \/ done' = done
         \/ stage[c] = "settle" /\ done' = done \cup {taken[c]}
  BY DEF Settle, Fault, Leaves, Goes, feed, tables
<1>2. /\ stage'[c] = "idle" /\ taken'[c] = 0 /\ derived'[c] = {}
      /\ \A d \in Consumers \ {c} : Same(d)
  BY <1>1 DEF Shape, TypeOK, Same
<1>3. taken[c] \in Captured
  BY <1>1 DEF Shape, Holder
<1>4. faults' \in 0..MaxFaults
  BY <1>1, WarehouseAssumption DEF Shape, TypeOK
<1> QED
  BY <1>1, <1>2, <1>3, <1>4

\* Every step keeps the shape.
LEMMA StepShape == Shape /\ [Next]_vars => Shape'
<1> SUFFICES ASSUME Shape, [Next]_vars PROVE Shape'
  OBVIOUS
<1> USE DEF Shape
<1>0. Len(log) \in Nat /\ MaxBatches \in Nat /\ Captured \subseteq Numbers
      /\ \A i \in Captured : i # 0 /\ i \in Nat
  BY WarehouseAssumption DEF TypeOK, Captured, Numbers
<1>1. CASE CapturePage \/ CaptureProbe
  <2>1. PICK b \in Batches : Published(b)
    BY <1>1, Publishes
  <2>2. UNCHANGED <<done, tables, consumer, faults, disordered, overlapped>>
    BY <2>1 DEF Published
  <2>3. /\ log' \in Seq(Batches) /\ Len(log') <= MaxBatches /\ Captured \subseteq Captured'
    BY <2>1, LogGrows
  <2>4. TypeOK'
    BY <2>2, <2>3 DEF TypeOK, tables, consumer
  <2>5. ASSUME NEW c \in Consumers PROVE Holder(c)'
    BY <2>2, <2>3 DEF Holder, tables, consumer
  <2> QED
    BY <2>2, <2>3, <2>4, <2>5 DEF Known, tables
<1>2. ASSUME NEW c \in Consumers, NEW i \in Captured, Claim(c, i)
      PROVE  Shape'
  <2>1. /\ taken' = [taken EXCEPT ![c] = i] /\ stage' = [stage EXCEPT ![c] = "read"]
        /\ taken'[c] = i /\ stage'[c] = "read" /\ stage[c] = "idle"
        /\ \A d \in Consumers \ {c} : Same(d)
        /\ faults' = (IF i \in Held THEN faults - 1 ELSE faults) /\ (i \in Held => faults > 0)
        /\ overlapped' = (overlapped \/ i \in Held)
        /\ UNCHANGED <<log, done, facts, ledger, repeated, lacking, derived, disordered>>
    BY <1>2, ClaimDoes
  <2>2. TypeOK'
    <3>1. faults' \in 0..MaxFaults /\ overlapped' \in BOOLEAN
      BY <2>1, WarehouseAssumption DEF TypeOK
    <3>2. /\ taken' \in [Consumers -> Numbers \cup {0}]
          /\ stage' \in [Consumers -> {"idle", "read", "facts", "changes", "settle"}]
      BY <1>0, <2>1 DEF TypeOK
    <3> QED
      BY <2>1, <3>1, <3>2 DEF TypeOK, Captured
  <2>3. ASSUME NEW d \in Consumers PROVE Holder(d)'
    BY <1>0, <2>1 DEF Holder, Captured, Same
  <2> QED
    BY <2>1, <2>2, <2>3 DEF Known, Captured
<1>3. ASSUME NEW c \in Consumers, Read(c)
      PROVE  Shape'
  <2> DEFINE i == taken[c]
             D == Derived(log, Known, ledger, i)
  <2>1. /\ stage[c] = "read" /\ i \in Captured
        /\ stage' = [stage EXCEPT ![c] = "facts"] /\ derived' = [derived EXCEPT ![c] = D]
        /\ lacking' = [lacking EXCEPT ![c] = facts[i] = 0]
        /\ stage'[c] = "facts" /\ derived'[c] = D /\ lacking'[c] = (facts[i] = 0)
        /\ \A d \in Consumers \ {c} : Same(d)
        /\ disordered' = (disordered \/ ~InTurn(i))
        /\ UNCHANGED <<log, done, facts, ledger, repeated, taken, faults, overlapped>>
    BY <1>3, ReadDoes
  <2>2. \A r \in D : r \in Rows /\ r.by = i
    BY <1>0, <2>1, DerivedType DEF TypeOK, Captured
  <2> HIDE DEF D
  <2>3. TypeOK'
    <3>1. /\ derived' \in [Consumers -> SUBSET Rows]
          /\ stage' \in [Consumers -> {"idle", "read", "facts", "changes", "settle"}]
      BY <2>1, <2>2 DEF TypeOK
    <3>2. lacking' \in [Consumers -> BOOLEAN] /\ disordered' \in BOOLEAN
      BY <2>1 DEF TypeOK
    <3> QED
      BY <2>1, <3>1, <3>2 DEF TypeOK, Captured
  <2>4. ASSUME NEW d \in Consumers PROVE Holder(d)'
    <3>1. CASE d = c
      <4>1. facts[i] \in Nat
        BY <1>0, <2>1 DEF TypeOK
      <4>2. taken'[c] = i /\ i # 0 /\ i \in Captured' /\ facts'[i] = facts[i]
        BY <1>0, <2>1 DEF Captured
      <4>3. ~lacking'[c] => facts[i] # 0
        BY <2>1, Zenon
      <4>4. \A r \in derived'[c] : r.by = i
        BY <2>1, <2>2
      <4> QED
        BY <2>1, <3>1, <4>1, <4>2, <4>3, <4>4 DEF Holder
    <3>2. CASE d # c
      BY <2>1, <3>2 DEF Holder, Captured, Same
    <3> QED
      BY <3>1, <3>2
  <2> QED
    BY <2>1, <2>3, <2>4 DEF Known, Captured
<1>4. ASSUME NEW c \in Consumers, InsertFacts(c)
      PROVE  Shape'
  <2> DEFINE i == taken[c]
             D == {r \in derived[c] : \A s \in ledger : Key(s) # Key(r)}
  <2>1. /\ stage[c] = "facts" /\ i \in Captured /\ i \in Numbers
        /\ stage' = [stage EXCEPT ![c] = "changes"] /\ derived' = [derived EXCEPT ![c] = D]
        /\ stage'[c] = "changes" /\ derived'[c] = D /\ D \subseteq derived[c]
        /\ \A d \in Consumers \ {c} : Same(d)
        /\ facts' \in [Numbers -> Nat] /\ facts'[i] > 0
        /\ \A j \in Numbers \ {i} : facts'[j] = facts[j]
        /\ Known' = Known \cup {i}
        /\ UNCHANGED <<log, done, ledger, repeated, taken, lacking, faults, disordered, overlapped>>
    BY <1>4, InsertFactsDoes
  <2> HIDE DEF D
  <2>2. TypeOK'
    <3>1. /\ derived' \in [Consumers -> SUBSET Rows]
          /\ stage' \in [Consumers -> {"idle", "read", "facts", "changes", "settle"}]
      BY <2>1 DEF TypeOK
    <3> QED
      BY <2>1, <3>1 DEF TypeOK, Captured
  <2>3. ASSUME NEW d \in Consumers PROVE Holder(d)'
    <3>1. CASE d = c
      BY <2>1, <3>1 DEF Holder, Captured
    <3>2. CASE d # c
      BY <1>0, <2>1, <3>2 DEF Holder, Captured, Same
    <3> QED
      BY <3>1, <3>2
  <2> QED
    BY <2>1, <2>2, <2>3 DEF Captured
<1>5. ASSUME NEW c \in Consumers, InsertChanges(c)
      PROVE  Shape'
  <2>1. /\ stage[c] = "changes" /\ stage' = [stage EXCEPT ![c] = "settle"]
        /\ derived' = [derived EXCEPT ![c] = {}]
        /\ derived'[c] = {} /\ stage'[c] = "settle"
        /\ \A d \in Consumers \ {c} : Same(d)
        /\ ledger' = ledger \cup derived[c]
        /\ repeated' = (repeated \/ \E r \in derived[c], s \in ledger : Key(r) = Key(s))
        /\ UNCHANGED <<log, done, facts, taken, lacking, faults, disordered, overlapped>>
    BY <1>5, InsertChangesDoes
  <2>2. TypeOK'
    <3>1. /\ derived' \in [Consumers -> SUBSET Rows] /\ ledger' \subseteq Rows
          /\ stage' \in [Consumers -> {"idle", "read", "facts", "changes", "settle"}]
          /\ repeated' \in BOOLEAN
      BY <2>1 DEF TypeOK
    <3> QED
      BY <2>1, <3>1 DEF TypeOK, Captured
  <2>3. ASSUME NEW d \in Consumers PROVE Holder(d)'
    BY <2>1 DEF Holder, Captured, Same
  <2> QED
    BY <2>1, <2>2, <2>3 DEF Known, Captured
<1>6. ASSUME NEW c \in Consumers, Settle(c) \/ Fault(c)
      PROVE  Shape'
  <2>1. /\ stage' = [stage EXCEPT ![c] = "idle"] /\ taken' = [taken EXCEPT ![c] = 0]
        /\ lacking' = [lacking EXCEPT ![c] = FALSE] /\ derived' = [derived EXCEPT ![c] = {}]
        /\ derived'[c] = {} /\ stage'[c] = "idle" /\ taken'[c] = 0
        /\ \A d \in Consumers \ {c} : Same(d)
        /\ faults' \in 0..MaxFaults
        /\ \/ done' = done
           \/ stage[c] = "settle" /\ done' = done \cup {taken[c]}
        /\ UNCHANGED <<log, facts, ledger, repeated, disordered, overlapped>>
    BY <1>6, LeavesDoes
  <2>2. done' \subseteq Known
    BY <1>0, <2>1 DEF Holder, Known
  <2>3. TypeOK'
    <3>1. /\ derived' \in [Consumers -> SUBSET Rows] /\ lacking' \in [Consumers -> BOOLEAN]
          /\ stage' \in [Consumers -> {"idle", "read", "facts", "changes", "settle"}]
          /\ taken' \in [Consumers -> Numbers \cup {0}]
      BY <2>1 DEF TypeOK
    <3> QED
      BY <2>1, <2>2, <3>1 DEF TypeOK, Captured
  <2>4. ASSUME NEW d \in Consumers PROVE Holder(d)'
    BY <2>1 DEF Holder, Captured, Same
  <2> QED
    BY <2>1, <2>2, <2>3, <2>4 DEF Known, Captured
<1>7. CASE UNCHANGED vars
  BY <1>7 DEF vars, feed, tables, consumer, TypeOK, Holder, Known, Captured
<1> QED
  BY <1>1, <1>2, <1>3, <1>4, <1>5, <1>6, <1>7 DEF Next, Ingest

-----------------------------------------------------------------------------
(* The ingest is the consumer the outbox relies on.                        *)

\* Every step of the ingest is one the outbox relies on, or none.
LEMMA StepDelivers ==
  ASSUME Shape, [Next]_vars
  PROVE  [Outbox!DeliveryNext]_(Outbox!dvars)
<1> DEFINE owed == Captured \ done
<1>0. Len(log) \in Nat /\ Captured \subseteq Numbers
  BY WarehouseAssumption DEF Shape, TypeOK, Captured, Numbers
<1>1. CASE CapturePage \/ CaptureProbe
  <2>1. PICK b \in Batches : Published(b)
    BY <1>1, Publishes DEF Shape
  <2> DEFINE n == Len(log) + 1
  <2>2. Captured' = Captured \cup {n} /\ n \notin Captured /\ Len(log') <= MaxBatches
        /\ Len(log') = n
    BY <2>1, LogGrows DEF Shape
  <2>3. done' = done /\ Known' = Known
    BY <2>1 DEF Published, tables, Known
  <2>4. n \in Numbers /\ n \notin done
    BY <1>0, <2>2, WarehouseAssumption DEF Shape, TypeOK, Numbers
  <2> HIDE DEF n
  <2>5. owed' = owed \cup ({n} \ done)
    BY <2>2, <2>3, <2>4
  <2>6. Outbox!Owe({n})
    BY <2>3, <2>5 DEF Outbox!Owe
  <2> QED
    BY <2>4, <2>6 DEF Outbox!DeliveryNext
<1>2. ASSUME NEW c \in Consumers, InsertFacts(c)
      PROVE  Outbox!DeliveryNext
  <2>1. /\ taken[c] \in Captured /\ Known' = Known \cup {taken[c]}
        /\ UNCHANGED <<log, done>>
    BY <1>2, InsertFactsDoes
  <2>2. Outbox!TakeEffect(taken[c])
    BY <2>1 DEF Outbox!TakeEffect, Captured
  <2> QED
    BY <1>0, <2>1, <2>2 DEF Outbox!DeliveryNext
<1>3. ASSUME NEW c \in Consumers, Settle(c) \/ Fault(c)
      PROVE  [Outbox!DeliveryNext]_(Outbox!dvars)
  <2>1. /\ UNCHANGED <<log, facts>> /\ taken[c] \in Captured
        /\ \/ done' = done
           \/ stage[c] = "settle" /\ done' = done \cup {taken[c]}
    BY <1>3, LeavesDoes
  <2>2. Known' = Known /\ Captured' = Captured
    BY <2>1 DEF Known, Captured
  <2>3. CASE done' = done \/ taken[c] \in done
    <3>1. done' = done
      BY <2>1, <2>3
    <3> QED
      BY <2>2, <3>1 DEF Outbox!dvars
  <2>4. CASE stage[c] = "settle" /\ done' = done \cup {taken[c]} /\ taken[c] \notin done
    <3>1. taken[c] \in Known
      BY <1>0, <2>1, <2>4 DEF Shape, Holder, Known
    <3>2. Outbox!Settle(taken[c])
      BY <2>1, <2>2, <2>4, <3>1 DEF Outbox!Settle
    <3> QED
      BY <1>0, <2>1, <3>2 DEF Outbox!DeliveryNext
  <2> QED
    BY <2>1, <2>3, <2>4
<1>4. ASSUME NEW c \in Consumers, (\E i \in Captured : Claim(c, i)) \/ Read(c) \/ InsertChanges(c)
      PROVE  UNCHANGED Outbox!dvars
  <2>1. UNCHANGED <<log, done, facts>>
    BY <1>4 DEF Claim, Read, InsertChanges, feed, tables
  <2> QED
    BY <2>1 DEF Outbox!dvars, Known, Captured
<1>5. CASE UNCHANGED vars
  BY <1>5 DEF vars, feed, tables, Outbox!dvars, Known, Captured
<1> QED
  BY <1>1, <1>2, <1>3, <1>4, <1>5 DEF Next, Ingest

-----------------------------------------------------------------------------
(* Without an overlap, nothing is inserted twice.                          *)

\* A batch has one holder, who alone may insert or settle it; what he is about to insert is
\* not in the tables.
Apart ==
  ~overlapped =>
    /\ \A c, d \in Consumers : taken[c] = taken[d] /\ taken[c] # 0 => c = d
    /\ \A c \in Consumers : taken[c] \notin done
    /\ \A i \in Numbers : facts[i] <= 1
    /\ ~repeated
    /\ \A c \in Consumers : stage[c] = "facts" /\ lacking[c] => facts[taken[c]] = 0
    /\ \A c \in Consumers : stage[c] = "changes" =>
         \A r \in derived[c], s \in ledger : Key(r) # Key(s)

\* Rows of different batches have different identifiers.
LEMMA KeysDiffer ==
  ASSUME NEW r, NEW s, r.by # s.by
  PROVE  Key(r) # Key(s)
BY DEF Key

\* Every step keeps consumers and rows apart.
LEMMA StepApart ==
  ASSUME Shape, Apart, [Next]_vars
  PROVE  Apart'
<1> SUFFICES ASSUME ~overlapped' PROVE Apart'
  BY DEF Apart
<1>0. /\ Captured \subseteq Numbers
      /\ \A c \in Consumers : taken[c] \in Numbers \cup {0}
      /\ done \subseteq Numbers /\ \A i \in Captured : i # 0
  BY WarehouseAssumption DEF Shape, TypeOK, Captured, Numbers
<1>1. CASE CapturePage \/ CaptureProbe
  <2>1. UNCHANGED <<done, facts, ledger, repeated, stage, taken, lacking, derived, overlapped>>
    BY <1>1, Publishes DEF Shape, Published, tables, consumer
  <2> QED
    BY <2>1 DEF Apart
<1>2. ASSUME NEW c \in Consumers, NEW i \in Captured, Claim(c, i)
      PROVE  Apart'
  <2>1. /\ i \notin done /\ stage'[c] = "read" /\ taken'[c] = i
        /\ lacking' = lacking /\ derived' = derived
        /\ \A d \in Consumers \ {c} : Same(d)
        /\ overlapped' = (overlapped \/ i \in Held)
        /\ UNCHANGED <<log, done, facts, ledger, repeated, disordered>>
    BY <1>2, ClaimDoes
  <2>2. ~overlapped /\ \A d \in Consumers : taken[d] # i
    BY <1>0, <2>1 DEF Held
  <2>3. \A d, e \in Consumers : taken'[d] = taken'[e] /\ taken'[d] # 0 => d = e
    BY <2>1, <2>2 DEF Apart, Same
  <2>4. \A d \in Consumers : taken'[d] \notin done'
    BY <2>1, <2>2 DEF Apart, Same
  <2>5. \A d \in Consumers : stage'[d] = "facts" /\ lacking'[d] => facts'[taken'[d]] = 0
    BY <2>1, <2>2 DEF Apart, Same
  <2>6. \A d \in Consumers : stage'[d] = "changes" =>
          \A r \in derived'[d], s \in ledger' : Key(r) # Key(s)
    BY <2>1, <2>2 DEF Apart, Same
  <2> QED
    BY <2>1, <2>2, <2>3, <2>4, <2>5, <2>6 DEF Apart
<1>3. ASSUME NEW c \in Consumers, Read(c)
      PROVE  Apart'
  <2>1. /\ stage'[c] = "facts" /\ lacking'[c] = (facts[taken[c]] = 0)
        /\ taken' = taken
        /\ \A d \in Consumers \ {c} : Same(d)
        /\ UNCHANGED <<log, done, facts, ledger, repeated, faults, overlapped>>
    BY <1>3, ReadDoes
  <2>2. \A d \in Consumers : stage'[d] = "facts" /\ lacking'[d] => facts'[taken'[d]] = 0
    BY <2>1, Zenon DEF Apart, Same
  <2>3. \A d \in Consumers : stage'[d] = "changes" =>
          \A r \in derived'[d], s \in ledger' : Key(r) # Key(s)
    BY <2>1 DEF Apart, Same
  <2> QED
    BY <2>1, <2>2, <2>3 DEF Apart
<1>4. ASSUME NEW c \in Consumers, InsertFacts(c)
      PROVE  Apart'
  <2> DEFINE i == taken[c]
             D == {r \in derived[c] : \A s \in ledger : Key(s) # Key(r)}
  <2>1. /\ stage[c] = "facts" /\ i \in Captured /\ i \in Numbers
        /\ stage'[c] = "changes" /\ derived'[c] = D
        /\ taken' = taken /\ lacking' = lacking
        /\ \A d \in Consumers \ {c} : Same(d)
        /\ facts'[i] = (IF lacking[c] THEN facts[i] + 1 ELSE facts[i])
        /\ \A j \in Numbers \ {i} : facts'[j] = facts[j]
        /\ UNCHANGED <<log, done, ledger, repeated, faults, disordered, overlapped>>
    BY <1>4, InsertFactsDoes
  <2>2. \A r \in D, s \in ledger : Key(r) # Key(s)
    OBVIOUS
  <2> HIDE DEF D
  <2>3. \A d \in Consumers \ {c} : taken[d] # i
    BY <1>0, <2>1 DEF Apart
  <2>4. \A j \in Numbers : facts'[j] <= 1
    BY <1>0, <2>1 DEF Apart
  <2>5. \A d \in Consumers : stage'[d] = "facts" /\ lacking'[d] => facts'[taken'[d]] = 0
    <3> SUFFICES ASSUME NEW d \in Consumers, stage'[d] = "facts", lacking'[d]
                 PROVE  facts'[taken'[d]] = 0
      OBVIOUS
    <3>1. d # c /\ stage[d] = "facts" /\ lacking[d] /\ taken'[d] = taken[d]
      BY <2>1 DEF Same
    <3>2. taken[d] \in Numbers \ {i}
      BY <1>0, <2>3, <3>1 DEF Shape, Holder
    <3> QED
      BY <2>1, <3>1, <3>2 DEF Apart
  <2>6. \A d \in Consumers : stage'[d] = "changes" =>
          \A r \in derived'[d], s \in ledger' : Key(r) # Key(s)
    BY <2>1, <2>2 DEF Apart, Same
  <2> QED
    BY <2>1, <2>4, <2>5, <2>6 DEF Apart
<1>5. ASSUME NEW c \in Consumers, InsertChanges(c)
      PROVE  Apart'
  <2>1. /\ stage[c] = "changes" /\ taken[c] \in Captured
        /\ stage'[c] = "settle" /\ derived'[c] = {}
        /\ taken' = taken /\ lacking' = lacking
        /\ \A d \in Consumers \ {c} : Same(d)
        /\ ledger' = ledger \cup derived[c]
        /\ repeated' = (repeated \/ \E r \in derived[c], s \in ledger : Key(r) = Key(s))
        /\ UNCHANGED <<log, done, facts, faults, disordered, overlapped>>
    BY <1>5, InsertChangesDoes
  <2>2. ~repeated'
    BY <2>1 DEF Apart
  <2>3. ASSUME NEW d \in Consumers, stage'[d] = "changes", NEW r \in derived'[d], NEW s \in ledger'
        PROVE  Key(r) # Key(s)
    <3>1. d # c /\ stage[d] = "changes" /\ r \in derived[d]
      BY <2>1, <2>3 DEF Same
    <3>2. CASE s \in ledger
      BY <2>1, <3>1, <3>2 DEF Apart
    <3>3. CASE s \in derived[c]
      <4>1. r.by = taken[d] /\ s.by = taken[c] /\ taken[d] # taken[c]
        BY <1>0, <2>1, <3>1, <3>3 DEF Shape, Holder, Apart
      <4> QED
        BY <4>1, KeysDiffer
    <3> QED
      BY <2>1, <3>2, <3>3
  <2>4. \A d \in Consumers : stage'[d] = "facts" /\ lacking'[d] => facts'[taken'[d]] = 0
    BY <2>1 DEF Apart, Same
  <2> QED
    BY <2>1, <2>2, <2>3, <2>4 DEF Apart
<1>6. ASSUME NEW c \in Consumers, Settle(c) \/ Fault(c)
      PROVE  Apart'
  <2>1. /\ taken[c] \in Captured /\ stage'[c] = "idle" /\ taken'[c] = 0
        /\ \A d \in Consumers \ {c} : Same(d)
        /\ \/ done' = done
           \/ stage[c] = "settle" /\ done' = done \cup {taken[c]}
        /\ UNCHANGED <<log, facts, ledger, repeated, disordered, overlapped>>
    BY <1>6, LeavesDoes
  <2>2. \A d, e \in Consumers : taken'[d] = taken'[e] /\ taken'[d] # 0 => d = e
    BY <2>1 DEF Apart, Same
  <2>3. 0 \notin done'
    BY <1>0, <2>1, WarehouseAssumption DEF Numbers
  <2>4. \A d \in Consumers : taken'[d] \notin done'
    BY <1>0, <2>1, <2>3 DEF Apart, Same
  <2>5. \A d \in Consumers : stage'[d] = "facts" /\ lacking'[d] => facts'[taken'[d]] = 0
    BY <2>1 DEF Apart, Same
  <2>6. \A d \in Consumers : stage'[d] = "changes" =>
          \A r \in derived'[d], s \in ledger' : Key(r) # Key(s)
    BY <2>1 DEF Apart, Same
  <2> QED
    BY <2>1, <2>2, <2>4, <2>5, <2>6 DEF Apart
<1>7. CASE UNCHANGED vars
  BY <1>7 DEF vars, feed, tables, consumer, Apart
<1> QED
  BY <1>1, <1>2, <1>3, <1>4, <1>5, <1>6, <1>7 DEF Next, Ingest

-----------------------------------------------------------------------------
(* The opening row.                                                        *)

Named(l) == {i \in Captured : l \in log[i].of}
First(l) == Min(Named(l))
Opens(r, l) == Key(r) = <<First(l), l, "state_transition">> /\ r.previous = None

\* A row speaks of a listing named by then, and follows nothing if it is of the batch that
\* named it first.
Sequel(r) ==
  /\ Named(r.listing) # {} /\ First(r.listing) <= r.by
  /\ r.by = First(r.listing) => r.previous = None

\* The opening row is on its way through the hands of whoever holds its batch.
Opening ==
  /\ \A r \in ledger : Sequel(r)
  /\ \A c \in Consumers : \A r \in derived[c] : Sequel(r)
  /\ \A l \in Listings : Named(l) # {} =>
       /\ First(l) \in done => \E r \in ledger : Opens(r, l)
       /\ \A c \in Consumers : taken[c] = First(l) =>
            /\ stage[c] = "facts" => \E r \in derived[c] : Opens(r, l)
            /\ stage[c] = "changes" => \E r \in derived[c] \cup ledger : Opens(r, l)
            /\ stage[c] = "settle" => \E r \in ledger : Opens(r, l)

\* The first batch that names a listing is one that does, and none before it.
LEMMA FirstType ==
  ASSUME Shape, NEW l, Named(l) # {}
  PROVE  First(l) \in Named(l) /\ First(l) \in Captured /\ \A i \in Named(l) : First(l) <= i
<1>1. Named(l) \subseteq Nat
  BY DEF Named, Captured
<1> QED
  BY <1>1, LeastOfNats DEF First, Named

\* A publication names no listing earlier than it was named.
LEMMA FirstStays ==
  ASSUME Shape, NEW b \in Batches, Published(b), NEW l, Named(l) # {}
  PROVE  Named(l)' # {} /\ First(l)' = First(l)
<1> DEFINE n == Len(log) + 1
           S == Named(l)
           T == Named(l)'
<1>1. /\ \A i \in Captured : log'[i] = log[i]
      /\ Captured' = Captured \cup {n} /\ n \notin Captured
      /\ Len(log) \in Nat /\ \A i \in Captured : i < n
  BY LogGrows DEF Shape, TypeOK, Captured
<1>2. S \subseteq T /\ T \subseteq S \cup {n} /\ S \subseteq Captured
  BY <1>1 DEF Named
<1>3. /\ S \subseteq Nat /\ T \subseteq Nat
      /\ Min(S) \in S /\ (\A y \in S : Min(S) <= y)
      /\ Min(T) \in T /\ (\A y \in T : Min(T) <= y)
  <2>1. S \subseteq Nat /\ T \subseteq Nat /\ T # {}
    BY <1>1, <1>2 DEF Captured
  <2> QED
    BY <2>1, LeastOfNats
<1> HIDE DEF S, T, n
<1>4. Min(S) \in Nat /\ Min(T) \in Nat /\ Min(T) <= Min(S)
  BY <1>2, <1>3
<1>5. Min(T) # n
  BY <1>1, <1>2, <1>3, <1>4 DEF n
<1>6. Min(T) = Min(S)
  BY <1>2, <1>3, <1>4, <1>5
<1> QED
  BY <1>2, <1>3, <1>6 DEF First, S, T

\* Nothing is known of a listing before the first batch that names it.
LEMMA NothingBefore ==
  ASSUME Shape, Opening, NEW l \in Listings, Named(l) # {}, NEW t \in Nat, t <= First(l)
  PROVE  Previous(log, Known, ledger, l, t) = None /\ SeenBefore(log, Known, l, t) = 0
<1>1. Known \in SUBSET (1..Len(log)) /\ log \in Seq(Batches) /\ First(l) \in Nat
  BY FirstType DEF Shape, TypeOK, Captured
<1>2. \A i \in Known : l \in log[i].of => ~(i < t)
  <2> SUFFICES ASSUME NEW i \in Known, l \in log[i].of, i < t PROVE FALSE
    OBVIOUS
  <2>1. i \in Named(l) /\ i \in Nat
    BY <1>1 DEF Named, Captured
  <2> QED
    BY <1>1, <2>1, FirstType
<1>3. SeenBefore(log, Known, l, t) = 0 /\ ProbeBefore(log, Known, l, t) = 0
  <2> DEFINE s == SeenBefore(log, Known, l, t)
             q == ProbeBefore(log, Known, l, t)
  <2>1. /\ s \in Known \cup {0} /\ q \in Known \cup {0}
        /\ s # 0 => s < t /\ IsPage(log[s]) /\ l \in log[s].of
        /\ q # 0 => q < t /\ ~IsPage(log[q]) /\ l \in log[q].of
    BY <1>1, BeforeType
  <2> HIDE DEF s, q
  <2>2. s = 0 /\ q = 0
    BY <1>2, <2>1
  <2> QED
    BY <2>2 DEF s, q
<1>4. ChangesBefore(ledger, l, t) = {}
  <2> SUFFICES ASSUME NEW r \in ledger, r.listing = l, r.by < t PROVE FALSE
    BY DEF ChangesBefore
  <2>1. First(l) <= r.by /\ r.by \in Nat
    BY DEF Opening, Sequel, Shape, TypeOK, Rows
  <2> QED
    BY <1>1, <2>1
<1> QED
  BY <1>3, <1>4 DEF Previous

\* The rows a batch derives are sequels, and the first batch of a listing derives its opening row.
LEMMA ReadOpens ==
  ASSUME Shape, Opening, NEW i \in Captured
  PROVE  LET D == Derived(log, Known, ledger, i) IN
         /\ \A r \in D : Sequel(r)
         /\ \A l \in Listings : (Named(l) # {} /\ First(l) = i) => \E r \in D : Opens(r, l)
<1> DEFINE D == Derived(log, Known, ledger, i)
<1>1. /\ Known \in SUBSET (1..Len(log)) /\ log \in Seq(Batches) /\ i \in 1..Len(log) /\ i \in Nat
      /\ log[i] \in Batches /\ log[i].of \subseteq Listings /\ ledger \in SUBSET Rows
  <2>1. Known \in SUBSET (1..Len(log)) /\ log \in Seq(Batches) /\ i \in 1..Len(log) /\ i \in Nat
    BY DEF Shape, TypeOK, Captured
  <2>2. log[i] \in Batches /\ ledger \in SUBSET Rows
    BY <2>1 DEF Shape, TypeOK
  <2> QED
    BY <2>1, <2>2 DEF Batches
<1>2. ASSUME NEW r \in D
      PROVE  Sequel(r)
  <2> DEFINE l == r.listing
  <2>1. /\ r \in Rows /\ r.by = i /\ r.previous = Previous(log, Known, ledger, l, i)
        /\ l \in log[i].of \/ l \in Missing(log, Known, i)
    BY <1>1, DerivedType DEF Before
  <2>2. l \in Listings
    BY <2>1 DEF Rows
  <2>3. CASE l \in log[i].of
    <3>1. i \in Named(l)
      BY <2>3 DEF Named
    <3>2. First(l) <= i /\ First(l) \in Nat
      BY <3>1, FirstType DEF Captured
    <3>3. i = First(l) => r.previous = None
      BY <1>1, <2>1, <2>2, <3>1, <3>2, NothingBefore
    <3> QED
      BY <2>1, <3>1, <3>2, <3>3 DEF Sequel
  <2>4. CASE l \in Missing(log, Known, i)
    <3> DEFINE j == SeenBefore(log, Known, l, i)
    <3>1. j # 0
      BY <2>4 DEF Missing
    <3>2. j \in Known \cup {0} /\ (j # 0 => j < i /\ IsPage(log[j]) /\ l \in log[j].of)
      BY <1>1, BeforeType
    <3> HIDE DEF j
    <3>3. j \in Named(l) /\ j \in Nat
      BY <1>1, <3>1, <3>2 DEF Named, Captured
    <3>4. First(l) <= j /\ First(l) \in Nat
      BY <3>3, FirstType DEF Captured
    <3>5. First(l) < i
      BY <1>1, <3>1, <3>2, <3>3, <3>4
    <3> QED
      BY <1>1, <2>1, <3>3, <3>4, <3>5 DEF Sequel
  <2> QED
    BY <2>1, <2>3, <2>4
<1>3. ASSUME NEW l \in Listings, Named(l) # {}, First(l) = i
      PROVE  \E r \in D : Opens(r, l)
  <2>1. l \in log[i].of
    BY <1>3, FirstType DEF Named
  <2>2. Before(log, Known, ledger, i, l) = None
    BY <1>1, <1>3, NothingBefore DEF Before
  <2> DEFINE c == Told(log, Known, ledger, i, l)
             r == [by |-> i, listing |-> l, kind |-> "state_transition", previous |-> None,
                   current |-> c]
  <2>3. r \in Changes(i, l, None, c)
    BY DEF Changes, Differences
  <2>4. r \in D
    BY <2>1, <2>2, <2>3, DerivedRow
  <2>5. Opens(r, l)
    BY <1>3 DEF Opens, Key
  <2> QED
    BY <2>4, <2>5
<1> QED
  BY <1>2, <1>3

\* Every step keeps the opening row in hand or in the ledger.
LEMMA StepOpening ==
  ASSUME Shape, Shape', Opening, [Next]_vars
  PROVE  Opening'
<1>1. CASE CapturePage \/ CaptureProbe
  <2>1. PICK b \in Batches : Published(b)
    BY <1>1, Publishes DEF Shape
  <2>2. UNCHANGED <<done, ledger, stage, taken, derived>>
    BY <2>1 DEF Published, tables, consumer
  <2>3. \A l : Named(l) # {} => Named(l)' # {} /\ First(l)' = First(l)
    BY <2>1, FirstStays
  <2>4. \A r : Sequel(r) => Sequel(r)'
    BY <2>3 DEF Sequel
  <2>5. ASSUME NEW l \in Listings, Named(l) = {}, Named(l)' # {}
        PROVE  First(l)' \notin done' /\ \A c \in Consumers : taken'[c] # First(l)'
    <3>1. First(l)' \in Named(l)'
      <4>1. Named(l)' \subseteq Nat
        BY DEF Named, Captured
      <4> QED
        BY <2>5, <4>1, LeastOfNats DEF First
    <3>2. \A i \in Captured : log'[i] = log[i]
      BY <2>1, LogGrows DEF Shape
    <3>3. First(l)' \notin Captured
      BY <2>5, <3>1, <3>2 DEF Named
    <3>4. First(l)' # 0
      BY <3>1 DEF Named, Captured
    <3> QED
      BY <2>2, <3>3, <3>4 DEF Shape, Holder
  <2>6. ASSUME NEW l \in Listings, Named(l)' # {}
        PROVE  /\ First(l)' \in done' => \E r \in ledger' : Opens(r, l)'
               /\ \A c \in Consumers : taken'[c] = First(l)' =>
                    /\ stage'[c] = "facts" => \E r \in derived'[c] : Opens(r, l)'
                    /\ stage'[c] = "changes" => \E r \in derived'[c] \cup ledger' : Opens(r, l)'
                    /\ stage'[c] = "settle" => \E r \in ledger' : Opens(r, l)'
    <3>1. CASE Named(l) = {}
      BY <2>5, <2>6, <3>1
    <3>2. CASE Named(l) # {}
      <4>1. First(l)' = First(l) /\ \A r : Opens(r, l)' <=> Opens(r, l)
        BY <2>3, <3>2 DEF Opens
      <4> QED
        BY <2>2, <3>2, <4>1 DEF Opening
    <3> QED
      BY <3>1, <3>2
  <2> QED
    BY <2>2, <2>4, <2>6 DEF Opening
<1>2. ASSUME log' = log
      PROVE  /\ \A l : Named(l)' = Named(l) /\ First(l)' = First(l)
             /\ \A r : (Sequel(r)' <=> Sequel(r)) /\ \A l : Opens(r, l)' <=> Opens(r, l)
  <2>1. \A l : Named(l)' = Named(l)
    BY <1>2 DEF Named, Captured
  <2>2. \A l : First(l)' = First(l)
    BY <2>1 DEF First
  <2> QED
    BY <2>1, <2>2 DEF Sequel, Opens
<1>3. ASSUME NEW c \in Consumers, NEW i \in Captured, Claim(c, i)
      PROVE  Opening'
  <2>1. /\ stage'[c] = "read" /\ derived' = derived
        /\ \A d \in Consumers \ {c} : Same(d)
        /\ UNCHANGED <<log, done, ledger>>
    BY <1>3, ClaimDoes
  <2> QED
    BY <1>2, <2>1 DEF Opening, Same
<1>4. ASSUME NEW c \in Consumers, Read(c)
      PROVE  Opening'
  <2> DEFINE D == Derived(log, Known, ledger, taken[c])
  <2>1. /\ taken[c] \in Captured /\ stage'[c] = "facts" /\ derived'[c] = D /\ taken' = taken
        /\ \A d \in Consumers \ {c} : Same(d)
        /\ UNCHANGED <<log, done, ledger>>
    BY <1>4, ReadDoes
  <2>2. /\ \A r \in D : Sequel(r)
        /\ \A l \in Listings : (Named(l) # {} /\ First(l) = taken[c]) => \E r \in D : Opens(r, l)
    BY <2>1, ReadOpens
  <2> HIDE DEF D
  <2> QED
    BY <1>2, <2>1, <2>2 DEF Opening, Same
<1>5. ASSUME NEW c \in Consumers, InsertFacts(c)
      PROVE  Opening'
  <2> DEFINE D == {r \in derived[c] : \A s \in ledger : Key(s) # Key(r)}
  <2>1. /\ stage[c] = "facts" /\ stage'[c] = "changes" /\ derived'[c] = D /\ taken' = taken
        /\ \A d \in Consumers \ {c} : Same(d)
        /\ UNCHANGED <<log, done, ledger>>
    BY <1>5, InsertFactsDoes
  <2>2. ASSUME NEW l \in Listings, Named(l) # {}, taken[c] = First(l)
        PROVE  \E r \in D \cup ledger : Opens(r, l)
    <3>1. PICK r \in derived[c] : Opens(r, l)
      BY <2>1, <2>2 DEF Opening
    <3>2. CASE r \in D
      BY <3>1, <3>2
    <3>3. CASE r \notin D
      <4>1. PICK s \in ledger : Key(s) = Key(r)
        BY <3>3
      <4>2. s.by = First(l) /\ s.listing = l
        BY <3>1, <4>1 DEF Opens, Key
      <4>3. s.previous = None
        BY <4>2 DEF Opening, Sequel
      <4> QED
        BY <3>1, <4>1, <4>3 DEF Opens
    <3> QED
      BY <3>2, <3>3
  <2>3. D \subseteq derived[c]
    OBVIOUS
  <2> HIDE DEF D
  <2> QED
    BY <1>2, <2>1, <2>2, <2>3 DEF Opening, Same
<1>6. ASSUME NEW c \in Consumers, InsertChanges(c)
      PROVE  Opening'
  <2>1. /\ stage[c] = "changes" /\ stage'[c] = "settle" /\ derived'[c] = {} /\ taken' = taken
        /\ \A d \in Consumers \ {c} : Same(d)
        /\ ledger' = ledger \cup derived[c]
        /\ UNCHANGED <<log, done>>
    BY <1>6, InsertChangesDoes
  <2> QED
    BY <1>2, <2>1 DEF Opening, Same
<1>7. ASSUME NEW c \in Consumers, Settle(c) \/ Fault(c)
      PROVE  Opening'
  <2>1. /\ stage'[c] = "idle" /\ derived'[c] = {}
        /\ \A d \in Consumers \ {c} : Same(d)
        /\ \/ done' = done
           \/ stage[c] = "settle" /\ done' = done \cup {taken[c]}
        /\ UNCHANGED <<log, ledger>>
    BY <1>7, LeavesDoes
  <2> QED
    BY <1>2, <2>1 DEF Opening, Same
<1>8. CASE UNCHANGED vars
  <2>1. UNCHANGED <<log, done, ledger, stage, taken, derived>>
    BY <1>8 DEF vars, feed, tables, consumer
  <2> QED
    BY <1>2, <2>1 DEF Opening
<1> QED
  BY <1>1, <1>3, <1>4, <1>5, <1>6, <1>7, <1>8 DEF Next, Ingest

-----------------------------------------------------------------------------
(* The ledger tells the truth.                                             *)

LogFit == Ordered(log)

Quiet == ~disordered /\ ~overlapped

\* Batches are taken up in the order of their times: the one at hand comes after all settled.
InOrder ==
  /\ \A c \in Consumers : stage[c] \in {"facts", "changes", "settle"} => 1..(taken[c] - 1) \subseteq done
  /\ \A i \in Known : 1..(i - 1) \subseteq done

\* A row tells the truth, and what was the truth before.
TrueRow(r) ==
  LET l == r.listing IN
  /\ r.by \in Captured /\ Named(l) # {} /\ First(l) <= r.by
  /\ Core(r.current) = Truth(l, r.by)
  /\ First(l) = r.by => r.previous = None
  /\ First(l) # r.by => r.previous # None /\ Core(r.previous) = Truth(l, r.by - 1)

\* A batch owes a row to a listing it is the first to name, or whose truth it changes.
Due(l, i) ==
  /\ Named(l) # {} /\ First(l) <= i
  /\ First(l) = i \/ Truth(l, i) # Truth(l, i - 1)
Has(S, l, i) == \E r \in S : r.listing = l /\ r.by = i

\* What is owed is in the ledger of a settled batch, or on its way there.
Recorded ==
  \A l \in Listings :
    /\ \A i \in done : Due(l, i) => Has(ledger, l, i)
    /\ \A c \in Consumers : Due(l, taken[c]) =>
         /\ stage[c] = "facts" => Has(derived[c], l, taken[c])
         /\ stage[c] = "changes" => Has(derived[c] \cup ledger, l, taken[c])
         /\ stage[c] = "settle" => Has(ledger, l, taken[c])

TrueLedger ==
  Quiet =>
    /\ InOrder
    /\ \A r \in ledger : TrueRow(r) /\ r.by \in Known
    /\ \A c \in Consumers : \A r \in derived[c] : TrueRow(r)
    /\ Recorded

\* A listing is first named by a page, and shown from then on.
LEMMA FirstShown ==
  ASSUME Shape, LogFit, NEW l, Named(l) # {}, NEW n \in Captured, First(l) <= n
  PROVE  /\ First(l) \in Captured /\ l \in log[First(l)].of /\ IsPage(log[First(l)])
         /\ Shown(log, l, n) # 0
         /\ \A j \in Captured : l \in log[j].of => First(l) <= j
<1> DEFINE f == First(l)
<1>1. f \in Captured /\ l \in log[f].of /\ f \in Nat /\ \A j \in Captured : l \in log[j].of => f <= j
  BY FirstType DEF Named, Captured
<1>2. n \in Nat /\ n + 1 \in Nat /\ log \in Seq(Batches) /\ Captured = 1..Len(log) /\ Len(log) \in Nat
  BY DEF Captured, Shape, TypeOK
<1> HIDE DEF f
<1>3. IsPage(log[f])
  <2> SUFFICES ASSUME ~IsPage(log[f]) PROVE FALSE
    OBVIOUS
  <2>1. PICK j \in 1..(f - 1) : l \in log[j].of
    BY <1>1, <1>2 DEF LogFit, Ordered
  <2>2. j \in Captured /\ j < f /\ j \in Nat
    BY <1>1, <1>2
  <2> QED
    BY <1>1, <2>1, <2>2
<1>4. f < n + 1
  BY <1>1, <1>2 DEF f
<1>5. Shown(log, l, n) # 0
  BY <1>1, <1>2, <1>3, <1>4, BeforeType DEF Shown
<1> QED
  BY <1>1, <1>3, <1>5 DEF f

\* A publication keeps the log in order.
LEMMA StepOrdered ==
  ASSUME Shape, LogFit, [Next]_vars
  PROVE  LogFit'
<1> DEFINE n == Len(log) + 1
<1>0. /\ Len(log) \in Nat /\ n \in Nat /\ log \in Seq(Batches) /\ Pages \subseteq Captured
      /\ Captured = 1..Len(log)
  BY DEF Shape, TypeOK, Captured, Pages
<1>1. ASSUME NEW b \in Batches, Published(b),
             ~IsPage(b) => (~b.last /\ \A l \in b.of : \E j \in Pages : l \in log[j].of),
             IsPage(b) => \A i \in Pages : log[i].run <= b.run
      PROVE  LogFit'
  <2>1. /\ Len(log') = n /\ log'[n] = b
        /\ \A i \in 1..Len(log) : log'[i] = log[i]
    BY <1>1, LogGrows DEF Shape, Captured
  <2>2. ASSUME NEW i \in 1..n, ~IsPage(log'[i])
        PROVE  ~log'[i].last /\ \A l \in log'[i].of : \E j \in 1..(i - 1) : IsPage(log'[j]) /\ l \in log'[j].of
    <3>1. CASE i = n
      BY <1>0, <1>1, <2>1, <2>2, <3>1 DEF Pages
    <3>2. CASE i # n
      <4>1. i \in 1..Len(log)
        BY <1>0, <3>2
      <4>2. ~log[i].last /\ \A l \in log[i].of : \E j \in 1..(i - 1) : IsPage(log[j]) /\ l \in log[j].of
        BY <2>1, <2>2, <4>1 DEF LogFit, Ordered
      <4>3. \A j \in 1..(i - 1) : j \in 1..Len(log)
        BY <1>0, <4>1
      <4> QED
        BY <2>1, <4>1, <4>2, <4>3
    <3> QED
      BY <3>1, <3>2
  <2>3. ASSUME NEW i \in 1..n, NEW j \in 1..n, i <= j, IsPage(log'[i]), IsPage(log'[j])
        PROVE  log'[i].run <= log'[j].run
    <3>1. CASE j # n
      <4>1. i \in 1..Len(log) /\ j \in 1..Len(log)
        BY <1>0, <2>3, <3>1
      <4> QED
        BY <2>1, <2>3, <4>1 DEF LogFit, Ordered
    <3>2. CASE j = n /\ i # n
      <4>1. i \in Pages
        BY <1>0, <2>1, <2>3, <3>2 DEF Pages
      <4> QED
        BY <1>0, <1>1, <2>1, <2>3, <3>2, <4>1
    <3>3. CASE j = n /\ i = n
      <4>1. b.run \in Nat
        BY DEF Batches
      <4> QED
        BY <2>1, <3>3, <4>1
    <3> QED
      BY <3>1, <3>2, <3>3
  <2> QED
    BY <2>1, <2>2, <2>3 DEF LogFit, Ordered
<1>2. CASE CapturePage
  <2>1. PICK of \in SUBSET Listings \ {{}}, r \in RunsNow \cap Numbers, last \in BOOLEAN :
          \E p \in Priced[r] :
            Publish([run |-> r, of |-> of, price |-> p, last |-> last, probe |-> "none"])
    BY <1>2 DEF CapturePage
  <2>2. PICK p \in Priced[r] :
          Publish([run |-> r, of |-> of, price |-> p, last |-> last, probe |-> "none"])
    BY <2>1
  <2> DEFINE b == [run |-> r, of |-> of, price |-> p, last |-> last, probe |-> "none"]
  <2>3. b \in Batches
    <3>1. p \in Prices /\ r \in Nat
      BY WarehouseAssumption DEF Numbers
    <3> QED
      BY <3>1 DEF Batches, Outcomes
  <2>4. Published(b) /\ IsPage(b) /\ b.run = r
    BY <2>2, <2>3 DEF Published, Publish, IsPage
  <2>5. ASSUME NEW i \in Pages PROVE log[i].run <= r
    <3> DEFINE m == Max(Pages)
    <3>1. /\ Pages \subseteq Nat /\ Pages # {} /\ \A x \in Pages : x <= Len(log)
      BY <1>0, <2>5
    <3>2. m \in Pages /\ i <= m
      BY <1>0, <3>1, <2>5, GreatestOfNats
    <3> HIDE DEF m
    <3>3. log[i].run <= log[m].run
      BY <1>0, <3>2, <2>5 DEF LogFit, Ordered, Pages
    <3>4. r = log[m].run + 1 \/ r = log[m].run
      BY <2>5 DEF RunsNow, m
    <3>5. log[i].run \in Nat /\ log[m].run \in Nat
      <4>1. log[i] \in Batches /\ log[m] \in Batches
        BY <1>0, <2>5, <3>2
      <4> QED
        BY <4>1 DEF Batches
    <3> QED
      BY <3>3, <3>4, <3>5
  <2> HIDE DEF b
  <2> QED
    BY <1>1, <2>3, <2>4, <2>5
<1>3. CASE CaptureProbe
  <2>1. PICK l \in UNION {log[i].of : i \in Pages}, a \in Answers :
          Publish([run |-> 0, of |-> {l}, price |-> NoPrice, last |-> FALSE, probe |-> a])
    BY <1>3 DEF CaptureProbe
  <2> DEFINE b == [run |-> 0, of |-> {l}, price |-> NoPrice, last |-> FALSE, probe |-> a]
  <2>2. PICK i \in Pages : l \in log[i].of
    BY <2>1
  <2>3. log[i] \in Batches
    BY <1>0, <2>2
  <2>4. l \in Listings /\ a \in Outcomes /\ a # "none"
    BY <2>2, <2>3, ChangeAssumption DEF Batches
  <2>5. b \in Batches
    BY <2>4 DEF Batches
  <2>6. Published(b) /\ ~IsPage(b) /\ b.last = FALSE /\ b.of = {l}
    BY <2>1, <2>4, <2>5 DEF Published, Publish, IsPage
  <2> HIDE DEF b
  <2> QED
    BY <1>1, <2>2, <2>5, <2>6
<1>4. CASE log' = log
  BY <1>4 DEF LogFit, Ordered
<1>5. ASSUME NEW c \in Consumers, Ingest(c)
      PROVE  log' = log
  BY <1>5 DEF Ingest, Claim, Read, InsertFacts, InsertChanges, Settle, Fault, feed
<1>6. CASE UNCHANGED vars
  BY <1>4, <1>6 DEF vars, feed
<1> QED
  BY <1>2, <1>3, <1>4, <1>5, <1>6 DEF Next

\* A publication changes no truth.
LEMMA TruthStays ==
  ASSUME Shape, LogFit, NEW b \in Batches, Published(b), NEW l, Named(l) # {},
         NEW n \in Captured, First(l) <= n
  PROVE  Truth(l, n)' = Truth(l, n)
<1>1. log \in Seq(Batches) /\ n \in 1..Len(log) /\ Shown(log, l, n) # 0 /\ log' = Append(log, b)
  BY FirstShown DEF Shape, TypeOK, Captured, Published
<1>2. Said(log', l, n) = Said(log, l, n)
  BY <1>1, SaidStays
<1>3. Truth(l, n) = Said(log, l, n)
  BY TruthSaid
<1>4. Truth(l, n)' = Said(log', l, n)
  BY DEF Truth, Said, Ruling, Unseen, Answer, Asked, Shown, Captured
<1> QED
  BY <1>2, <1>3, <1>4

\* While every batch up to a time is settled, the latest row of a listing tells its truth then.
LEMMA LatestTrue ==
  ASSUME Shape, LogFit, TrueLedger, Quiet, NEW l \in Listings, Named(l) # {},
         NEW n \in Captured, First(l) <= n, 1..n \subseteq done
  PROVE  LET rows == ChangesBefore(ledger, l, n + 1)
         IN rows # {} /\ Latest(rows) \in rows /\ Core(Latest(rows).current) = Truth(l, n)
<1> DEFINE rows == ChangesBefore(ledger, l, n + 1)
           r == Latest(rows)
<1>1. /\ First(l) \in Captured /\ First(l) \in Nat /\ First(l) # 0
      /\ n \in Nat /\ n + 1 \in Nat /\ Captured = 1..Len(log) /\ Len(log) \in Nat
  BY FirstType DEF Captured, Shape, TypeOK
<1>2. \A i \in 1..n : Due(l, i) => Has(ledger, l, i)
  BY DEF TrueLedger, Recorded
<1>3. \A i \in 1..n : Due(l, i) => \E d \in rows : d.by = i
  <2> SUFFICES ASSUME NEW i \in 1..n, Due(l, i) PROVE \E d \in rows : d.by = i
    OBVIOUS
  <2>1. PICK d \in ledger : d.listing = l /\ d.by = i
    BY <1>2 DEF Has
  <2>2. d \in rows
    BY <1>1, <2>1 DEF ChangesBefore
  <2> QED
    BY <2>1, <2>2
<1>4. rows # {}
  <2>1. First(l) \in 1..n /\ Due(l, First(l))
    BY <1>1 DEF Due
  <2> QED
    BY <1>3, <2>1
<1>5. rows \in SUBSET Rows /\ rows \subseteq ledger /\ (\A d \in rows : d.by < n + 1 /\ d.listing = l)
  BY DEF ChangesBefore, Shape, TypeOK
<1> HIDE DEF rows
<1>6. r \in rows /\ \A d \in rows : d.by <= r.by
  BY <1>1, <1>4, <1>5, LatestRow
<1> HIDE DEF r
<1>7. r.by \in Nat /\ r.by <= n /\ First(l) <= r.by /\ Core(r.current) = Truth(l, r.by)
  <2>1. TrueRow(r) /\ r \in Rows /\ r.by < n + 1 /\ r.listing = l
    BY <1>5, <1>6 DEF TrueLedger
  <2>2. r.by \in Nat
    BY <2>1 DEF Rows
  <2> QED
    BY <1>1, <2>1, <2>2 DEF TrueRow
<1>8. Truth(l, r.by) = Truth(l, n)
  <2> SUFFICES ASSUME Truth(l, r.by) # Truth(l, n) PROVE FALSE
    OBVIOUS
  <2> DEFINE D == {k \in (r.by + 1)..n : Truth(l, k) # Truth(l, r.by)}
             m == Min(D)
  <2>1. n # r.by
    OBVIOUS
  <2>2. n \in D
    BY <1>1, <1>7, <2>1
  <2>3. D \subseteq Nat
    BY <1>1, <1>7
  <2> HIDE DEF D
  <2>4. m \in D /\ \A y \in D : m <= y
    BY <2>2, <2>3, LeastOfNats
  <2> HIDE DEF m
  <2>5. m \in (r.by + 1)..n /\ m \in Nat /\ m - 1 < m /\ Truth(l, m) # Truth(l, r.by)
    BY <2>3, <2>4 DEF D
  <2>6. Truth(l, m - 1) = Truth(l, r.by)
    <3>1. CASE m - 1 = r.by
      BY <3>1
    <3>2. CASE m - 1 # r.by
      <4>1. m - 1 \in (r.by + 1)..n
        BY <1>1, <1>7, <2>5, <3>2
      <4>2. m - 1 \notin D
        BY <2>3, <2>4, <2>5
      <4> QED
        BY <4>1, <4>2 DEF D
    <3> QED
      BY <3>1, <3>2
  <2>7. m \in 1..n /\ First(l) <= m /\ ~(m <= r.by)
    BY <1>1, <1>7, <2>5
  <2>8. Due(l, m)
    BY <2>5, <2>6, <2>7 DEF Due
  <2> QED
    BY <1>3, <1>6, <2>7, <2>8
<1> QED
  BY <1>4, <1>6, <1>7, <1>8 DEF rows, r

\* A batch read in its turn finds every batch before it, and none after it.
LEMMA TurnKnows ==
  ASSUME Shape, NEW i \in Captured, InTurn(i), NEW l
  PROVE  /\ SeenBefore(log, Known, l, i) = Shown(log, l, i - 1)
         /\ ProbeBefore(log, Known, l, i) = Asked(log, l, i - 1)
<1>1. /\ log \in Seq(Batches) /\ Len(log) \in Nat /\ i \in 1..Len(log) /\ i \in Nat /\ i - 1 + 1 = i
      /\ Known \subseteq 1..Len(log) /\ done \subseteq Known
  BY DEF Shape, TypeOK, Captured
<1>2. \A j \in 1..Len(log) : j < i => j \in Known
  <2> SUFFICES ASSUME NEW j \in 1..Len(log), j < i PROVE j \in Known
    OBVIOUS
  <2>1. j \in 1..(i - 1)
    BY <1>1
  <2> QED
    BY <1>1, <2>1 DEF InTurn
<1>3. {j \in Known : j < i /\ l \in log[j].of} = {j \in 1..Len(log) : j < i /\ l \in log[j].of}
  BY <1>1, <1>2
<1>4. /\ SeenBefore(log, Known, l, i) = SeenBefore(log, 1..Len(log), l, i)
      /\ ProbeBefore(log, Known, l, i) = ProbeBefore(log, 1..Len(log), l, i)
  <2> DEFINE G == 1..Len(log)
  <2>1. {j \in Known : j < i /\ l \in log[j].of} = {j \in G : j < i /\ l \in log[j].of}
    BY <1>3
  <2> HIDE DEF G
  <2>2. /\ SeenBefore(log, Known, l, i) = SeenBefore(log, G, l, i)
        /\ ProbeBefore(log, Known, l, i) = ProbeBefore(log, G, l, i)
    BY <1>1, <2>1, SameBefore
  <2> QED
    BY <2>2 DEF G
<1> QED
  BY <1>1, <1>4 DEF Shown, Asked

\* What is known of a listing before a batch read in its turn is what the log says of it.
LEMMA PreviousTrue ==
  ASSUME Shape, LogFit, TrueLedger, Quiet, NEW i \in Captured, InTurn(i),
         NEW l \in Listings, Named(l) # {}, First(l) < i
  PROVE  /\ i - 1 \in Captured /\ First(l) <= i - 1 /\ Shown(log, l, i - 1) # 0
         /\ Tells(log, Previous(log, Known, ledger, l, i), l, i - 1)
<1> DEFINE page == SeenBefore(log, Known, l, i)
           probed == ProbeBefore(log, Known, l, i)
           earlier == ChangesBefore(ledger, l, i)
           answer == IF probed = 0 THEN "none" ELSE log[probed].probe
           row == Latest(earlier).current
           price == IF row.price = NoPrice /\ page # 0 THEN log[page].price ELSE row.price
           seen == row.misses = 0 /\ page # 0
           scanned == page # 0
           p == Previous(log, Known, ledger, l, i)
<1>1. /\ i - 1 \in Captured /\ First(l) <= i - 1 /\ i \in Nat /\ i - 1 + 1 = i /\ i - 1 \in Nat
      /\ log \in Seq(Batches) /\ Known \in SUBSET (1..Len(log)) /\ ledger \in SUBSET Rows
  BY FirstType DEF Captured, Shape, TypeOK
<1>2. Shown(log, l, i - 1) # 0
  BY <1>1, FirstShown
<1>3. 1..(i - 1) \subseteq done
  BY DEF InTurn
<1>4. earlier # {} /\ Latest(earlier) \in earlier /\ Core(row) = Truth(l, i - 1)
  <2>1. LET rows == ChangesBefore(ledger, l, i - 1 + 1)
        IN rows # {} /\ Latest(rows) \in rows /\ Core(Latest(rows).current) = Truth(l, i - 1)
    BY <1>1, <1>3, LatestTrue
  <2> QED
    BY <1>1, <2>1
<1>5. page = Shown(log, l, i - 1) /\ answer = Answer(log, l, i - 1) /\ page # 0
  BY <1>2, TurnKnows DEF Answer
<1>6. p = [row EXCEPT !.price = price, !.seen = seen, !.scanned = scanned, !.probe = answer]
  BY <1>4 DEF Previous
<1>7. row \in Snapshots
  <2>1. Latest(earlier) \in Rows
    BY <1>1, <1>4 DEF ChangesBefore
  <2> QED
    BY <2>1 DEF Rows
<1>8. p \in Snapshots
  BY <1>1, <1>5, PreviousType
<1>9. Said(log, l, i - 1).price = log[page].price /\ Truth(l, i - 1) = Said(log, l, i - 1)
  BY <1>5, TruthSaid DEF Said
<1> HIDE DEF p, row, answer, earlier, page, probed
<1>10. row.price = log[page].price
  <2>1. Core(row).price = row.price
    BY DEF Core
  <2> QED
    BY <1>4, <1>9, <2>1
<1>11. price = row.price
  BY <1>10
<1>12. seen \in BOOLEAN /\ scanned \in BOOLEAN /\ (seen <=> row.misses = 0) /\ scanned = TRUE
  BY <1>5
<1> HIDE DEF price, seen, scanned
<1>13. /\ p.price = row.price /\ p.seen = seen /\ p.scanned = scanned /\ p.probe = answer
       /\ p.verdict = row.verdict /\ p.misses = row.misses
  BY <1>6, <1>7, <1>11 DEF Snapshots
<1>14. Core(p) = Said(log, l, i - 1)
  BY <1>4, <1>9, <1>13 DEF Core
<1>15. (p.seen <=> p.misses = 0) /\ p.scanned = TRUE
  BY <1>12, <1>13, Zenon
<1>16. p # None
  BY <1>8, ChangeAssumption
<1> QED
  BY <1>1, <1>2, <1>5, <1>8, <1>13, <1>14, <1>15, <1>16 DEF Tells, p

\* A terminal page read in its turn misses the listings whose latest page is of another run.
LEMMA MissedTrue ==
  ASSUME Shape, LogFit, NEW i \in Captured, InTurn(i), NEW l \in Listings,
         Shown(log, l, i - 1) # 0, l \notin log[i].of
  PROVE  l \in Missing(log, Known, i) <=> (log[i].last /\ log[i].run # log[Shown(log, l, i - 1)].run)
<1> DEFINE s == Shown(log, l, i - 1)
           r == log[i].run
<1>1. /\ log \in Seq(Batches) /\ Len(log) \in Nat /\ i \in 1..Len(log) /\ i \in Nat /\ i - 1 + 1 = i
      /\ i - 1 \in Nat /\ Known \subseteq 1..Len(log) /\ done \subseteq Known
  BY DEF Shape, TypeOK, Captured
<1>2. /\ s \in 1..Len(log) /\ s < i /\ IsPage(log[s]) /\ l \in log[s].of
      /\ \A j \in 1..Len(log) : j < i /\ l \in log[j].of /\ IsPage(log[j]) => j <= s
  <2>1. /\ s \in 1..Len(log) \cup {0}
        /\ s # 0 => s < i /\ IsPage(log[s]) /\ l \in log[s].of
        /\ \A j \in 1..Len(log) : j < i /\ l \in log[j].of => (IsPage(log[j]) => j <= s)
    BY <1>1, BeforeType DEF Shown
  <2> QED
    BY <2>1
<1>3. SeenBefore(log, Known, l, i) # 0
  BY TurnKnows
<1>4. l \in Missing(log, Known, i) <=> (log[i].last /\ l \notin SeenInRun(log, Known, r))
  BY <1>3 DEF Missing
<1>5. s \in Known
  <2>1. s \in 1..(i - 1)
    BY <1>1, <1>2
  <2> QED
    BY <1>1, <2>1 DEF InTurn
<1>6. \A j \in 1..Len(log) : log[j].run \in Nat
  <2>1. \A j \in 1..Len(log) : log[j] \in Batches
    BY <1>1
  <2> QED
    BY <2>1 DEF Batches
<1> HIDE DEF s
<1>7. ASSUME log[i].last, l \in SeenInRun(log, Known, r)
      PROVE  r = log[s].run
  <2>1. PICK j \in Known : IsPage(log[j]) /\ log[j].run = r /\ l \in log[j].of
    BY <1>7 DEF SeenInRun
  <2>2. j \in 1..Len(log) /\ j < i
    <3>1. j <= i /\ j # i
      BY <2>1 DEF InTurn
    <3> QED
      BY <1>1, <2>1, <3>1
  <2>3. j <= s /\ IsPage(log[i])
    BY <1>1, <1>2, <1>7, <2>1, <2>2 DEF LogFit, Ordered
  <2>4. \A a, b \in 1..Len(log) : a <= b /\ IsPage(log[a]) /\ IsPage(log[b]) => log[a].run <= log[b].run
    BY DEF LogFit, Ordered
  <2>5. s <= i
    BY <1>1, <1>2
  <2>6. log[j].run <= log[s].run /\ log[s].run <= log[i].run
    BY <1>1, <1>2, <2>1, <2>2, <2>3, <2>4, <2>5
  <2> QED
    BY <1>1, <1>2, <1>6, <2>1, <2>2, <2>6
<1>8. ASSUME r = log[s].run
      PROVE  l \in SeenInRun(log, Known, r)
  BY <1>2, <1>5, <1>8 DEF SeenInRun
<1> QED
  BY <1>4, <1>7, <1>8 DEF s

\* The rows of a batch read in its turn tell the truth, and none that is due is left out.
LEMMA DerivedTrue ==
  ASSUME Shape, LogFit, Opening, TrueLedger, Quiet, NEW i \in Captured, InTurn(i)
  PROVE  LET D == Derived(log, Known, ledger, i) IN
         /\ \A r \in D : TrueRow(r)
         /\ \A l \in Listings : Due(l, i) => Has(D, l, i)
<1> DEFINE D == Derived(log, Known, ledger, i)
           before(l) == Before(log, Known, ledger, i, l)
           told(l) == Told(log, Known, ledger, i, l)
           hit(l) == log[i].last /\ log[i].run # log[Shown(log, l, i - 1)].run
<1>1. /\ Known \in SUBSET (1..Len(log)) /\ log \in Seq(Batches) /\ i \in 1..Len(log) /\ i \in Nat
      /\ log[i] \in Batches /\ log[i].of \subseteq Listings /\ ledger \in SUBSET Rows
  <2>1. Known \in SUBSET (1..Len(log)) /\ log \in Seq(Batches) /\ i \in 1..Len(log) /\ i \in Nat
    BY DEF Shape, TypeOK, Captured
  <2>2. log[i] \in Batches /\ ledger \in SUBSET Rows
    BY <2>1 DEF Shape, TypeOK
  <2> QED
    BY <2>1, <2>2 DEF Batches
<1>2. ASSUME NEW l \in Listings, Named(l) # {}, First(l) = i
      PROVE  /\ l \in log[i].of /\ l \notin Missing(log, Known, i)
             /\ before(l) = None /\ Core(told(l)) = Truth(l, i)
  <2>1. /\ l \in log[i].of /\ IsPage(log[i])
        /\ \A j \in 1..Len(log) : l \in log[j].of => i <= j
    BY <1>1, <1>2, FirstShown DEF Captured
  <2>2. before(l) = None /\ SeenBefore(log, Known, l, i) = 0
    BY <1>1, <1>2, NothingBefore DEF Before
  <2>3. Core(Sighted(log[i], None)) = Said(log, l, i)
    BY <1>1, <2>1, TellsFirst
  <2>4. told(l) = Sighted(log[i], None)
    BY <2>1, <2>2 DEF Told
  <2>5. l \notin Missing(log, Known, i)
    BY <2>1 DEF Missing
  <2> QED
    BY <2>1, <2>2, <2>3, <2>4, <2>5, TruthSaid
<1>3. ASSUME NEW l \in Listings, Named(l) # {}, First(l) < i
      PROVE  /\ before(l) # None /\ Core(before(l)) = Truth(l, i - 1)
             /\ l \in log[i].of => Core(told(l)) = Truth(l, i)
             /\ l \in Missing(log, Known, i) => Core(Missed(before(l))) = Truth(l, i)
             /\ (l \notin log[i].of /\ l \notin Missing(log, Known, i)) => Truth(l, i) = Truth(l, i - 1)
  <2> DEFINE p == before(l)
  <2>1. Shown(log, l, i - 1) # 0 /\ Tells(log, p, l, i - 1)
    BY <1>3, PreviousTrue DEF Before
  <2> HIDE DEF p
  <2>2. /\ l \in log[i].of =>
             Core(IF IsPage(log[i]) THEN Sighted(log[i], p) ELSE Probed(log[i], p)) = Said(log, l, i)
        /\ (l \notin log[i].of /\ hit(l)) => Core(Missed(p)) = Said(log, l, i)
        /\ (l \notin log[i].of /\ ~hit(l)) => Said(log, l, i) = Said(log, l, i - 1)
    BY <1>1, <2>1, TellsOn DEF LogFit
  <2>3. l \notin log[i].of => (l \in Missing(log, Known, i) <=> hit(l))
    BY <1>3, <2>1, MissedTrue
  <2>4. l \in Missing(log, Known, i) => l \notin log[i].of
    BY DEF Missing
  <2>5. told(l) = IF IsPage(log[i]) THEN Sighted(log[i], p) ELSE Probed(log[i], p)
    BY DEF Told, p
  <2>6. p # None /\ Core(p) = Said(log, l, i - 1)
    BY <2>1 DEF Tells
  <2>7. Truth(l, i) = Said(log, l, i) /\ Truth(l, i - 1) = Said(log, l, i - 1)
    BY TruthSaid
  <2> HIDE DEF hit
  <2> QED
    BY <2>2, <2>3, <2>4, <2>5, <2>6, <2>7 DEF p
<1>4. ASSUME NEW r \in D
      PROVE  TrueRow(r)
  <2> DEFINE l == r.listing
  <2>1. /\ r \in Rows /\ r.by = i /\ r.previous = before(l)
        /\ \/ l \in log[i].of /\ r.current = told(l)
           \/ l \in Missing(log, Known, i) /\ r.current = Missed(before(l))
    BY <1>1, DerivedType
  <2>2. l \in Listings
    BY <2>1 DEF Rows
  <2>3. Sequel(r)
    BY ReadOpens
  <2> HIDE DEF before, told
  <2>4. Named(l) # {} /\ First(l) <= i /\ First(l) \in Nat
    BY <2>1, <2>3, FirstType DEF Sequel, Captured
  <2>5. CASE First(l) = i
    BY <1>2, <2>1, <2>2, <2>4, <2>5 DEF TrueRow
  <2>6. CASE First(l) # i
    <3>1. First(l) < i
      BY <1>1, <2>4, <2>6
    <3> QED
      BY <1>3, <2>1, <2>2, <2>4, <2>6, <3>1 DEF TrueRow
  <2> QED
    BY <2>5, <2>6
<1>5. ASSUME NEW l \in Listings, Due(l, i)
      PROVE  Has(D, l, i)
  <2>1. Named(l) # {} /\ First(l) <= i /\ First(l) \in Nat
    BY <1>5, FirstType DEF Due, Captured
  <2>2. ASSUME NEW c, NEW k \in Differences(before(l), c),
               \A r : r \in Changes(i, l, before(l), c) => r \in D
        PROVE  Has(D, l, i)
    <3> DEFINE r == [by |-> i, listing |-> l, kind |-> k, previous |-> before(l), current |-> c]
    <3>1. r \in Changes(i, l, before(l), c)
      BY DEF Changes
    <3>2. r \in D /\ r.listing = l /\ r.by = i
      BY <2>2, <3>1
    <3> QED
      BY <3>2 DEF Has
  <2>3. CASE First(l) = i
    <3>1. l \in log[i].of /\ before(l) = None
      BY <1>2, <2>1, <2>3
    <3>2. "state_transition" \in Differences(before(l), told(l))
      BY <3>1 DEF Differences
    <3>3. \A r : r \in Changes(i, l, before(l), told(l)) => r \in D
      BY <3>1, DerivedRow
    <3> QED
      BY <2>2, <3>2, <3>3
  <2>4. CASE First(l) # i
    <3>1. Truth(l, i) # Truth(l, i - 1) /\ First(l) < i
      BY <1>1, <1>5, <2>1, <2>4 DEF Due
    <3>2. /\ before(l) # None /\ Core(before(l)) = Truth(l, i - 1)
          /\ l \in log[i].of => Core(told(l)) = Truth(l, i)
          /\ l \in Missing(log, Known, i) => Core(Missed(before(l))) = Truth(l, i)
          /\ l \in log[i].of \/ l \in Missing(log, Known, i)
      BY <1>3, <2>1, <3>1
    <3>3. CASE l \in log[i].of
      <4>1. PICK k \in Differences(before(l), told(l)) : TRUE
        BY <3>1, <3>2, <3>3, DifferencesTell
      <4>2. \A r : r \in Changes(i, l, before(l), told(l)) => r \in D
        BY <3>3, DerivedRow
      <4> QED
        BY <2>2, <4>1, <4>2
    <3>4. CASE l \in Missing(log, Known, i)
      <4>1. PICK k \in Differences(before(l), Missed(before(l))) : TRUE
        BY <3>1, <3>2, <3>4, DifferencesTell
      <4>2. \A r : r \in Changes(i, l, before(l), Missed(before(l))) => r \in D
        BY <3>4, DerivedRow
      <4> QED
        BY <2>2, <4>1, <4>2
    <3> QED
      BY <3>2, <3>3, <3>4
  <2> QED
    BY <2>3, <2>4
<1> QED
  BY <1>4, <1>5

\* While the log stands, so do what it says and what it owes.
LEMMA LogStands ==
  ASSUME log' = log
  PROVE  /\ \A r : TrueRow(r)' <=> TrueRow(r)
         /\ \A l, i : Due(l, i)' <=> Due(l, i)
<1>1. Captured' = Captured /\ \A l : Named(l)' = Named(l) /\ First(l)' = First(l)
  BY DEF Captured, Named, First
<1>2. \A l, n : Truth(l, n)' = Truth(l, n)
  BY <1>1 DEF Truth
<1> QED
  BY <1>1, <1>2 DEF TrueRow, Due

\* A publication disturbs no row, and owes none to the batches there were.
LEMMA PublishStands ==
  ASSUME Shape, LogFit, NEW b \in Batches, Published(b)
  PROVE  /\ \A r : TrueRow(r) => TrueRow(r)'
         /\ \A l : \A i \in Captured \cup {0} : Due(l, i)' => Due(l, i)
<1>1. /\ \A i \in Captured : log'[i] = log[i]
      /\ Captured \subseteq Captured' /\ \A i \in Captured : i \in Nat \ {0}
      /\ Captured = 1..Len(log) /\ Captured' = 1..(Len(log) + 1) /\ Len(log) \in Nat
  BY LogGrows DEF Shape, TypeOK, Captured
<1>2. \A l : Named(l) # {} => Named(l)' # {} /\ First(l)' = First(l) /\ First(l) \in Captured
  BY FirstStays, FirstType
<1>3. \A l : \A n \in Captured : Named(l) # {} /\ First(l) <= n => Truth(l, n)' = Truth(l, n)
  BY TruthStays
<1>4. ASSUME NEW r, TrueRow(r)
      PROVE  TrueRow(r)'
  <2> DEFINE l == r.listing
             i == r.by
  <2>1. /\ i \in Captured /\ Named(l) # {} /\ First(l) <= i
        /\ Core(r.current) = Truth(l, i)
        /\ First(l) = i => r.previous = None
        /\ First(l) # i => r.previous # None /\ Core(r.previous) = Truth(l, i - 1)
    BY <1>4 DEF TrueRow
  <2>2. Named(l)' # {} /\ First(l)' = First(l) /\ i \in Captured' /\ Truth(l, i)' = Truth(l, i)
    BY <1>1, <1>2, <1>3, <2>1
  <2>3. First(l) # i => Truth(l, i - 1)' = Truth(l, i - 1)
    <3>1. First(l) # i => i - 1 \in Captured /\ First(l) <= i - 1
      BY <1>1, <1>2, <2>1
    <3> QED
      BY <1>3, <2>1, <3>1
  <2> QED
    BY <2>1, <2>2, <2>3 DEF TrueRow
<1>5. ASSUME NEW l, NEW i \in Captured \cup {0}, Due(l, i)'
      PROVE  Due(l, i)
  <2>1. Named(l)' # {} /\ First(l)' <= i /\ (First(l)' = i \/ Truth(l, i)' # Truth(l, i - 1)')
    BY <1>5 DEF Due
  <2>2. First(l)' \in Named(l)' /\ First(l)' \in Captured'
    <3>1. Named(l)' \subseteq Nat /\ Named(l)' \subseteq Captured'
      BY DEF Named, Captured
    <3> QED
      BY <2>1, <3>1, LeastOfNats DEF First
  <2>3. First(l)' \in Captured /\ i \in Captured
    BY <1>1, <2>1, <2>2
  <2>4. Named(l) # {}
    BY <1>1, <2>2, <2>3 DEF Named
  <2>5. First(l)' = First(l) /\ First(l) <= i /\ Truth(l, i)' = Truth(l, i)
    BY <1>2, <1>3, <2>1, <2>3, <2>4
  <2>6. CASE First(l) = i
    BY <2>4, <2>5, <2>6 DEF Due
  <2>7. CASE First(l) # i
    <3>1. i - 1 \in Captured /\ First(l) <= i - 1
      BY <1>1, <1>2, <2>3, <2>4, <2>5, <2>7
    <3>2. Truth(l, i - 1)' = Truth(l, i - 1)
      BY <1>3, <2>4, <3>1
    <3> QED
      BY <2>1, <2>4, <2>5, <2>7, <3>2 DEF Due
  <2> QED
    BY <2>6, <2>7
<1> QED
  BY <1>4, <1>5

\* Every step keeps the ledger true.
LEMMA StepTrue ==
  ASSUME Shape, LogFit, Apart, Opening, TrueLedger, [Next]_vars
  PROVE  TrueLedger'
<1> SUFFICES ASSUME Quiet' PROVE (InOrder /\ (\A r \in ledger : TrueRow(r) /\ r.by \in Known)
                                   /\ (\A c \in Consumers : \A r \in derived[c] : TrueRow(r)) /\ Recorded)'
  BY DEF TrueLedger
<1>0. /\ \A i \in Captured : i \in Nat \ {0}
      /\ \A c \in Consumers : taken[c] \in Captured \cup {0} /\ (stage[c] # "idle" => taken[c] \in Captured)
      /\ done \subseteq Known /\ Known \subseteq Captured
  BY DEF Shape, Holder, Captured
<1>1. CASE CapturePage \/ CaptureProbe
  <2>1. PICK b \in Batches : Published(b)
    BY <1>1, Publishes DEF Shape
  <2>2. UNCHANGED <<done, facts, ledger, stage, taken, derived, disordered, overlapped>>
    BY <2>1 DEF Published, tables, consumer
  <2>3. Quiet /\ Known' = Known
    BY <2>2 DEF Quiet, Known
  <2>4. /\ \A r : TrueRow(r) => TrueRow(r)'
        /\ \A l : \A i \in Captured \cup {0} : Due(l, i)' => Due(l, i)
    BY <2>1, PublishStands
  <2>5. InOrder'
    BY <2>2, <2>3 DEF TrueLedger, InOrder
  <2>6. Recorded'
    <3>1. Recorded
      BY <2>3 DEF TrueLedger
    <3>2. ASSUME NEW l \in Listings
          PROVE  /\ \A i \in done' : Due(l, i)' => Has(ledger, l, i)'
                 /\ \A c \in Consumers : Due(l, taken[c])' =>
                      /\ stage'[c] = "facts" => Has(derived[c], l, taken[c])'
                      /\ stage'[c] = "changes" => Has(derived[c] \cup ledger, l, taken[c])'
                      /\ stage'[c] = "settle" => Has(ledger, l, taken[c])'
      <4>1. \A i \in done : Due(l, i)' => Has(ledger, l, i)
        BY <1>0, <2>4, <3>1 DEF Recorded
      <4>2. \A c \in Consumers : Due(l, taken[c])' => Due(l, taken[c])
        <5> SUFFICES ASSUME NEW c \in Consumers, Due(l, taken[c])' PROVE Due(l, taken[c])
          OBVIOUS
        <5> DEFINE i == taken[c]
        <5>1. taken'[c] = i /\ i \in Captured \cup {0}
          BY <1>0, <2>2
        <5> QED
          BY <2>2, <2>4, <5>1 DEF Due
      <4> QED
        BY <2>2, <3>1, <4>1, <4>2 DEF Recorded, Has
    <3> QED
      BY <3>2 DEF Recorded
  <2> QED
    BY <2>2, <2>3, <2>4, <2>5, <2>6 DEF TrueLedger
<1>2. ASSUME log' = log
      PROVE  /\ \A r : TrueRow(r)' <=> TrueRow(r)
             /\ \A l, i : Due(l, i)' <=> Due(l, i)
  BY <1>2, LogStands
<1>3. ASSUME NEW c \in Consumers, NEW i \in Captured, Claim(c, i)
      PROVE  (InOrder /\ (\A r \in ledger : TrueRow(r) /\ r.by \in Known)
                /\ (\A d \in Consumers : \A r \in derived[d] : TrueRow(r)) /\ Recorded)'
  <2>1. /\ stage'[c] = "read" /\ derived' = derived
        /\ \A d \in Consumers \ {c} : Same(d)
        /\ overlapped' = (overlapped \/ i \in Held)
        /\ UNCHANGED <<log, done, facts, ledger, disordered>>
    BY <1>3, ClaimDoes
  <2>2. Quiet /\ Known' = Known
    BY <2>1 DEF Quiet, Known
  <2>3. InOrder'
    BY <2>1, <2>2 DEF TrueLedger, InOrder, Same
  <2>4. Recorded'
    <3>1. Recorded
      BY <2>2 DEF TrueLedger
    <3>2. ASSUME NEW l \in Listings, NEW d \in Consumers, Due(l, taken[d])'
          PROVE  /\ stage'[d] = "facts" => Has(derived'[d], l, taken'[d])
                 /\ stage'[d] = "changes" => Has(derived'[d] \cup ledger, l, taken'[d])
                 /\ stage'[d] = "settle" => Has(ledger, l, taken'[d])
      <4>1. CASE d = c
        BY <2>1, <4>1
      <4>2. CASE d # c
        <5>1. Same(d) /\ Due(l, taken[d])
          BY <1>2, <2>1, <3>2, <4>2 DEF Same
        <5> QED
          BY <3>1, <5>1 DEF Recorded, Same
      <4> QED
        BY <4>1, <4>2
    <3> QED
      BY <1>2, <2>1, <3>1, <3>2 DEF Recorded, Has
  <2> QED
    BY <1>2, <2>1, <2>2, <2>3, <2>4 DEF TrueLedger
<1>4. ASSUME NEW c \in Consumers, Read(c)
      PROVE  (InOrder /\ (\A r \in ledger : TrueRow(r) /\ r.by \in Known)
                /\ (\A d \in Consumers : \A r \in derived[d] : TrueRow(r)) /\ Recorded)'
  <2> DEFINE i == taken[c]
             D == Derived(log, Known, ledger, i)
  <2>1. /\ i \in Captured /\ stage'[c] = "facts" /\ derived'[c] = D /\ taken' = taken
        /\ \A d \in Consumers \ {c} : Same(d)
        /\ disordered' = (disordered \/ ~InTurn(i))
        /\ UNCHANGED <<log, done, facts, ledger, overlapped>>
    BY <1>4, ReadDoes
  <2>2. Quiet /\ InTurn(i) /\ Known' = Known
    BY <2>1 DEF Quiet, Known
  <2>3. /\ \A r \in D : TrueRow(r)
        /\ \A l \in Listings : Due(l, i) => Has(D, l, i)
    BY <2>1, <2>2, DerivedTrue
  <2> HIDE DEF D
  <2>4. InOrder'
    BY <2>1, <2>2 DEF TrueLedger, InOrder, Same, InTurn
  <2>5. Recorded'
    <3>1. Recorded
      BY <2>2 DEF TrueLedger
    <3>2. ASSUME NEW l \in Listings, NEW d \in Consumers, Due(l, taken[d])'
          PROVE  /\ stage'[d] = "facts" => Has(derived'[d], l, taken'[d])
                 /\ stage'[d] = "changes" => Has(derived'[d] \cup ledger, l, taken'[d])
                 /\ stage'[d] = "settle" => Has(ledger, l, taken'[d])
      <4>1. Due(l, taken[d])
        BY <1>2, <2>1, <3>2
      <4>2. CASE d = c
        BY <2>1, <2>3, <4>1, <4>2
      <4>3. CASE d # c
        <5>1. Same(d)
          BY <2>1, <4>3
        <5> QED
          BY <3>1, <4>1, <5>1 DEF Recorded, Same
      <4> QED
        BY <4>2, <4>3
    <3> QED
      BY <1>2, <2>1, <3>1, <3>2 DEF Recorded, Has
  <2>6. \A d \in Consumers : \A r \in derived'[d] : TrueRow(r)
    BY <2>1, <2>2, <2>3 DEF TrueLedger, Same
  <2> QED
    BY <1>2, <2>1, <2>2, <2>4, <2>5, <2>6 DEF TrueLedger
<1>5. ASSUME NEW c \in Consumers, InsertFacts(c)
      PROVE  (InOrder /\ (\A r \in ledger : TrueRow(r) /\ r.by \in Known)
                /\ (\A d \in Consumers : \A r \in derived[d] : TrueRow(r)) /\ Recorded)'
  <2> DEFINE i == taken[c]
             D == {r \in derived[c] : \A s \in ledger : Key(s) # Key(r)}
  <2>1. /\ stage[c] = "facts" /\ stage'[c] = "changes" /\ derived'[c] = D /\ taken' = taken
        /\ \A d \in Consumers \ {c} : Same(d)
        /\ Known' = Known \cup {i}
        /\ UNCHANGED <<log, done, ledger, disordered, overlapped>>
    BY <1>5, InsertFactsDoes
  <2>2. Quiet
    BY <2>1 DEF Quiet
  <2>3. ASSUME NEW l, Has(derived[c], l, i)
        PROVE  Has(D \cup ledger, l, i)
    <3>1. PICK r \in derived[c] : r.listing = l /\ r.by = i
      BY <2>3 DEF Has
    <3>2. CASE r \in D
      BY <3>1, <3>2 DEF Has
    <3>3. CASE r \notin D
      <4>1. PICK s \in ledger : Key(s) = Key(r)
        BY <3>3
      <4>2. s.listing = l /\ s.by = i
        BY <3>1, <4>1 DEF Key
      <4> QED
        BY <4>2 DEF Has
    <3> QED
      BY <3>2, <3>3
  <2>4. D \subseteq derived[c]
    OBVIOUS
  <2> HIDE DEF D
  <2>5. InOrder'
    BY <2>1, <2>2 DEF TrueLedger, InOrder, Same
  <2>6. Recorded'
    <3>1. Recorded
      BY <2>2 DEF TrueLedger
    <3>2. ASSUME NEW l \in Listings, NEW d \in Consumers, Due(l, taken[d])'
          PROVE  /\ stage'[d] = "facts" => Has(derived'[d], l, taken'[d])
                 /\ stage'[d] = "changes" => Has(derived'[d] \cup ledger, l, taken'[d])
                 /\ stage'[d] = "settle" => Has(ledger, l, taken'[d])
      <4>1. Due(l, taken[d])
        BY <1>2, <2>1, <3>2
      <4>2. CASE d = c
        <5>1. Has(derived[c], l, i)
          BY <2>1, <3>1, <4>1, <4>2 DEF Recorded
        <5> QED
          BY <2>1, <2>3, <4>2, <5>1
      <4>3. CASE d # c
        <5>1. Same(d)
          BY <2>1, <4>3
        <5> QED
          BY <3>1, <4>1, <5>1 DEF Recorded, Same
      <4> QED
        BY <4>2, <4>3
    <3> QED
      BY <1>2, <2>1, <3>1, <3>2 DEF Recorded, Has
  <2>7. \A d \in Consumers : \A r \in derived'[d] : TrueRow(r)
    BY <2>1, <2>2, <2>4 DEF TrueLedger, Same
  <2> QED
    BY <1>2, <2>1, <2>2, <2>5, <2>6, <2>7 DEF TrueLedger
<1>6. ASSUME NEW c \in Consumers, InsertChanges(c)
      PROVE  (InOrder /\ (\A r \in ledger : TrueRow(r) /\ r.by \in Known)
                /\ (\A d \in Consumers : \A r \in derived[d] : TrueRow(r)) /\ Recorded)'
  <2> DEFINE i == taken[c]
  <2>1. /\ stage[c] = "changes" /\ stage'[c] = "settle" /\ derived'[c] = {} /\ taken' = taken
        /\ \A d \in Consumers \ {c} : Same(d)
        /\ ledger' = ledger \cup derived[c]
        /\ UNCHANGED <<log, done, facts, disordered, overlapped>>
    BY <1>6, InsertChangesDoes
  <2>2. Quiet /\ Known' = Known
    BY <2>1 DEF Quiet, Known
  <2>3. i \in Known /\ \A r \in derived[c] : r.by = i
    <3>1. i \in Numbers
      BY <1>0, <2>1 DEF Shape, TypeOK
    <3> QED
      BY <2>1, <3>1 DEF Shape, Holder, Known
  <2>4. InOrder'
    BY <2>1, <2>2 DEF TrueLedger, InOrder, Same
  <2>5. Recorded'
    <3>1. Recorded
      BY <2>2 DEF TrueLedger
    <3>2. ASSUME NEW l \in Listings, NEW d \in Consumers, Due(l, taken[d])'
          PROVE  /\ stage'[d] = "facts" => Has(derived'[d], l, taken'[d])
                 /\ stage'[d] = "changes" => Has(derived'[d] \cup ledger', l, taken'[d])
                 /\ stage'[d] = "settle" => Has(ledger', l, taken'[d])
      <4>1. Due(l, taken[d])
        BY <1>2, <2>1, <3>2
      <4>2. CASE d = c
        BY <2>1, <3>1, <4>1, <4>2 DEF Recorded, Has
      <4>3. CASE d # c
        <5>1. Same(d)
          BY <2>1, <4>3
        <5> QED
          BY <2>1, <3>1, <4>1, <5>1 DEF Recorded, Same, Has
      <4> QED
        BY <4>2, <4>3
    <3>3. \A l \in Listings : \A k \in done : Due(l, k)' => Has(ledger', l, k)
      BY <1>2, <2>1, <3>1 DEF Recorded, Has
    <3> QED
      BY <2>1, <3>2, <3>3 DEF Recorded, Has
  <2>6. \A r \in ledger' : TrueRow(r) /\ r.by \in Known
    BY <2>1, <2>2, <2>3 DEF TrueLedger
  <2>7. \A d \in Consumers : \A r \in derived'[d] : TrueRow(r)
    BY <2>1, <2>2 DEF TrueLedger, Same
  <2> QED
    BY <1>2, <2>1, <2>2, <2>4, <2>5, <2>6, <2>7
<1>7. ASSUME NEW c \in Consumers, Settle(c) \/ Fault(c)
      PROVE  (InOrder /\ (\A r \in ledger : TrueRow(r) /\ r.by \in Known)
                /\ (\A d \in Consumers : \A r \in derived[d] : TrueRow(r)) /\ Recorded)'
  <2> DEFINE i == taken[c]
  <2>1. /\ stage'[c] = "idle" /\ derived'[c] = {}
        /\ \A d \in Consumers \ {c} : Same(d)
        /\ \/ done' = done
           \/ stage[c] = "settle" /\ done' = done \cup {i}
        /\ UNCHANGED <<log, facts, ledger, disordered, overlapped>>
    BY <1>7, LeavesDoes
  <2>2. Quiet /\ Known' = Known /\ done \subseteq done'
    BY <2>1 DEF Quiet, Known
  <2>3. InOrder'
    BY <2>1, <2>2 DEF TrueLedger, InOrder, Same
  <2>4. Recorded'
    <3>1. Recorded
      BY <2>2 DEF TrueLedger
    <3>2. ASSUME NEW l \in Listings, NEW d \in Consumers, Due(l, taken[d])'
          PROVE  /\ stage'[d] = "facts" => Has(derived'[d], l, taken'[d])
                 /\ stage'[d] = "changes" => Has(derived'[d] \cup ledger, l, taken'[d])
                 /\ stage'[d] = "settle" => Has(ledger, l, taken'[d])
      <4>1. CASE d = c
        BY <2>1, <4>1
      <4>2. CASE d # c
        <5>1. Same(d) /\ Due(l, taken[d])
          BY <1>2, <2>1, <3>2, <4>2 DEF Same
        <5> QED
          BY <3>1, <5>1 DEF Recorded, Same
      <4> QED
        BY <4>1, <4>2
    <3>3. ASSUME NEW l \in Listings, NEW k \in done', Due(l, k)'
          PROVE  Has(ledger, l, k)
      <4>1. Due(l, k)
        BY <1>2, <2>1, <3>3
      <4>2. CASE k \in done
        BY <3>1, <4>1, <4>2 DEF Recorded
      <4>3. CASE k \notin done
        <5>1. stage[c] = "settle" /\ k = taken[c]
          BY <2>1, <4>3
        <5> QED
          BY <3>1, <4>1, <5>1 DEF Recorded
      <4> QED
        BY <4>2, <4>3
    <3> QED
      BY <2>1, <3>2, <3>3 DEF Recorded, Has
  <2>5. \A d \in Consumers : \A r \in derived'[d] : TrueRow(r)
    BY <2>1, <2>2 DEF TrueLedger, Same
  <2> QED
    BY <1>2, <2>1, <2>2, <2>3, <2>4, <2>5 DEF TrueLedger
<1>8. CASE UNCHANGED vars
  <2>1. UNCHANGED <<log, done, facts, ledger, stage, taken, derived, disordered, overlapped>>
    BY <1>8 DEF vars, feed, tables, consumer
  <2>2. Quiet /\ Known' = Known
    BY <2>1 DEF Quiet, Known
  <2>3. InOrder' /\ Recorded'
    BY <1>2, <2>1, <2>2 DEF TrueLedger, InOrder, Recorded, Has
  <2> QED
    BY <1>2, <2>1, <2>2, <2>3 DEF TrueLedger
<1> QED
  BY <1>1, <1>3, <1>4, <1>5, <1>6, <1>7, <1>8 DEF Next, Ingest

-----------------------------------------------------------------------------
(* The theorems.                                                           *)

IInv == Shape /\ Apart /\ Opening /\ LogFit /\ TrueLedger

\* The first states satisfy the invariant.
LEMMA InitHolds == Init => IInv
<1> SUFFICES ASSUME Init PROVE IInv
  OBVIOUS
<1>1. Captured = {} /\ log = <<>> /\ done = {} /\ ledger = {} /\ Known = {}
  BY DEF Init, Captured, Known
<1>2. Apart
  BY DEF Init, Apart
<1>3. \A l : Named(l) = {}
  BY <1>1 DEF Named
<1>4. Opening
  BY <1>3 DEF Init, Opening
<1>5. LogFit
  <2>1. 1..Len(log) = {}
    BY <1>1
  <2> QED
    BY <2>1 DEF LogFit, Ordered
<1>6. TrueLedger
  <2>1. InOrder /\ Recorded
    BY <1>1, <1>3 DEF Init, InOrder, Recorded, Due
  <2> QED
    BY <1>1, <2>1 DEF Init, TrueLedger
<1> QED
  BY <1>2, <1>4, <1>5, <1>6, InitShape DEF IInv

\* Every step keeps the invariant.
LEMMA StepHolds == IInv /\ [Next]_vars => IInv'
BY StepShape, StepApart, StepOpening, StepOrdered, StepTrue DEF IInv

\* The strengthened invariant holds throughout.
THEOREM Invariance == Spec => []IInv
BY InitHolds, StepHolds, PTL DEF Spec

\* The types hold: whatever was read, what is derived from it has the values its columns can have.
THEOREM TypeCorrect == Spec => []TypeOK
<1>1. IInv => TypeOK
  BY DEF IInv, Shape
<1> QED
  BY <1>1, Invariance, PTL

\* While no two consumers hold a batch, no fact and no change row is inserted twice, however
\* often it is delivered and wherever its consumers die.
THEOREM InsertedOnce == Spec => []CountedOnce
<1>1. IInv => CountedOnce
  BY DEF IInv, Apart, CountedOnce
<1> QED
  BY <1>1, Invariance, PTL

\* A settled batch that named a listing first has left its opening row, whatever the order, the
\* deaths and the overlaps.
THEOREM OpeningKept == Spec => []OpeningRecorded
<1>1. IInv => OpeningRecorded
  BY DEF IInv, Opening, OpeningRecorded, Named, First, Opens
<1> QED
  BY <1>1, Invariance, PTL

\* A batch that names a listing comes no earlier than its first.
LEMMA NamedBy ==
  ASSUME Shape, NEW n \in Captured, NEW i \in 1..n, NEW l \in log[i].of
  PROVE  l \in Listings /\ Named(l) # {} /\ First(l) <= n /\ First(l) \in Nat
<1>1. i \in Captured /\ i \in Nat /\ n \in Nat /\ i <= n
  BY DEF Captured
<1>2. log[i] \in Batches
  BY <1>1 DEF Shape, TypeOK, Captured
<1>3. i \in Named(l) /\ l \in Listings
  BY <1>1, <1>2 DEF Named, Batches
<1>4. First(l) <= i /\ First(l) \in Nat
  BY <1>3, FirstType DEF Captured
<1> QED
  BY <1>1, <1>3, <1>4

\* Taken in the order of their times, by one consumer at a time, batches leave a ledger whose
\* latest row tells the truth of its listing, whatever deaths and redeliveries there were.
THEOREM LedgerTellsTruth == Spec => []LedgerTrue
<1>1. IInv => LedgerTrue
  <2> SUFFICES ASSUME IInv, Quiet, NEW n \in Captured, 1..n \subseteq done,
                      NEW l \in UNION {log[i].of : i \in 1..n}
               PROVE  LET rows == ChangesBefore(ledger, l, n + 1)
                      IN rows # {} /\ Core(Latest(rows).current) = Truth(l, n)
    BY DEF LedgerTrue, Quiet
  <2>1. PICK i \in 1..n : l \in log[i].of
    OBVIOUS
  <2>2. l \in Listings /\ Named(l) # {} /\ First(l) <= n
    BY <2>1, NamedBy DEF IInv
  <2> QED
    BY <2>2, LatestTrue DEF IInv
<1> QED
  BY <1>1, Invariance, PTL

\* And its rows follow one on the other.
THEOREM LedgerFollows == Spec => []LedgerChains
<1>1. IInv => LedgerChains
  <2> SUFFICES ASSUME IInv, Quiet, NEW r \in ledger
               PROVE  LET rows == ChangesBefore(ledger, r.listing, r.by)
                      IN IF rows = {} THEN r.previous = None
                         ELSE r.previous # None /\ Core(r.previous) = Core(Latest(rows).current)
    BY DEF LedgerChains, Quiet
  <2> DEFINE l == r.listing
             i == r.by
             rows == ChangesBefore(ledger, l, i)
  <2>1. Shape /\ Opening /\ LogFit /\ TrueLedger
    BY DEF IInv
  <2>2. TrueRow(r) /\ i \in Known /\ r \in Rows /\ InOrder
    BY <2>1 DEF TrueLedger, Shape, TypeOK
  <2>3. /\ l \in Listings /\ i \in Nat \ {0} /\ i \in Captured /\ Named(l) # {} /\ First(l) <= i
        /\ First(l) \in Nat /\ 1..(i - 1) \subseteq done
    BY <2>1, <2>2, FirstType DEF Rows, TrueRow, InOrder, Captured
  <2>4. CASE First(l) = i
    <3>1. rows = {}
      <4> SUFFICES ASSUME NEW d \in ledger, d.listing = l, d.by < i PROVE FALSE
        BY DEF ChangesBefore
      <4>1. First(l) <= d.by /\ d.by \in Nat
        BY <2>1 DEF Opening, Sequel, Shape, TypeOK, Rows
      <4> QED
        BY <2>3, <2>4, <4>1
    <3> QED
      BY <2>2, <2>4, <3>1 DEF TrueRow
  <2>5. CASE First(l) # i
    <3>1. i - 1 \in Captured /\ First(l) <= i - 1 /\ i - 1 + 1 = i
      BY <2>3, <2>5, FirstType, <2>1 DEF Captured
    <3>2. LET earlier == ChangesBefore(ledger, l, i - 1 + 1)
          IN earlier # {} /\ Latest(earlier) \in earlier /\ Core(Latest(earlier).current) = Truth(l, i - 1)
      BY <2>1, <2>3, <3>1, LatestTrue
    <3>3. rows # {} /\ Core(Latest(rows).current) = Truth(l, i - 1)
      BY <3>1, <3>2
    <3>4. r.previous # None /\ Core(r.previous) = Truth(l, i - 1)
      BY <2>2, <2>5 DEF TrueRow
    <3> QED
      BY <3>3, <3>4
  <2> QED
    BY <2>4, <2>5
<1> QED
  BY <1>1, Invariance, PTL

\* However consumers die, overlap or come late, what they do is what the outbox promises: a
\* batch is delivered only with its facts in, and stays delivered.
THEOREM DeliversToWarehouse == Spec => Implements
<1>1. Init => Outbox!DeliveryInit
  <2> SUFFICES ASSUME Init PROVE Outbox!DeliveryInit
    OBVIOUS
  <2>1. Captured = {} /\ Known = {} /\ done = {}
    BY DEF Init, Captured, Known
  <2> QED
    BY <2>1 DEF Outbox!DeliveryInit
<1>2. IInv => Shape
  BY DEF IInv
<1> QED
  BY <1>1, <1>2, Invariance, StepDelivers, PTL DEF Spec, Implements, Outbox!DeliverySpec
=============================================================================
