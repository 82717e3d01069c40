---------------------------- MODULE EvidenceProofs ----------------------------
(***************************************************************************)
(* The collector and the two backfills, over the SQLite store, the lake    *)
(* and PostgreSQL, for any catalogs, cards, pages, answers, days, runs,    *)
(* batch sizes, exceptions and deaths: the stores of a collector are       *)
(* ordered, its two readings of them agree, the totals of a run are those  *)
(* of its rows and its observations sum up its sightings; no object of the *)
(* lake is replaced or removed, and so what the outbox owes stays          *)
(* readable; a backfill that completes has delivered all there was when it *)
(* was begun; tables of PostgreSQL with as many rows as SQLite has for     *)
(* them have the same rows.                                                *)
(*                                                                         *)
(* The argument for the collector: no scan asks for a page that left       *)
(* anything behind, in the lake, in the table of sightings or in that of   *)
(* scans, since pages are numbered upwards within a run and a run that     *)
(* ends or dies is not taken up again.  So the three objects of a page     *)
(* are put beside what is there and never over it, its sightings replace   *)
(* none, and the n writes of a page leave exactly its first n objects, its *)
(* batch once n reaches 4 and the sightings of the cards reached (by       *)
(* induction over n).  That the readings agree is a fact about any store   *)
(* whose rows are of their types, and so needs the typing of everything a  *)
(* collector writes, sums of its counters included.  The totals of a run   *)
(* are right because each of its scans, until one of its pages fails or    *)
(* breaks, has counted exactly its rows in scans and has in unique exactly *)
(* the listings of its rows in discoveries, each of them observed; rows of *)
(* different catalogs are apart, so the sums over the catalogs are the     *)
(* counts of the rows of the run.                                          *)
(* The observation of a listing in a run sums up a set of its sightings    *)
(* there, that of every page recorded as read among them: a page adds its  *)
(* own, which is new, wherever it stops.                                   *)
(*                                                                         *)
(* The argument for the backfill: the objects of the batch in hand that    *)
(* the job has counted are in the lake, which only grows.  The batches of  *)
(* a dataset are numbered in the order of its rows; a row among more rows  *)
(* comes into the batch of its number or of a later one; so the rows that  *)
(* a checkpoint has behind it in the store as it has become are among      *)
(* those it had behind it before, which were delivered.                    *)
(*                                                                         *)
(* The argument for mutable truth in two stores: the collector projects    *)
(* what SQLite has, the backfill writes what it read there, and no row of  *)
(* SQLite is taken out.  So the rows of PostgreSQL are among those of      *)
(* SQLite, and finite sets one in the other of equal size are the same.    *)
(***************************************************************************)
EXTENDS Collector, Backfill, Mirror, FiniteSetTheorems, SequenceTheorems, WellFoundedInduction, TLAPS

-----------------------------------------------------------------------------
(* Sets of numbers.                                                        *)

\* A set of numbers has a least one.
LEMMA LeastOfNats ==
  ASSUME NEW S, S \subseteq Nat, S # {}
  PROVE  Min(S) \in S /\ \A y \in S : Min(S) <= y
<1> DEFINE Below(x) == {y \in Nat : y < x}
           T == {Below(x) : x \in S}
<1>1. T \subseteq FiniteSubsetsOf(Nat)
  <2> SUFFICES ASSUME NEW x \in S PROVE Below(x) \in SUBSET Nat /\ IsFiniteSet(Below(x))
    BY DEF FiniteSubsetsOf
  <2>1. x \in Nat /\ Below(x) \in SUBSET Nat /\ \A y \in Below(x) : y <= x
    OBVIOUS
  <2> QED
    BY <2>1, FS_BoundedSetOfNaturals
<1>2. T # {}
  OBVIOUS
<1> HIDE DEF T
<1>3. PICK D \in T : \A E \in T : ~(<<E, D>> \in StrictSubsetOrdering(Nat))
  BY <1>1, <1>2, FS_StrictSubsetOrderingWellFounded, WFMin
<1>4. PICK x \in S : D = Below(x)
  BY <1>3 DEF T
<1>5. ASSUME NEW y \in S, ~(x <= y)
      PROVE  FALSE
  <2>1. y \in Nat /\ x \in Nat /\ y < x
    BY <1>5
  <2>2. /\ Below(y) \in T /\ Below(y) \subseteq Below(x)
        /\ y \in Below(x) /\ y \notin Below(y)
    BY <2>1 DEF T
  <2>3. <<Below(y), D>> \in StrictSubsetOrdering(Nat)
    BY <1>4, <2>2 DEF StrictSubsetOrdering
  <2> QED
    BY <1>3, <2>2, <2>3
<1> QED
  BY <1>5 DEF Min

\* A finite one has a greatest one.
LEMMA GreatestOfNats ==
  ASSUME NEW S, S \subseteq Nat, IsFiniteSet(S), S # {}
  PROVE  Max(S) \in S /\ \A y \in S : y <= Max(S)
<1> DEFINE Above(x) == {y \in S : y > x}
           T == {Above(x) : x \in S}
<1>1. T \subseteq FiniteSubsetsOf(S)
  <2> SUFFICES ASSUME NEW x \in S PROVE Above(x) \in SUBSET S /\ IsFiniteSet(Above(x))
    BY DEF FiniteSubsetsOf
  <2> QED
    BY FS_Subset
<1>2. T # {}
  OBVIOUS
<1> HIDE DEF T
<1>3. PICK D \in T : \A E \in T : ~(<<E, D>> \in StrictSubsetOrdering(S))
  BY <1>1, <1>2, FS_StrictSubsetOrderingWellFounded, WFMin
<1>4. PICK x \in S : D = Above(x)
  BY <1>3 DEF T
<1>5. ASSUME NEW y \in S, ~(y <= x)
      PROVE  FALSE
  <2>1. y \in Nat /\ x \in Nat /\ y > x
    BY <1>5
  <2>2. Above(y) \in T /\ y \in Above(x) /\ y \notin Above(y)
    BY <2>1 DEF T
  <2>3. \A z \in S : z > y => z > x
    BY <2>1
  <2>4. <<Above(y), D>> \in StrictSubsetOrdering(S)
    BY <1>4, <2>2, <2>3 DEF StrictSubsetOrdering
  <2> QED
    BY <1>3, <2>2, <2>4
<1>6. \A y \in S : x >= y
  BY <1>5
<1> QED
  BY <1>6 DEF Max

\* A function of finite domain has finitely many values.
LEMMA FiniteValues ==
  ASSUME NEW S, IsFiniteSet(S), NEW f, f = [x \in S |-> f[x]]
  PROVE  IsFiniteSet({f[x] : x \in S})
<1> DEFINE T == {f[x] : x \in S}
<1>1. f \in Surjection(S, T)
  BY DEF Surjection
<1> HIDE DEF T
<1>2. IsFiniteSet(T)
  BY <1>1, FS_Surjection
<1> QED
  BY <1>2 DEF T

\* What holds at first, and with each number for the next, holds up to the last.
LEMMA Climb ==
  ASSUME NEW n \in Nat, NEW G, 0 \in G, \A i \in 0..(n - 1) : i \in G => i + 1 \in G
  PROVE  0..n \subseteq G
<1> DEFINE T == {i \in 0..n : i \notin G}
<1> SUFFICES ASSUME T # {} PROVE FALSE
  OBVIOUS
<1>1. T \subseteq Nat
  OBVIOUS
<1>2. Min(T) \in T /\ \A y \in T : Min(T) <= y
  BY <1>1, LeastOfNats
<1>3. Min(T) - 1 \in 0..(n - 1) /\ Min(T) - 1 \notin T
  BY <1>1, <1>2
<1> QED
  BY <1>2, <1>3

-----------------------------------------------------------------------------
(* The queries written twice.                                              *)

\* A probe that settles the verdict settles it alike in both.
LEMMA SettledAlike ==
  ASSUME NEW probe \in {"deleted", "sold", "active", "unavailable"},
         NEW seen \in BOOLEAN, NEW scanned \in BOOLEAN, NEW misses \in Nat, NEW age \in Ages
  PROVE  Verdict(OverviewState(probe, seen, misses, scanned, age),
                 OverviewBasis(probe, seen, misses, scanned, age),
                 OverviewConfidence(probe, seen, misses, scanned, age))
           = Evaluate(probe, seen, misses, scanned, age)
<1>1. probe \in DOMAIN Settled
  BY DEF Settled
<1>2. OverviewBasis(probe, seen, misses, scanned, age) = "observed"
  BY DEF OverviewBasis
<1> QED
  BY <1>1, <1>2 DEF Settled, Evaluate, OverviewState, OverviewConfidence

\* Where none does, the ladders infer alike.
LEMMA InferredAlike ==
  ASSUME NEW probe \in {"none", "unknown"},
         NEW seen \in BOOLEAN, NEW scanned \in BOOLEAN, NEW misses \in Nat, NEW age \in Ages
  PROVE  Verdict(OverviewState(probe, seen, misses, scanned, age),
                 OverviewBasis(probe, seen, misses, scanned, age),
                 OverviewConfidence(probe, seen, misses, scanned, age))
           = Evaluate(probe, seen, misses, scanned, age)
<1>1. probe \notin DOMAIN Settled /\ probe \notin {"deleted", "sold", "active", "unavailable"}
  BY DEF Settled
<1>2. Evaluate(probe, seen, misses, scanned, age) = Inferred(seen, misses, scanned, age)
  BY <1>1 DEF Evaluate
<1>3. CASE seen
  BY <1>1, <1>2, <1>3 DEF Inferred, OverviewState, OverviewBasis, OverviewConfidence
<1>4. CASE ~seen /\ misses >= 3
  BY <1>1, <1>2, <1>4 DEF Inferred, OverviewState, OverviewBasis, OverviewConfidence
<1>5. CASE ~seen /\ misses = 2
  BY <1>1, <1>2, <1>5 DEF Inferred, OverviewState, OverviewBasis, OverviewConfidence
<1>6. CASE ~seen /\ misses = 1
  BY <1>1, <1>2, <1>6 DEF Inferred, OverviewState, OverviewBasis, OverviewConfidence
<1>7. CASE ~seen /\ misses = 0
  BY <1>1, <1>2, <1>7 DEF Inferred, OverviewState, OverviewBasis, OverviewConfidence
<1> QED
  BY <1>3, <1>4, <1>5, <1>6, <1>7

\* On any evidence the CASE expressions of the overview say what evaluate_listing_state says.
LEMMA LaddersMeet ==
  ASSUME NEW probe \in Outcomes, NEW seen \in BOOLEAN, NEW scanned \in BOOLEAN, NEW misses \in Nat,
         NEW age \in Ages
  PROVE  Verdict(OverviewState(probe, seen, misses, scanned, age),
                 OverviewBasis(probe, seen, misses, scanned, age),
                 OverviewConfidence(probe, seen, misses, scanned, age))
           = Evaluate(probe, seen, misses, scanned, age)
BY SettledAlike, InferredAlike DEF Outcomes

\* A listing that was observed was last seen at one of its times, and misses are counted.
LEMMA SeenSometime ==
  ASSUME NEW d \in Store, NEW l \in Observed(d)
  PROVE  LastSeen(d, l) \in Nat /\ Misses(d, l) \in Nat
<1> DEFINE seen == {o.at : o \in Of(d, l)}
           runs == {s.run : s \in {s \in PrimaryScans(d, l) : s.at > LastSeen(d, l)}}
                     \ {o.run : o \in Of(d, l)}
<1>1. Times \subseteq Nat /\ IsFiniteSet(Times) /\ MaxRuns \in Nat
  BY EvidenceAssumption
<1>2. seen \subseteq Times /\ seen # {}
  BY DEF Store, StoreOf, Observed, Of
<1>3. IsFiniteSet(seen)
  BY <1>1, <1>2, FS_Subset
<1>4. Max(seen) \in Nat
  BY <1>1, <1>2, <1>3, GreatestOfNats
<1>5. runs \subseteq Runs
  BY DEF Store, StoreOf, PrimaryScans
<1>6. IsFiniteSet(Runs)
  BY <1>1, FS_Interval DEF Runs
<1>7. IsFiniteSet(runs)
  BY <1>5, <1>6, FS_Subset
<1>8. Cardinality(runs) \in Nat
  BY <1>7, FS_CardinalityType
<1> QED
  BY <1>4, <1>8 DEF LastSeen, Misses

\* A listing has a latest probe, with a conclusive or inconclusive outcome, or none before all times.
LEMMA ProbedOrNot ==
  ASSUME NEW d \in Store, NEW l \in Listings
  PROVE  /\ LatestProbe(d, l).outcome \in Outcomes
         /\ LatestProbe(d, l).outcome = "none" => LatestProbe(d, l).at = -1
<1> DEFINE P == {p \in d.probes : p.listing = l}
           when == {p.at : p \in P}
<1>1. CASE P = {}
  BY <1>1 DEF LatestProbe, Outcomes
<1>2. CASE P # {}
  <2>1. Times \subseteq Nat /\ IsFiniteSet(Times)
    BY EvidenceAssumption
  <2>2. when \subseteq Times /\ when # {}
    BY <1>2 DEF Store, StoreOf
  <2>3. Max(when) \in when /\ \A t \in when : t <= Max(when)
    BY <2>1, <2>2, FS_Subset, GreatestOfNats
  <2>4. \E p \in P : \A q \in P : q.at <= p.at
    BY <2>3
  <2>5. LatestProbe(d, l) \in P
    BY <1>2, <2>4 DEF LatestProbe
  <2>6. LatestProbe(d, l) \in [listing : Listings, at : Times, outcome : Outcomes \ {"none"}]
    BY <2>5 DEF Store, StoreOf
  <2> QED
    BY <2>6
<1> QED
  BY <1>1, <1>2

\* Any store of these tables: whom to probe, and every verdict.
LEMMA StoreReadAlike ==
  ASSUME NEW d \in Store, NEW day \in Times
  PROVE  /\ Targets(d) = {l \in Observed(d) : NeedsProbe(d, l)}
         /\ \A l \in Observed(d) : Overview(d, l, day) = Judged(d, l, day)
<1>1. Times \subseteq Nat
  BY EvidenceAssumption
<1>2. ASSUME NEW l \in Observed(d)
      PROVE  /\ l \in Targets(d) <=> NeedsProbe(d, l)
             /\ Overview(d, l, day) = Judged(d, l, day)
  <2>1. l \in Listings
    BY DEF Store, StoreOf, Observed
  <2>2. LastSeen(d, l) \in Nat /\ Misses(d, l) \in Nat
    BY SeenSometime
  <2>3. /\ LatestProbe(d, l).outcome \in Outcomes
        /\ LatestProbe(d, l).outcome = "none" => LatestProbe(d, l).at = -1
    BY <2>1, ProbedOrNot
  <2>4. l \in Targets(d) <=> NeedsProbe(d, l)
    BY <2>2, <2>3 DEF Targets, NeedsProbe
  <2>5. Age(d, l, day) \in Ages
    BY DEF Age, Ages
  <2>6. Overview(d, l, day) = Judged(d, l, day)
    BY <2>2, <2>3, <2>5, LaddersMeet DEF Overview, Judged
  <2> QED
    BY <2>4, <2>6
<1>3. Targets(d) \subseteq Observed(d)
  BY DEF Targets
<1> QED
  BY <1>2, <1>3

\* Up to four misses, then, as the runs check it.
LEMMA LaddersHold == LaddersAgree
BY LaddersMeet DEF LaddersAgree

-----------------------------------------------------------------------------
(* What a page writes.                                                     *)

\* A write of one table leaves the others.
Elsewhere(d, e, days, table) ==
  /\ e \in StoreOf(days)
  /\ \A x \in {"runs", "scans", "found", "observed", "listings", "probes"} :
       x # table => e[x] = d[x]

\* record_catalog_scan adds a row of its table.
LEMMA ScanWritten ==
  ASSUME NEW days, NEW d \in StoreOf(days), NEW r \in Runs, NEW c \in Catalogs,
         NEW p \in 1..PageLimit, NEW t \in days, NEW ok \in BOOLEAN
  PROVE  /\ Elsewhere(d, RecordScan(d, r, c, p, t, ok), days, "scans")
         /\ RecordScan(d, r, c, p, t, ok).scans =
              d.scans \cup {[run |-> r, catalog |-> c, page |-> p, at |-> t, ok |-> ok]}
BY DEF StoreOf, RecordScan, Elsewhere

\* upsert_listing keeps to its table, and dates a listing by a time that was.
LEMMA UpsertWritten ==
  ASSUME NEW days, NEW d \in StoreOf(days), NEW r \in Runs, NEW c \in Catalogs, NEW t \in days,
         NEW l \in Listings
  PROVE  Elsewhere(d, UpsertListing(d, r, c, t, l), days, "listings")
<1> DEFINE old == {x \in d.listings : x.listing = l}
           first == IF old = {} THEN t ELSE (CHOOSE x \in old : TRUE).first
           row == [listing |-> l, primary |-> c, run |-> r, first |-> first, last |-> t]
<1>1. old # {} => (CHOOSE x \in old : TRUE) \in old
  OBVIOUS
<1>2. first \in days
  BY <1>1 DEF StoreOf
<1>3. (d.listings \ old) \cup {row} \in
        SUBSET [listing : Listings, primary : Catalogs, run : Runs, first : days, last : days]
  BY <1>2 DEF StoreOf
<1>4. UpsertListing(d, r, c, t, l) = [d EXCEPT !.listings = (d.listings \ old) \cup {row}]
  BY DEF UpsertListing
<1> HIDE DEF old, first, row
<1> QED
  BY <1>3, <1>4 DEF StoreOf, Elsewhere

\* record_listing_discovery replaces the row of the same sighting, if there is one.
LEMMA DiscoveryWritten ==
  ASSUME NEW days, NEW d \in StoreOf(days), NEW r \in Runs, NEW c \in Catalogs,
         NEW p \in 1..PageLimit, NEW t \in days, NEW l \in Listings
  PROVE  /\ Elsewhere(d, RecordDiscovery(d, r, c, p, t, l), days, "found")
         /\ RecordDiscovery(d, r, c, p, t, l).found =
              {x \in d.found : <<x.run, x.listing, x.catalog, x.page>> # <<r, l, c, p>>}
                \cup {[run |-> r, listing |-> l, catalog |-> c, page |-> p, at |-> t]}
BY DEF StoreOf, RecordDiscovery, Elsewhere

\* The row of a listing in a run after one more sighting.
Sighted(x, c, t) == [x EXCEPT !.sightings = @ + 1, !.at = IF t < @ THEN t ELSE @,
                              !.catalog = IF t < x.at THEN c ELSE @]

\* A row stays one, of its run and listing, with one more sighting and the earlier time.
LEMMA SightedRow ==
  ASSUME NEW days, NEW c \in Catalogs, NEW t \in days,
         NEW x \in [run : Runs, listing : Listings, at : days, catalog : Catalogs, sightings : Nat]
  PROVE  /\ Sighted(x, c, t) \in [run : Runs, listing : Listings, at : days, catalog : Catalogs,
                                  sightings : Nat]
         /\ Sighted(x, c, t).run = x.run /\ Sighted(x, c, t).listing = x.listing
         /\ Sighted(x, c, t).sightings = x.sightings + 1
         /\ Sighted(x, c, t).at = IF t < x.at THEN t ELSE x.at
         /\ Sighted(x, c, t).catalog = IF t < x.at THEN c ELSE x.catalog
<1> PICK q \in Runs, m \in Listings, u \in days, e \in Catalogs, n \in Nat :
        x = [run |-> q, listing |-> m, at |-> u, catalog |-> e, sightings |-> n]
  OBVIOUS
<1> DEFINE counted == [x EXCEPT !.sightings = x.sightings + 1]
<1>1. counted = [run |-> q, listing |-> m, at |-> u, catalog |-> e, sightings |-> n + 1]
  OBVIOUS
<1> HIDE DEF counted
<1> DEFINE timed == [counted EXCEPT !.at = IF t < counted.at THEN t ELSE counted.at]
<1>2. timed = [run |-> q, listing |-> m, at |-> IF t < u THEN t ELSE u, catalog |-> e,
               sightings |-> n + 1]
  BY <1>1
<1>3. Sighted(x, c, t) = [timed EXCEPT !.catalog = IF t < x.at THEN c ELSE timed.catalog]
  BY Zenon DEF Sighted, counted
<1> HIDE DEF timed
<1>4. Sighted(x, c, t) = [run |-> q, listing |-> m, at |-> IF t < u THEN t ELSE u,
                          catalog |-> IF t < u THEN c ELSE e, sightings |-> n + 1]
  BY <1>2, <1>3
<1> QED
  BY <1>4

\* record_listing_observation keeps one row a run and listing.
LEMMA ObservationWritten ==
  ASSUME NEW days, NEW d \in StoreOf(days), NEW r \in Runs, NEW c \in Catalogs, NEW t \in days,
         NEW l \in Listings
  PROVE  LET old == {x \in d.observed : x.run = r /\ x.listing = l}
             new == [run |-> r, listing |-> l, at |-> t, catalog |-> c, sightings |-> 1]
         IN /\ Elsewhere(d, RecordObservation(d, r, c, t, l), days, "observed")
            /\ RecordObservation(d, r, c, t, l).observed =
                 (d.observed \ old) \cup IF old = {} THEN {new} ELSE {Sighted(x, c, t) : x \in old}
<1> DEFINE old == {x \in d.observed : x.run = r /\ x.listing = l}
           new == [run |-> r, listing |-> l, at |-> t, catalog |-> c, sightings |-> 1]
           rows == IF old = {} THEN {new} ELSE {Sighted(x, c, t) : x \in old}
           Kept == [run : Runs, listing : Listings, at : days, catalog : Catalogs, sightings : Nat]
<1>1. \A x \in Kept : Sighted(x, c, t) \in Kept
  BY SightedRow
<1>2. d.observed \subseteq Kept
  BY DEF StoreOf
<1>3. new \in Kept
  OBVIOUS
<1>4. rows \subseteq Kept
  BY <1>1, <1>2, <1>3
<1>5. RecordObservation(d, r, c, t, l) = [d EXCEPT !.observed = (d.observed \ old) \cup rows]
  BY DEF RecordObservation, Sighted
<1> HIDE DEF old, new, rows
<1>6. (d.observed \ old) \cup rows \subseteq Kept
  BY <1>2, <1>4
<1>7. /\ [d EXCEPT !.observed = (d.observed \ old) \cup rows] \in StoreOf(days)
      /\ \A x \in {"runs", "scans", "found", "listings", "probes"} :
           [d EXCEPT !.observed = (d.observed \ old) \cup rows][x] = d[x]
      /\ [d EXCEPT !.observed = (d.observed \ old) \cup rows].observed = (d.observed \ old) \cup rows
  BY <1>6 DEF StoreOf
<1> QED
  BY <1>5, <1>7 DEF Elsewhere, old, new, rows

\* The rows of a listing in a run, and those a further sighting makes of them.
Rows(d, q, l) == {o \in d.observed : o.run = q /\ o.listing = l}
Resighted(old, r, c, t, l) ==
  IF old = {} THEN {[run |-> r, listing |-> l, at |-> t, catalog |-> c, sightings |-> 1]}
  ELSE {Sighted(x, c, t) : x \in old}

\* A further sighting is the business of one listing in one run.
LEMMA RowsResighted ==
  ASSUME NEW d \in Store, NEW r \in Runs, NEW c \in Catalogs, NEW t \in Times, NEW l \in Listings,
         NEW q, NEW m
  PROVE  Rows(RecordObservation(d, r, c, t, l), q, m)
           = (IF q = r /\ m = l THEN Resighted(Rows(d, r, l), r, c, t, l) ELSE Rows(d, q, m))
<1> DEFINE e == RecordObservation(d, r, c, t, l)
           old == Rows(d, r, l)
           new == Resighted(old, r, c, t, l)
<1>1. e.observed = (d.observed \ old) \cup new
  BY ObservationWritten DEF Store, Rows, Resighted
<1>2. ASSUME NEW x \in new
      PROVE  x.run = r /\ x.listing = l
  <2>1. CASE old = {}
    BY <1>2, <2>1 DEF Resighted
  <2>2. CASE old # {}
    <3>1. PICK y \in old : x = Sighted(y, c, t)
      BY <1>2, <2>2 DEF Resighted
    <3>2. /\ y \in [run : Runs, listing : Listings, at : Times, catalog : Catalogs, sightings : Nat]
          /\ y.run = r /\ y.listing = l
      BY DEF Rows, Store, StoreOf
    <3> QED
      BY <3>1, <3>2, SightedRow
  <2> QED
    BY <2>1, <2>2
<1> HIDE DEF e, new
<1>3. \A x \in old : x.run = r /\ x.listing = l
  BY DEF Rows
<1>4. \A x \in d.observed : x.run = r /\ x.listing = l => x \in old
  BY DEF Rows
<1> HIDE DEF old
<1>5. CASE q = r /\ m = l
  <2>1. {o \in e.observed : o.run = r /\ o.listing = l} = new
    BY <1>1, <1>2, <1>4
  <2> QED
    BY <1>5, <2>1 DEF Rows, e, new, old
<1>6. CASE ~(q = r /\ m = l)
  <2>1. {o \in e.observed : o.run = q /\ o.listing = m}
          = {o \in d.observed : o.run = q /\ o.listing = m}
    BY <1>1, <1>2, <1>3, <1>6
  <2> QED
    BY <1>6, <2>1 DEF Rows, e
<1> QED
  BY <1>5, <1>6, Zenon DEF e, new, old

\* A run has an observation of a listing.
Noted(d, q, l) == Rows(d, q, l) # {}

\* Recording one keeps those there are.
LEMMA NotedOnceMore ==
  ASSUME NEW d \in Store, NEW r \in Runs, NEW c \in Catalogs, NEW t \in Times, NEW l \in Listings,
         NEW q, NEW m, Noted(d, q, m) \/ (q = r /\ m = l)
  PROVE  Noted(RecordObservation(d, r, c, t, l), q, m)
<1>1. Resighted(Rows(d, r, l), r, c, t, l) # {}
  BY DEF Resighted
<1> QED
  BY <1>1, RowsResighted DEF Noted

\* An observation that sums up the sightings K, and none if there are none: their number, the earliest
\* time, and a catalog of that time.
SumsUp(rows, K) ==
  /\ IsFiniteSet(K)
  /\ K = {} => rows = {}
  /\ K # {} => \E o \in rows : /\ rows = {o} /\ o.sightings = Cardinality(K)
                               /\ \A f \in K : o.at <= f.at
                               /\ \E f \in K : f.at = o.at /\ f.catalog = o.catalog

\* A further sighting makes it sum up one more, whether it is earlier than the others or later.
LEMMA SummedOnceMore ==
  ASSUME NEW d \in Store, NEW r \in Runs, NEW c \in Catalogs, NEW t \in Times, NEW l \in Listings,
         NEW K, SumsUp(Rows(d, r, l), K), \A x \in K : x.at \in Nat,
         NEW f, f \notin K, f.at = t, f.catalog = c
  PROVE  SumsUp(Resighted(Rows(d, r, l), r, c, t, l), K \cup {f})
<1> DEFINE old == Rows(d, r, l)
           new == [run |-> r, listing |-> l, at |-> t, catalog |-> c, sightings |-> 1]
<1>1. t \in Nat
  BY EvidenceAssumption
<1>2. /\ IsFiniteSet(K) /\ IsFiniteSet(K \cup {f}) /\ Cardinality(K) \in Nat
      /\ Cardinality(K \cup {f}) = Cardinality(K) + 1
  <2>1. IsFiniteSet(K)
    BY DEF SumsUp
  <2> QED
    BY <2>1, FS_AddElement, FS_CardinalityType
<1>3. CASE K = {}
  <2>1. Resighted(old, r, c, t, l) = {new} /\ Cardinality(K) = 0
    BY <1>3, FS_EmptySet DEF SumsUp, Resighted
  <2>2. /\ new.sightings = Cardinality(K \cup {f})
        /\ \A x \in K \cup {f} : new.at <= x.at
        /\ \E x \in K \cup {f} : x.at = new.at /\ x.catalog = new.catalog
    BY <1>1, <1>2, <1>3, <2>1
  <2> HIDE DEF new, old
  <2> QED
    BY <1>2, <2>1, <2>2 DEF SumsUp, old
<1>4. CASE K # {}
  <2>1. PICK o \in old : /\ old = {o} /\ o.sightings = Cardinality(K)
                         /\ \A x \in K : o.at <= x.at
                         /\ \E x \in K : x.at = o.at /\ x.catalog = o.catalog
    BY <1>4 DEF SumsUp
  <2>2. o \in [run : Runs, listing : Listings, at : Times, catalog : Catalogs, sightings : Nat]
    BY DEF Rows, Store, StoreOf
  <2>3. PICK y : y = Sighted(o, c, t)
    OBVIOUS
  <2>4. /\ y.sightings = o.sightings + 1
        /\ y.at = IF t < o.at THEN t ELSE o.at
        /\ y.catalog = IF t < o.at THEN c ELSE o.catalog
    BY <2>2, <2>3, SightedRow
  <2>5. Resighted(old, r, c, t, l) = {y}
    BY <2>1, <2>3 DEF Resighted
  <2>6. o.at \in Nat
    BY <2>2, EvidenceAssumption
  <2> HIDE DEF old
  <2>7. \A x \in K \cup {f} : y.at <= x.at
    BY <1>1, <2>1, <2>4, <2>6
  <2>8. \E x \in K \cup {f} : x.at = y.at /\ x.catalog = y.catalog
    BY <2>1, <2>4
  <2> QED
    BY <1>2, <2>1, <2>4, <2>5, <2>7, <2>8 DEF SumsUp, old
<1> QED
  BY <1>3, <1>4

\* A world is its three stores.
WorldOf(d, objects, batches) == [db |-> d, lake |-> objects, published |-> batches]
Along(batches, x) == batches \cup {x}

DeedOf(kind, x) == [do |-> kind, of |-> x]

\* What each deed does to a world.
LEMMA DeedDone ==
  ASSUME NEW d, NEW objects, NEW batches, NEW r, NEW c, NEW p, NEW t, NEW x
  PROVE  /\ Does(WorldOf(d, objects, batches), r, c, p, t, DeedOf("put", x))
              = WorldOf(d, Put(objects, x), batches)
         /\ Does(WorldOf(d, objects, batches), r, c, p, t, DeedOf("publish", x))
              = WorldOf(d, objects, Along(batches, x))
         /\ Does(WorldOf(d, objects, batches), r, c, p, t, DeedOf("upsert", x))
              = WorldOf(UpsertListing(d, r, c, t, x), objects, batches)
         /\ Does(WorldOf(d, objects, batches), r, c, p, t, DeedOf("discover", x))
              = WorldOf(RecordDiscovery(d, r, c, p, t, x), objects, batches)
         /\ Does(WorldOf(d, objects, batches), r, c, p, t, DeedOf("observe", x))
              = WorldOf(RecordObservation(d, r, c, t, x), objects, batches)
BY DEF Does, DeedOf, WorldOf, Along

\* The deeds of a page that has rows.
LEMMA DeedsOfPage ==
  ASSUME NEW r, NEW c, NEW p, NEW t, NEW of \in Seq(Listings), of # <<>>
  PROVE  LET b == PageBatch(r, c, p, t, of)
             D == Deeds(r, c, p, t, of)
         IN /\ Len(D) = 4 + 3 * Len(of) /\ Len(D) \in Nat
            /\ \A i \in 1..3 : D[i] = DeedOf("put", Objects(b)[i])
            /\ D[4] = DeedOf("publish", b)
            /\ \A k \in 1..Len(of) : /\ D[3 * k + 2] = DeedOf("upsert", of[k])
                                     /\ D[3 * k + 3] = DeedOf("discover", of[k])
                                     /\ D[3 * k + 4] = DeedOf("observe", of[k])
<1> DEFINE b == PageBatch(r, c, p, t, of)
           B == BatchDeeds(b)
           K == CardDeeds(of)
<1>1. Len(of) \in Nat
  BY LenProperties
<1>2. Len(B) = 4 /\ \A i \in 1..3 : B[i] = DeedOf("put", Objects(b)[i])
  BY DEF BatchDeeds, DeedOf
<1>3. B[4] = DeedOf("publish", b)
  BY DEF BatchDeeds, DeedOf
<1>4. Len(K) = 3 * Len(of)
  BY <1>1 DEF CardDeeds
<1>5. ASSUME NEW k \in 1..Len(of)
      PROVE  /\ K[3 * k - 2] = DeedOf("upsert", of[k])
             /\ K[3 * k - 1] = DeedOf("discover", of[k])
             /\ K[3 * k] = DeedOf("observe", of[k])
  <2>1. /\ 3 * k - 2 \in 1..(3 * Len(of)) /\ 3 * k - 1 \in 1..(3 * Len(of))
        /\ 3 * k \in 1..(3 * Len(of))
    BY <1>1
  <2>2. /\ (3 * k - 2 - 1) % 3 = 0 /\ (3 * k - 2 - 1) \div 3 = k - 1
        /\ (3 * k - 1 - 1) % 3 = 1 /\ (3 * k - 1 - 1) \div 3 = k - 1
        /\ (3 * k - 1) % 3 = 2 /\ (3 * k - 1) \div 3 = k - 1
    BY <1>1
  <2> QED
    BY <2>1, <2>2 DEF CardDeeds, DeedOf
<1>6. Deeds(r, c, p, t, of) = B \o K
  BY DEF Deeds
<1>7. B \o K = [i \in 1..(4 + 3 * Len(of)) |-> IF i <= 4 THEN B[i] ELSE K[i - 4]]
  <2> DEFINE S == {B[i] : i \in 1..4} \cup {K[i] : i \in 1..(3 * Len(of))}
  <2>1. B \in Seq(S) /\ DOMAIN B = 1..4
    BY DEF BatchDeeds
  <2>2. K \in Seq(S) /\ DOMAIN K = 1..(3 * Len(of))
    <3>1. K \in [1..(3 * Len(of)) -> S]
      BY DEF CardDeeds
    <3> QED
      BY <1>1, <3>1, SeqDef
  <2> HIDE DEF B, K, S
  <2>3. /\ B \o K \in Seq(S) /\ Len(B \o K) = Len(B) + Len(K)
        /\ \A i \in 1..Len(B) + Len(K) : (B \o K)[i] = IF i <= Len(B) THEN B[i] ELSE K[i - Len(B)]
    BY <2>1, <2>2, ConcatProperties
  <2>4. B \o K = [i \in 1..(Len(B) + Len(K)) |-> (B \o K)[i]]
    BY <2>3, LenProperties
  <2> QED
    BY <1>2, <1>4, <2>3, <2>4
<1> HIDE DEF B, K
<1> DEFINE D == B \o K
<1>8. D = [i \in 1..(4 + 3 * Len(of)) |-> IF i <= 4 THEN B[i] ELSE K[i - 4]]
  BY <1>7
<1> HIDE DEF D
<1>9. \A i \in 1..4 : D[i] = B[i]
  BY <1>1, <1>8
<1>10. \A k \in 1..Len(of) : /\ D[3 * k + 2] = K[3 * k - 2]
                             /\ D[3 * k + 3] = K[3 * k - 1]
                             /\ D[3 * k + 4] = K[3 * k]
  BY <1>1, <1>8
<1>11. Len(D) = 4 + 3 * Len(of)
  BY <1>1, <1>8
<1> HIDE DEF b
<1>12. /\ \A i \in 1..3 : D[i] = DeedOf("put", Objects(b)[i])
       /\ D[4] = DeedOf("publish", b)
  BY <1>2, <1>3, <1>9
<1>13. \A k \in 1..Len(of) : /\ D[3 * k + 2] = DeedOf("upsert", of[k])
                             /\ D[3 * k + 3] = DeedOf("discover", of[k])
                             /\ D[3 * k + 4] = DeedOf("observe", of[k])
  BY <1>5, <1>10
<1>14. Len(D) \in Nat
  BY <1>1, <1>11
<1> QED
  BY <1>6, <1>11, <1>12, <1>13, <1>14, Zenon DEF b, D

\* A page's worlds, one after each deed.
Goes(w, r, c, p, t, of, n) ==
  w = [i \in 0..n |-> IF i = 0 THEN World ELSE Does(w[i - 1], r, c, p, t, Deeds(r, c, p, t, of)[i])]

\* The worlds of n deeds and one more.
LEMMA GoesOn ==
  ASSUME NEW r, NEW c, NEW p, NEW t, NEW of, NEW n \in Nat, NEW w, Goes(w, r, c, p, t, of, n)
  PROVE  \E v : Goes(v, r, c, p, t, of, n + 1)
<1> DEFINE D == Deeds(r, c, p, t, of)
           v == [i \in 0..(n + 1) |-> IF i = n + 1 THEN Does(w[n], r, c, p, t, D[n + 1]) ELSE w[i]]
<1>1. ASSUME NEW i \in 0..(n + 1)
      PROVE  v[i] = IF i = 0 THEN World ELSE Does(v[i - 1], r, c, p, t, D[i])
  <2>1. CASE i = n + 1
    BY <2>1
  <2>2. CASE i # n + 1
    <3>1. i \in 0..n /\ v[i] = w[i] /\ (i # 0 => v[i - 1] = w[i - 1])
      BY <2>2
    <3> QED
      BY <3>1 DEF Goes
  <2> QED
    BY <2>1, <2>2
<1>2. v = [i \in 0..(n + 1) |-> v[i]]
  OBVIOUS
<1> HIDE DEF v
<1>3. Goes(v, r, c, p, t, of, n + 1)
  BY <1>1, <1>2 DEF Goes
<1> QED
  BY <1>3

\* The world after n deeds is the last of such a sequence.
LEMMA AfterDeeds ==
  ASSUME NEW r, NEW c, NEW p, NEW t, NEW of, NEW n \in Nat
  PROVE  \E w : Goes(w, r, c, p, t, of, n) /\ After(r, c, p, t, of, n) = w[n]
<1> DEFINE G == {i \in 0..n : \E w : Goes(w, r, c, p, t, of, i)}
<1>1. 0 \in G
  <2>1. Goes([i \in 0..0 |-> World], r, c, p, t, of, 0)
    BY DEF Goes
  <2> QED
    BY <2>1
<1>2. \A i \in 0..(n - 1) : i \in G => i + 1 \in G
  BY GoesOn
<1>3. n \in G
  <2> HIDE DEF G
  <2> QED
    BY <1>1, <1>2, Climb
<1>4. PICK g : Goes(g, r, c, p, t, of, n)
  BY <1>3
<1> QED
  BY <1>4 DEF After, Goes

-----------------------------------------------------------------------------
(* The argument: the pages a run has asked for.                            *)

ScanStates == [stage : {"none", "asks", "done", "crashed"}, page : 1..PageLimit, at : Times,
               ok : Nat, failed : Nat, unique : SUBSET Listings]

\* Nothing is stored of page p of a catalog in a run, or of a later page.
Untouched(r, c, p) ==
  /\ \A o \in lake : o.key[2][1] = "page" /\ o.key[2][2] = r /\ o.key[2][3] = c
                    => o.key[2][4] \in 1..(p - 1)
  /\ \A f \in db.found : f.run = r /\ f.catalog = c => f.page \in 1..(p - 1)
  /\ \A s \in db.scans : s.run = r /\ s.catalog = c => s.page \in 1..(p - 1)

\* The page that a scan asks for is new, and so is a run that has not begun.
Ahead(r, c) ==
  /\ \A p \in 1..PageLimit : scan[r][c].stage = "asks" /\ scan[r][c].page = p => Untouched(r, c, p)
  /\ db.runs[r].status = "none" => Untouched(r, c, 1) /\ scan[r][c] = Idle
PagesAhead == \A r \in Runs, c \in Catalogs : Ahead(r, c)

\* The first j objects of a batch.
FirstOf(b, j) == {Objects(b)[i] : i \in {i \in 1..3 : i <= j}}

LakeWith(b, j) == lake \cup FirstOf(b, j)
Nth(s, j) == s[j]

\* The world after i deeds of a page.
Found(r, c, p, t, l) == [run |-> r, listing |-> l, catalog |-> c, page |-> p, at |-> t]
Batches(b, i) == published \cup (IF i >= 4 THEN {b} ELSE {})
Sightings(r, c, p, t, of, i) ==
  {Found(r, c, p, t, of[k]) : k \in {k \in 1..Len(of) : 3 * k + 3 <= i}}
Stored(of, l, i) == \E k \in 1..Len(of) : 3 * k + 4 <= i /\ of[k] = l
Notes(d, r, of, i) ==
  \A q, l : Noted(db, q, l) \/ (q = r /\ Stored(of, l, i)) => Noted(d, q, l)
Apart(of) == \A j, k \in 1..Len(of) : of[j] = of[k] => j = k
Seen(r, c, p, t, of, i, q, l) ==
  IF q = r /\ Stored(of, l, i) THEN {Found(r, c, p, t, l)} ELSE {}
Sums(d, r, c, p, t, of, i) ==
  Apart(of) => \A q, l : \A K \in SUBSET db.found :
    SumsUp(Rows(db, q, l), K) => SumsUp(Rows(d, q, l), K \cup Seen(r, c, p, t, of, i, q, l))
PageStores(d, objects, batches, r, c, p, t, of, i) ==
  /\ d \in Store
  /\ Notes(d, r, of, i) /\ Sums(d, r, c, p, t, of, i)
  /\ d.runs = db.runs /\ d.scans = db.scans /\ d.probes = db.probes
  /\ objects = LakeWith(PageBatch(r, c, p, t, of), i)
  /\ batches = Batches(PageBatch(r, c, p, t, of), i)
  /\ d.found = db.found \cup Sightings(r, c, p, t, of, i)
PageWorld(w, r, c, p, t, of, i) ==
  \E d, objects, batches : /\ w = WorldOf(d, objects, batches)
                           /\ PageStores(d, objects, batches, r, c, p, t, of, i)

\* The objects of a batch are kept under its identity, and apart from one another.
LEMMA KeysOfBatch ==
  ASSUME NEW b
  PROVE  /\ \A i \in 1..3 : Objects(b)[i].key[2] = b.id
         /\ \A i, j \in 1..3 : i # j => Objects(b)[i].key # Objects(b)[j].key
<1>1. /\ Objects(b)[1].key = <<"event", b.id>>
      /\ Objects(b)[2].key = <<"parquet", b.id>>
      /\ Objects(b)[3].key = <<"manifest", b.id, b.told, b.rows>>
  BY DEF Objects, EventObject, RowsObject, ManifestObject, Object
<1>2. /\ Objects(b)[1].key[1] = "event" /\ Objects(b)[2].key[1] = "parquet"
      /\ Objects(b)[3].key[1] = "manifest"
      /\ \A i \in 1..3 : Objects(b)[i].key[2] = b.id
  BY <1>1
<1> QED
  BY <1>2

\* The objects of a new page are put beside what is there.
LEMMA PageObjectsNew ==
  ASSUME NEW r \in Runs, NEW c \in Catalogs, NEW p \in 1..PageLimit, NEW t, NEW of,
         NEW j \in 1..3, Untouched(r, c, p)
  PROVE  LET b == PageBatch(r, c, p, t, of)
         IN Put(LakeWith(b, j - 1), Nth(Objects(b), j)) = LakeWith(b, j)
<1> DEFINE b == PageBatch(r, c, p, t, of)
           O == Objects(b)
           L == lake \cup FirstOf(b, j - 1)
<1>1. b.id = <<"page", r, c, p, t>>
  BY DEF PageBatch
<1>2. \A i \in 1..3 : O[i].key[2] = b.id
  BY KeysOfBatch
<1>3. \A o \in lake : o.key # O[j].key
  <2> SUFFICES ASSUME NEW o \in lake, o.key = O[j].key PROVE FALSE
    OBVIOUS
  <2>1. o.key[2] = <<"page", r, c, p, t>>
    BY <1>1, <1>2
  <2>2. /\ o.key[2][1] = "page" /\ o.key[2][2] = r /\ o.key[2][3] = c /\ o.key[2][4] = p
    BY <2>1
  <2>3. p \in Nat
    BY EvidenceAssumption
  <2> QED
    BY <2>2, <2>3 DEF Untouched
<1>4. \A x \in L : x.key # O[j].key
  BY <1>3, KeysOfBatch DEF FirstOf
<1>5. Put(L, O[j]) = L \cup {O[j]}
  BY <1>4 DEF Put
<1>6. FirstOf(b, j) = FirstOf(b, j - 1) \cup {O[j]}
  BY DEF FirstOf
<1> QED
  BY <1>5, <1>6 DEF LakeWith, Nth

\* A deed is an object, the publication, or one of the three writes of a card.
LEMMA DeedKinds ==
  ASSUME NEW n \in Nat, NEW i \in 1..(4 + 3 * n)
  PROVE  \/ i \in 1..3 \/ i = 4
         \/ \E k \in 1..n : i = 3 * k + 2 \/ i = 3 * k + 3 \/ i = 3 * k + 4
<1> SUFFICES ASSUME i > 4
             PROVE  \E k \in 1..n : i = 3 * k + 2 \/ i = 3 * k + 3 \/ i = 3 * k + 4
  OBVIOUS
<1> DEFINE k == (i - 2) \div 3
<1>1. k \in Int /\ 3 * k <= i - 2 /\ i - 2 < 3 * k + 3
  OBVIOUS
<1> HIDE DEF k
<1>2. k \in 1..n /\ (i = 3 * k + 2 \/ i = 3 * k + 3 \/ i = 3 * k + 4)
  BY <1>1
<1> QED
  BY <1>2

\* What the deeds before the i-th and those up to it have written, apart from the tables of the card.
LEMMA PageGrows ==
  ASSUME NEW r, NEW c, NEW p, NEW t, NEW of \in Seq(Listings), NEW i \in 1..(4 + 3 * Len(of))
  PROVE  LET b == PageBatch(r, c, p, t, of)
         IN /\ i # 4 => Batches(b, i) = Batches(b, i - 1)
            /\ Batches(b, 4) = Along(Batches(b, 3), b)
            /\ i > 3 => LakeWith(b, i) = LakeWith(b, i - 1)
            /\ (\A k \in 1..Len(of) : i # 3 * k + 3)
                 => Sightings(r, c, p, t, of, i) = Sightings(r, c, p, t, of, i - 1)
            /\ \A k \in 1..Len(of) : i = 3 * k + 3 =>
                 Sightings(r, c, p, t, of, i)
                   = Along(Sightings(r, c, p, t, of, i - 1), Found(r, c, p, t, of[k]))
            /\ (\A k \in 1..Len(of) : i # 3 * k + 4)
                 => \A l : Stored(of, l, i) <=> Stored(of, l, i - 1)
            /\ \A k \in 1..Len(of) : i = 3 * k + 4 =>
                 \A l : Stored(of, l, i) <=> Stored(of, l, i - 1) \/ l = of[k]
<1> DEFINE b == PageBatch(r, c, p, t, of)
<1>1. Len(of) \in Nat
  BY LenProperties
<1>2. /\ i # 4 => Batches(b, i) = Batches(b, i - 1)
      /\ Batches(b, 4) = Along(Batches(b, 3), b)
  BY <1>1 DEF Batches, Along
<1>3. i > 3 => LakeWith(b, i) = LakeWith(b, i - 1)
  BY <1>1 DEF LakeWith, FirstOf
<1>4. ASSUME \A k \in 1..Len(of) : i # 3 * k + 3
      PROVE  Sightings(r, c, p, t, of, i) = Sightings(r, c, p, t, of, i - 1)
  <2>1. \A k \in 1..Len(of) : 3 * k + 3 <= i <=> 3 * k + 3 <= i - 1
    BY <1>1, <1>4
  <2>2. {k \in 1..Len(of) : 3 * k + 3 <= i} = {k \in 1..Len(of) : 3 * k + 3 <= i - 1}
    BY <2>1
  <2> QED
    BY <2>2 DEF Sightings
<1>5. ASSUME NEW k \in 1..Len(of), i = 3 * k + 3
      PROVE  Sightings(r, c, p, t, of, i)
               = Along(Sightings(r, c, p, t, of, i - 1), Found(r, c, p, t, of[k]))
  <2>1. {m \in 1..Len(of) : 3 * m + 3 <= i} = {m \in 1..Len(of) : 3 * m + 3 <= i - 1} \cup {k}
    BY <1>1, <1>5
  <2> QED
    BY <2>1 DEF Sightings, Along
<1>6. ASSUME \A k \in 1..Len(of) : i # 3 * k + 4
      PROVE  \A l : Stored(of, l, i) <=> Stored(of, l, i - 1)
  <2>1. \A k \in 1..Len(of) : 3 * k + 4 <= i <=> 3 * k + 4 <= i - 1
    BY <1>1, <1>6
  <2> QED
    BY <2>1 DEF Stored
<1>7. ASSUME NEW k \in 1..Len(of), i = 3 * k + 4
      PROVE  \A l : Stored(of, l, i) <=> Stored(of, l, i - 1) \/ l = of[k]
  <2>1. \A m \in 1..Len(of) : 3 * m + 4 <= i <=> 3 * m + 4 <= i - 1 \/ m = k
    BY <1>1, <1>7
  <2> QED
    BY <2>1 DEF Stored
<1> QED
  BY <1>2, <1>3, <1>4, <1>5, <1>6, <1>7

\* Three stores that are as they should be make such a world.
LEMMA WorldReached ==
  ASSUME NEW d, NEW objects, NEW batches, NEW r, NEW c, NEW p, NEW t, NEW of, NEW i,
         PageStores(d, objects, batches, r, c, p, t, of, i)
  PROVE  PageWorld(WorldOf(d, objects, batches), r, c, p, t, of, i)
BY DEF PageWorld

\* The observation of a card, if no other card of the page is of its listing.
LEMMA CardSummed ==
  ASSUME NEW r \in Runs, NEW c \in Catalogs, NEW p \in 1..PageLimit, NEW t \in Times,
         NEW of \in Seq(Listings), Untouched(r, c, p), db \in Store,
         NEW k \in 1..Len(of), NEW i, i = 3 * k + 4,
         NEW d \in Store, Sums(d, r, c, p, t, of, i - 1)
  PROVE  Sums(RecordObservation(d, r, c, t, of[k]), r, c, p, t, of, i)
<1> DEFINE l == of[k]
           e == RecordObservation(d, r, c, t, l)
           f == Found(r, c, p, t, l)
<1> SUFFICES ASSUME Apart(of), NEW q, NEW m, NEW K \in SUBSET db.found, SumsUp(Rows(db, q, m), K)
             PROVE  SumsUp(Rows(e, q, m), K \cup Seen(r, c, p, t, of, i, q, m))
  BY DEF Sums
<1>1. Len(of) \in Nat /\ l \in Listings /\ p \in Nat /\ t \in Nat
  <2>1. Len(of) \in Nat /\ l \in Listings
    BY LenProperties, ElementOfSeq
  <2>2. PageLimit \in Nat /\ Times \subseteq Nat
    BY EvidenceAssumption
  <2> QED
    BY <2>1, <2>2
<1>2. SumsUp(Rows(d, q, m), K \cup Seen(r, c, p, t, of, i - 1, q, m))
  BY DEF Sums
<1>3. CASE q = r /\ m = l
  <2>1. Stored(of, l, i)
    BY <1>1 DEF Stored
  <2>2. ~Stored(of, l, i - 1)
    BY <1>1 DEF Stored, Apart
  <2>3. Seen(r, c, p, t, of, i, q, m) = {f} /\ Seen(r, c, p, t, of, i - 1, q, m) = {}
    BY <1>3, <2>1, <2>2 DEF Seen
  <2>4. f.run = r /\ f.catalog = c /\ f.page = p /\ f.at = t
    BY DEF Found
  <2> HIDE DEF f, l
  <2>5. f \notin K
    BY <1>1, <2>4 DEF Untouched
  <2>6. \A x \in K : x.at \in Nat
    BY EvidenceAssumption DEF Store, StoreOf
  <2>7. SumsUp(Rows(d, r, l), K)
    BY <1>2, <1>3, <2>3
  <2>8. Rows(e, q, m) = Resighted(Rows(d, r, l), r, c, t, l)
    BY <1>1, <1>3, RowsResighted
  <2>9. SumsUp(Resighted(Rows(d, r, l), r, c, t, l), K \cup {f})
    BY <1>1, <2>4, <2>5, <2>6, <2>7, SummedOnceMore
  <2> QED
    BY <2>3, <2>8, <2>9
<1>4. CASE ~(q = r /\ m = l)
  <2>1. Rows(e, q, m) = Rows(d, q, m)
    BY <1>1, <1>4, RowsResighted
  <2>2. q = r => (Stored(of, m, i) <=> Stored(of, m, i - 1))
    <3>1. \A j \in 1..Len(of) : 3 * j + 4 <= i <=> 3 * j + 4 <= i - 1 \/ j = k
      BY <1>1
    <3> QED
      BY <1>4, <3>1 DEF Stored
  <2>3. Seen(r, c, p, t, of, i, q, m) = Seen(r, c, p, t, of, i - 1, q, m)
    BY <2>2 DEF Seen
  <2> QED
    BY <1>2, <2>1, <2>3
<1> QED
  BY <1>3, <1>4

\* One deed further along a page that is new.
LEMMA NextDeed ==
  ASSUME NEW r \in Runs, NEW c \in Catalogs, NEW p \in 1..PageLimit, NEW t \in Times,
         NEW of \in Seq(Listings), of # <<>>, db \in Store, Untouched(r, c, p),
         NEW i \in 1..Len(Deeds(r, c, p, t, of)),
         NEW w, PageWorld(w, r, c, p, t, of, i - 1)
  PROVE  PageWorld(Does(w, r, c, p, t, Deeds(r, c, p, t, of)[i]), r, c, p, t, of, i)
<1> DEFINE D == Deeds(r, c, p, t, of)
           b == PageBatch(r, c, p, t, of)
           O == Objects(b)
<1> PICK d, objects, batches : /\ w = WorldOf(d, objects, batches)
                               /\ PageStores(d, objects, batches, r, c, p, t, of, i - 1)
  BY DEF PageWorld
<1>1. /\ d \in Store /\ Notes(d, r, of, i - 1) /\ Sums(d, r, c, p, t, of, i - 1)
      /\ d.runs = db.runs /\ d.scans = db.scans /\ d.probes = db.probes
      /\ objects = LakeWith(b, i - 1)
      /\ batches = Batches(b, i - 1)
      /\ d.found = db.found \cup Sightings(r, c, p, t, of, i - 1)
  BY DEF PageStores
<1>2. /\ Len(D) = 4 + 3 * Len(of)
      /\ \A j \in 1..3 : D[j] = DeedOf("put", O[j])
      /\ D[4] = DeedOf("publish", b)
      /\ \A k \in 1..Len(of) : /\ D[3 * k + 2] = DeedOf("upsert", of[k])
                               /\ D[3 * k + 3] = DeedOf("discover", of[k])
                               /\ D[3 * k + 4] = DeedOf("observe", of[k])
  BY DeedsOfPage
<1>3. Len(of) \in Nat /\ i \in 1..(4 + 3 * Len(of))
  BY <1>2, LenProperties
<1>4. /\ i # 4 => Batches(b, i) = Batches(b, i - 1)
      /\ Batches(b, 4) = Along(Batches(b, 3), b)
      /\ i > 3 => LakeWith(b, i) = LakeWith(b, i - 1)
      /\ (\A k \in 1..Len(of) : i # 3 * k + 3)
           => Sightings(r, c, p, t, of, i) = Sightings(r, c, p, t, of, i - 1)
      /\ \A k \in 1..Len(of) : i = 3 * k + 3 =>
           Sightings(r, c, p, t, of, i)
             = Along(Sightings(r, c, p, t, of, i - 1), Found(r, c, p, t, of[k]))
      /\ (\A k \in 1..Len(of) : i # 3 * k + 4)
           => \A l : Stored(of, l, i) <=> Stored(of, l, i - 1)
      /\ \A k \in 1..Len(of) : i = 3 * k + 4 =>
           \A l : Stored(of, l, i) <=> Stored(of, l, i - 1) \/ l = of[k]
  BY <1>3, PageGrows
<1>5. \A k \in 1..Len(of) : of[k] \in Listings
  BY ElementOfSeq
<1>6. ASSUME NEW e, e.observed = d.observed, \A k \in 1..Len(of) : i # 3 * k + 4
      PROVE  Notes(e, r, of, i) /\ Sums(e, r, c, p, t, of, i)
  <2>1. \A q, l : Rows(e, q, l) = Rows(d, q, l)
    BY <1>6 DEF Rows
  <2>2. \A q, l : Noted(d, q, l) => Noted(e, q, l)
    BY <2>1 DEF Noted
  <2>3. \A q, l : Seen(r, c, p, t, of, i, q, l) = Seen(r, c, p, t, of, i - 1, q, l)
    BY <1>4, <1>6 DEF Seen
  <2>4. Notes(e, r, of, i)
    BY <1>1, <1>4, <1>6, <2>2 DEF Notes
  <2>5. Sums(e, r, c, p, t, of, i)
    BY <1>1, <2>1, <2>3 DEF Sums
  <2> QED
    BY <2>4, <2>5
<1>7. CASE i \in 1..3
  <2>1. D[i] = DeedOf("put", O[i])
    BY <1>2, <1>7
  <2>2. Put(LakeWith(b, i - 1), O[i]) = LakeWith(b, i)
    BY <1>7, PageObjectsNew DEF Nth
  <2> HIDE DEF D, b, O
  <2>3. Does(w, r, c, p, t, D[i]) = WorldOf(d, Put(objects, O[i]), batches)
    BY <2>1, DeedDone
  <2>4. \A k \in 1..Len(of) : i # 3 * k + 3 /\ i # 3 * k + 4
    BY <1>7
  <2>5. /\ Batches(b, i) = Batches(b, i - 1)
        /\ Sightings(r, c, p, t, of, i) = Sightings(r, c, p, t, of, i - 1)
    BY <1>4, <1>7, <2>4
  <2>6. PageStores(d, LakeWith(b, i), batches, r, c, p, t, of, i)
    BY <1>1, <1>6, <2>4, <2>5 DEF PageStores, b
  <2> QED
    BY <1>1, <2>2, <2>3, <2>6, WorldReached DEF D
<1>8. CASE i = 4
  <2>1. D[i] = DeedOf("publish", b)
    BY <1>2, <1>8
  <2> HIDE DEF D, b, O
  <2>2. Does(w, r, c, p, t, D[i]) = WorldOf(d, objects, Along(batches, b))
    BY <2>1, DeedDone
  <2>3. \A k \in 1..Len(of) : i # 3 * k + 3 /\ i # 3 * k + 4
    BY <1>8
  <2>4. /\ Batches(b, i) = Along(Batches(b, i - 1), b) /\ LakeWith(b, i) = LakeWith(b, i - 1)
        /\ Sightings(r, c, p, t, of, i) = Sightings(r, c, p, t, of, i - 1)
    BY <1>4, <1>8, <2>3
  <2>5. PageStores(d, objects, Along(batches, b), r, c, p, t, of, i)
    BY <1>1, <1>6, <2>3, <2>4 DEF PageStores, b
  <2> QED
    BY <2>2, <2>5, WorldReached DEF D
<1>9. ASSUME NEW k \in 1..Len(of), i = 3 * k + 2
      PROVE  PageWorld(Does(w, r, c, p, t, D[i]), r, c, p, t, of, i)
  <2> DEFINE e == UpsertListing(d, r, c, t, of[k])
  <2>1. D[i] = DeedOf("upsert", of[k])
    BY <1>2, <1>9
  <2>2. Elsewhere(d, e, Times, "listings")
    BY <1>1, <1>5, UpsertWritten DEF Store
  <2>3. Does(w, r, c, p, t, D[i]) = WorldOf(e, objects, batches)
    BY <2>1, DeedDone
  <2>4. i > 4 /\ \A m \in 1..Len(of) : i # 3 * m + 3 /\ i # 3 * m + 4
    BY <1>9
  <2> HIDE DEF D, b, O, e
  <2>5. Notes(e, r, of, i) /\ Sums(e, r, c, p, t, of, i)
    BY <1>6, <2>2, <2>4 DEF Elsewhere
  <2>6. PageStores(e, objects, batches, r, c, p, t, of, i)
    BY <1>1, <1>4, <2>2, <2>4, <2>5 DEF PageStores, Store, Elsewhere, b
  <2> QED
    BY <2>3, <2>6, WorldReached
<1>10. ASSUME NEW k \in 1..Len(of), i = 3 * k + 4
      PROVE  PageWorld(Does(w, r, c, p, t, D[i]), r, c, p, t, of, i)
  <2> DEFINE e == RecordObservation(d, r, c, t, of[k])
  <2>1. D[i] = DeedOf("observe", of[k])
    BY <1>2, <1>10
  <2>2. Elsewhere(d, e, Times, "observed")
    BY <1>1, <1>5, ObservationWritten DEF Store
  <2>3. Does(w, r, c, p, t, D[i]) = WorldOf(e, objects, batches)
    BY <2>1, DeedDone
  <2>4. i > 4 /\ \A m \in 1..Len(of) : i # 3 * m + 3
    BY <1>10
  <2>5. \A q, l : Noted(d, q, l) \/ (q = r /\ l = of[k]) => Noted(e, q, l)
    BY <1>1, <1>5, NotedOnceMore
  <2>6. Sums(e, r, c, p, t, of, i)
    BY <1>1, <1>3, <1>10, CardSummed
  <2> HIDE DEF D, b, O, e
  <2>7. Notes(e, r, of, i)
    BY <1>1, <1>4, <1>10, <2>5 DEF Notes
  <2>8. PageStores(e, objects, batches, r, c, p, t, of, i)
    BY <1>1, <1>4, <2>2, <2>4, <2>6, <2>7 DEF PageStores, Store, Elsewhere, b
  <2> QED
    BY <2>3, <2>8, WorldReached
<1>11. ASSUME NEW k \in 1..Len(of), i = 3 * k + 3
       PROVE  PageWorld(Does(w, r, c, p, t, D[i]), r, c, p, t, of, i)
  <2> DEFINE new == Found(r, c, p, t, of[k])
             e == RecordDiscovery(d, r, c, p, t, of[k])
  <2>1. D[i] = DeedOf("discover", of[k])
    BY <1>2, <1>11
  <2>2. Does(w, r, c, p, t, D[i]) = WorldOf(e, objects, batches)
    BY <2>1, DeedDone
  <2>3. /\ Elsewhere(d, e, Times, "found")
        /\ e.found = {x \in d.found : <<x.run, x.listing, x.catalog, x.page>> # <<r, of[k], c, p>>}
                       \cup {new}
    BY <1>1, <1>5, DiscoveryWritten DEF Store, Found
  <2>4. ASSUME NEW x \in d.found, x.run = r, x.listing = of[k], x.catalog = c, x.page = p
        PROVE  x = new
    <3>1. p \in Nat
      BY EvidenceAssumption
    <3>2. x \notin db.found
      BY <2>4, <3>1 DEF Untouched
    <3>3. PICK m \in 1..Len(of) : x = Found(r, c, p, t, of[m])
      BY <1>1, <3>2 DEF Sightings
    <3> QED
      BY <2>4, <3>3 DEF Found
  <2>5. e.found = d.found \cup {new}
    BY <2>3, <2>4
  <2>6. i > 4 /\ \A m \in 1..Len(of) : i # 3 * m + 4
    BY <1>11
  <2>7. Sightings(r, c, p, t, of, i) = Sightings(r, c, p, t, of, i - 1) \cup {new}
    BY <1>4, <1>11 DEF Along
  <2> HIDE DEF D, b, O, e, new
  <2>8. e.found = db.found \cup Sightings(r, c, p, t, of, i)
    BY <1>1, <2>5, <2>7
  <2>9. Notes(e, r, of, i) /\ Sums(e, r, c, p, t, of, i)
    BY <1>6, <2>3, <2>6 DEF Elsewhere
  <2>10. PageStores(e, objects, batches, r, c, p, t, of, i)
    BY <1>1, <1>4, <2>3, <2>6, <2>8, <2>9 DEF PageStores, Store, Elsewhere, b
  <2> QED
    BY <2>2, <2>10, WorldReached
<1> HIDE DEF D
<1> QED
  BY <1>3, <1>7, <1>8, <1>9, <1>10, <1>11, DeedKinds DEF D

\* The world after any of a new page's deeds.
LEMMA PageReached ==
  ASSUME NEW r \in Runs, NEW c \in Catalogs, NEW p \in 1..PageLimit, NEW t \in Times,
         NEW of \in Seq(Listings), db \in Store, Untouched(r, c, p),
         NEW n \in 0..Len(Deeds(r, c, p, t, of))
  PROVE  PageWorld(After(r, c, p, t, of, n), r, c, p, t, of, n)
<1> DEFINE D == Deeds(r, c, p, t, of)
           b == PageBatch(r, c, p, t, of)
<1>1. Len(of) \in Nat /\ Len(D) \in Nat /\ (of = <<>> => Len(D) = 0)
  <2>1. of # <<>> => Len(D) \in Nat
    BY DeedsOfPage
  <2>2. of = <<>> => D = <<>>
    BY DEF Deeds
  <2> QED
    BY <2>1, <2>2, LenProperties
<1>2. PICK w : Goes(w, r, c, p, t, of, n) /\ After(r, c, p, t, of, n) = w[n]
  BY <1>1, AfterDeeds
<1> DEFINE G == {i \in 0..n : PageWorld(w[i], r, c, p, t, of, i)}
<1>3. 0 \in G
  <2>1. LakeWith(b, 0) = lake /\ Batches(b, 0) = published
    BY DEF LakeWith, FirstOf, Batches
  <2>2. Sightings(r, c, p, t, of, 0) = {}
    BY <1>1 DEF Sightings
  <2>3. Notes(db, r, of, 0) /\ Sums(db, r, c, p, t, of, 0)
    <3>1. \A l : ~Stored(of, l, 0)
      BY <1>1 DEF Stored
    <3> QED
      BY <3>1 DEF Notes, Sums, Seen
  <2>4. PageStores(db, lake, published, r, c, p, t, of, 0)
    BY <2>1, <2>2, <2>3 DEF PageStores
  <2>5. w[0] = WorldOf(db, lake, published)
    BY <1>1, <1>2 DEF Goes, World, WorldOf
  <2> QED
    BY <1>1, <2>4, <2>5, WorldReached
<1>4. ASSUME NEW i \in 0..(n - 1), i \in G
      PROVE  i + 1 \in G
  <2>1. i + 1 \in 1..Len(D) /\ i + 1 \in 0..n /\ of # <<>> /\ i + 1 - 1 = i
    BY <1>1
  <2>2. w[i + 1] = Does(w[i], r, c, p, t, D[i + 1])
    BY <1>2, <2>1 DEF Goes
  <2>3. PageWorld(w[i], r, c, p, t, of, i + 1 - 1)
    BY <1>4, <2>1
  <2> QED
    BY <2>1, <2>2, <2>3, NextDeed
<1>5. n \in G
  <2> HIDE DEF G
  <2>1. n \in Nat
    BY <1>1
  <2>2. 0..n \subseteq G
    BY <1>3, <1>4, <2>1, Climb
  <2> QED
    BY <2>1, <2>2
<1> QED
  BY <1>2, <1>5

\* What a step leaves of a store that only grows.
LEMMA StillReadable ==
  ASSUME NEW objects, NEW more, objects \subseteq more, NEW b, Readable(objects, b)
  PROVE  Readable(more, b)
BY DEF Readable

\* A page's own store: whatever is new in it is of that page, and its batch is out, and can be read,
\* before any of its sightings is stored.
LEMMA PageKept ==
  ASSUME NEW r \in Runs, NEW c \in Catalogs, NEW p \in 1..PageLimit, NEW t \in Times,
         NEW of \in Seq(Listings), NEW n \in Nat,
         NEW d, NEW objects, NEW batches, PageStores(d, objects, batches, r, c, p, t, of, n),
         StoresOrdered
  PROVE  LET b == PageBatch(r, c, p, t, of)
         IN /\ lake \subseteq objects /\ published \subseteq batches /\ db.found \subseteq d.found
            /\ \A o \in objects \ lake : o.key[2] = <<"page", r, c, p, t>>
            /\ \A f \in d.found \ db.found :
                 /\ f.run = r /\ f.catalog = c /\ f.page = p /\ f.at = t
                 /\ b \in batches /\ [listing |-> f.listing, at |-> t] \in b.rows
            /\ \A x \in batches : Readable(objects, x)
            /\ \A x \in batches \ published : x.id[1] = "page"
<1> DEFINE b == PageBatch(r, c, p, t, of)
<1>1. /\ objects = lake \cup FirstOf(b, n) /\ batches = Batches(b, n)
      /\ d.found = db.found \cup Sightings(r, c, p, t, of, n)
  BY DEF PageStores, LakeWith
<1>2. b.id = <<"page", r, c, p, t>> /\ b.rows = {[listing |-> l, at |-> t] : l \in ToSet(of)}
  BY DEF PageBatch
<1>3. \A o \in objects \ lake : o.key[2] = <<"page", r, c, p, t>>
  BY <1>1, <1>2, KeysOfBatch DEF FirstOf
<1>4. ASSUME NEW f \in d.found \ db.found
      PROVE  /\ f.run = r /\ f.catalog = c /\ f.page = p /\ f.at = t
             /\ b \in batches /\ [listing |-> f.listing, at |-> t] \in b.rows
  <2>1. PICK k \in 1..Len(of) : f = Found(r, c, p, t, of[k]) /\ 3 * k + 3 <= n
    BY <1>1, <1>4 DEF Sightings
  <2>2. /\ f.run = r /\ f.catalog = c /\ f.page = p /\ f.at = t /\ f.listing = of[k]
    BY <2>1 DEF Found
  <2>3. of[k] \in ToSet(of)
    BY DEF ToSet
  <2>4. n >= 4
    BY <2>1, LenProperties
  <2>5. b \in batches
    BY <1>1, <2>4 DEF Batches
  <2> HIDE DEF b
  <2> QED
    BY <1>2, <2>2, <2>3, <2>5
<1>5. \A x \in batches \ published : x = b /\ n >= 4
  BY <1>1 DEF Batches
<1>6. n >= 4 => Readable(objects, b)
  <2>1. n >= 4 => \A i \in 1..3 : Objects(b)[i] \in FirstOf(b, n)
    BY DEF FirstOf
  <2> QED
    BY <1>1, <2>1 DEF Readable
<1>7. \A x \in batches : Readable(objects, x)
  <2>1. lake \subseteq objects
    BY <1>1
  <2>2. \A x \in published : Readable(objects, x)
    BY <2>1, StillReadable DEF StoresOrdered
  <2> QED
    BY <1>5, <1>6, <2>2
<1>8. lake \subseteq objects /\ published \subseteq batches /\ db.found \subseteq d.found
  BY <1>1 DEF Batches
<1>9. \A x \in batches \ published : x.id[1] = "page"
  BY <1>2, <1>5
<1> HIDE DEF b
<1> QED
  BY <1>3, <1>4, <1>7, <1>8, <1>9 DEF b

\* What the three stores hold after a page, or after as much of it as was written.
LEMMA PageStored ==
  ASSUME NEW r \in Runs, NEW c \in Catalogs, NEW p \in 1..PageLimit, NEW t \in Times,
         NEW of \in Seq(Listings), NEW n \in Nat,
         NEW d, NEW objects, NEW batches, PageStores(d, objects, batches, r, c, p, t, of, n),
         Untouched(r, c, p), StoresOrdered,
         NEW e \in Store, e.runs = d.runs, e.probes = d.probes, e.found = d.found,
         \A s \in e.scans \ d.scans : s.run = r /\ s.catalog = c /\ s.page = p,
         db' = e, lake' = objects, published' = batches
  PROVE  /\ StoresOrdered'
         /\ db' \in Store /\ db'.runs = db.runs /\ db'.probes = db.probes
         /\ Untouched(r, c, p + 1)'
         /\ \A q \in Runs, g \in Catalogs, m \in Nat :
              (q # r \/ g # c) /\ Untouched(q, g, m) => Untouched(q, g, m)'
<1> DEFINE b == PageBatch(r, c, p, t, of)
<1>1. /\ lake \subseteq objects /\ published \subseteq batches /\ db.found \subseteq d.found
      /\ \A o \in objects \ lake : o.key[2] = <<"page", r, c, p, t>>
      /\ \A f \in d.found \ db.found :
           /\ f.run = r /\ f.catalog = c /\ f.page = p /\ f.at = t
           /\ b \in batches /\ [listing |-> f.listing, at |-> t] \in b.rows
      /\ \A x \in batches : Readable(objects, x)
      /\ \A x \in batches \ published : x.id[1] = "page"
  BY PageKept
<1>2. /\ d.runs = db.runs /\ d.scans = db.scans /\ d.probes = db.probes
  BY DEF PageStores
<1>3. b.id = <<"page", r, c, p, t>>
  BY DEF PageBatch
<1>4. p \in Nat
  BY EvidenceAssumption
<1> HIDE DEF b
<1>5. StoresOrdered'
  <2>1. ASSUME NEW f \in e.found
        PROVE  \E x \in batches : /\ x.id = <<"page", f.run, f.catalog, f.page, f.at>>
                                  /\ [listing |-> f.listing, at |-> f.at] \in x.rows
    <3>1. CASE f \in db.found
      BY <1>1, <3>1 DEF StoresOrdered
    <3>2. CASE f \notin db.found
      BY <1>1, <1>3, <2>1, <3>2
    <3> QED
      BY <3>1, <3>2
  <2>2. \A x \in batches : Readable(objects, x)
    BY <1>1
  <2>3. \A x \in batches : x.id[1] = "probes" => x.rows \subseteq e.probes
    BY <1>1, <1>2 DEF StoresOrdered
  <2> QED
    BY <2>1, <2>2, <2>3 DEF StoresOrdered
<1>6. \A o \in objects \ lake : /\ o.key[2][1] = "page" /\ o.key[2][2] = r /\ o.key[2][3] = c
                                /\ o.key[2][4] = p
  BY <1>1
<1>7. \A f \in e.found \ db.found : f.run = r /\ f.catalog = c /\ f.page = p
  BY <1>1
<1>8. \A s \in e.scans \ db.scans : s.run = r /\ s.catalog = c /\ s.page = p
  BY <1>2
<1>9. Untouched(r, c, p + 1)'
  <2>1. \A o \in lake : o.key[2][1] = "page" /\ o.key[2][2] = r /\ o.key[2][3] = c
                          => o.key[2][4] \in 1..p
    BY <1>4 DEF Untouched
  <2>2. \A o \in objects : o.key[2][1] = "page" /\ o.key[2][2] = r /\ o.key[2][3] = c
                             => o.key[2][4] \in 1..p
    BY <1>4, <1>6, <2>1
  <2>3. \A f \in e.found : f.run = r /\ f.catalog = c => f.page \in 1..p
    BY <1>4, <1>7 DEF Untouched
  <2>4. \A s \in e.scans : s.run = r /\ s.catalog = c => s.page \in 1..p
    BY <1>4, <1>8 DEF Untouched
  <2> QED
    BY <1>4, <2>2, <2>3, <2>4 DEF Untouched
<1>10. ASSUME NEW q \in Runs, NEW g \in Catalogs, NEW m \in Nat, q # r \/ g # c, Untouched(q, g, m)
       PROVE  Untouched(q, g, m)'
  BY <1>6, <1>7, <1>8, <1>10 DEF Untouched
<1> QED
  BY <1>2, <1>5, <1>9, <1>10

-----------------------------------------------------------------------------
(* The totals of a run are numbers.                                        *)

\* The sums of m over the subsets of S with at most n members, each from the one below it.
Least(s) == CHOOSE x \in s : TRUE
Upto(S, n) == {s \in SUBSET S : Cardinality(s) <= n}
Adds(g, m, S, n) ==
  g = [s \in Upto(S, n) |-> IF s = {} THEN 0 ELSE m[Least(s)] + g[s \ {Least(s)}]]

\* A set without one of its members has one fewer.
LEMMA OneFewer ==
  ASSUME NEW S, IsFiniteSet(S), NEW s \in SUBSET S, s # {}
  PROVE  /\ Least(s) \in s /\ s \ {Least(s)} \in SUBSET S
         /\ Cardinality(s) \in Nat /\ Cardinality(s \ {Least(s)}) = Cardinality(s) - 1
<1>1. Least(s) \in s
  BY DEF Least
<1>2. IsFiniteSet(s)
  BY FS_Subset
<1> QED
  BY <1>1, <1>2, FS_RemoveElement, FS_CardinalityType

\* Sums over sets of n members give those over sets of one more.
LEMMA AddsOn ==
  ASSUME NEW S, IsFiniteSet(S), NEW m, NEW n \in Nat, NEW g, Adds(g, m, S, n)
  PROVE  \E h : Adds(h, m, S, n + 1)
<1> DEFINE h == [s \in Upto(S, n + 1) |->
                   IF Cardinality(s) <= n THEN g[s] ELSE m[Least(s)] + g[s \ {Least(s)}]]
<1>1. ASSUME NEW s \in Upto(S, n + 1)
      PROVE  h[s] = IF s = {} THEN 0 ELSE m[Least(s)] + h[s \ {Least(s)}]
  <2>1. CASE s = {}
    <3>1. Cardinality(s) = 0
      BY <2>1, FS_EmptySet
    <3>2. s \in Upto(S, n)
      BY <3>1, <2>1 DEF Upto
    <3> QED
      BY <2>1, <3>1, <3>2 DEF Adds
  <2>2. CASE s # {}
    <3> DEFINE rest == s \ {Least(s)}
    <3>1. /\ rest \in SUBSET S /\ Cardinality(s) \in Nat /\ Cardinality(rest) = Cardinality(s) - 1
          /\ Cardinality(s) <= n + 1
      BY <2>2, OneFewer DEF Upto
    <3>2. rest \in Upto(S, n + 1) /\ Cardinality(rest) <= n
      BY <3>1 DEF Upto
    <3>3. h[rest] = g[rest]
      BY <3>2
    <3>4. CASE Cardinality(s) <= n
      <4>1. s \in Upto(S, n)
        BY <3>4 DEF Upto
      <4>2. g[s] = m[Least(s)] + g[rest]
        BY <2>2, <4>1 DEF Adds
      <4> QED
        BY <2>2, <3>3, <3>4, <4>2
    <3>5. CASE ~(Cardinality(s) <= n)
      BY <2>2, <3>3, <3>5
    <3> QED
      BY <3>4, <3>5
  <2> QED
    BY <2>1, <2>2
<1>2. h = [s \in Upto(S, n + 1) |-> h[s]]
  OBVIOUS
<1> HIDE DEF h
<1>3. Adds(h, m, S, n + 1)
  BY <1>1, <1>2 DEF Adds
<1> QED
  BY <1>3

\* What holds of the empty set, and of a set when it holds of the set without its chosen member.
LEMMA SubsetsClimb ==
  ASSUME NEW S, IsFiniteSet(S), NEW G, {} \in G,
         \A s \in SUBSET S : s # {} /\ s \ {Least(s)} \in G => s \in G
  PROVE  SUBSET S \subseteq G
<1> DEFINE n == Cardinality(S)
           H == {i \in 0..n : \A s \in SUBSET S : Cardinality(s) <= i => s \in G}
<1>1. n \in Nat /\ \A s \in SUBSET S : Cardinality(s) \in Nat /\ Cardinality(s) <= n
  BY FS_Subset, FS_CardinalityType
<1>2. 0 \in H
  <2>1. ASSUME NEW s \in SUBSET S, Cardinality(s) <= 0
        PROVE  s = {}
    <3>1. IsFiniteSet(s) /\ Cardinality(s) = 0
      BY <1>1, <2>1, FS_Subset
    <3> QED
      BY <3>1, FS_EmptySet
  <2>2. \A s \in SUBSET S : Cardinality(s) <= 0 => s \in G
    BY <2>1
  <2> HIDE DEF n
  <2> QED
    BY <1>1, <2>2
<1>3. ASSUME NEW i \in 0..(n - 1), i \in H
      PROVE  i + 1 \in H
  <2>1. i \in Nat /\ i + 1 \in 0..n
    BY <1>1
  <2>2. ASSUME NEW s \in SUBSET S, Cardinality(s) <= i + 1, s # {}
        PROVE  s \in G
    <3>1. /\ s \ {Least(s)} \in SUBSET S /\ Cardinality(s) \in Nat
          /\ Cardinality(s \ {Least(s)}) = Cardinality(s) - 1
      BY <2>2, OneFewer
    <3>2. Cardinality(s \ {Least(s)}) <= i
      BY <2>1, <2>2, <3>1
    <3>3. s \ {Least(s)} \in G
      BY <1>3, <3>1, <3>2
    <3> QED
      BY <2>2, <3>3
  <2> QED
    BY <2>1, <2>2
<1> HIDE DEF H, n
<1>4. n \in H
  <2>1. 0..n \subseteq H
    BY <1>1, <1>2, <1>3, Climb
  <2> QED
    BY <1>1, <2>1
<1> QED
  BY <1>1, <1>4 DEF H

\* Such a sum, member by member.
LEMMA AddsUnfold ==
  ASSUME NEW S, IsFiniteSet(S), NEW m, NEW g, Adds(g, m, S, Cardinality(S))
  PROVE  /\ g[{}] = 0
         /\ \A s \in SUBSET S : s # {} => g[s] = m[Least(s)] + g[s \ {Least(s)}]
<1>1. Upto(S, Cardinality(S)) = SUBSET S
  <2>1. \A s \in SUBSET S : Cardinality(s) <= Cardinality(S)
    BY FS_Subset
  <2> QED
    BY <2>1 DEF Upto
<1>2. {} \in SUBSET S
  OBVIOUS
<1> QED
  BY <1>1, <1>2 DEF Adds

\* There is such a sum over a finite set, and it is a number when all that is added is.
LEMMA AddedUp ==
  ASSUME NEW S, IsFiniteSet(S), NEW m \in [S -> Nat]
  PROVE  /\ \E g : Adds(g, m, S, Cardinality(S))
         /\ \A g : Adds(g, m, S, Cardinality(S)) => g[S] \in Nat
         /\ Upto(S, Cardinality(S)) = SUBSET S
<1> DEFINE n == Cardinality(S)
           G == {i \in 0..n : \E g : Adds(g, m, S, i)}
<1>1. n \in Nat
  BY FS_CardinalityType
<1>2. 0 \in G
  <2> DEFINE g == [s \in Upto(S, 0) |-> 0]
  <2>1. ASSUME NEW s \in Upto(S, 0)
        PROVE  s = {}
    <3>1. IsFiniteSet(s) /\ Cardinality(s) <= 0
      BY <2>1, FS_Subset DEF Upto
    <3> QED
      BY <3>1, FS_CardinalityType, FS_EmptySet
  <2>2. Adds(g, m, S, 0)
    BY <2>1 DEF Adds
  <2> QED
    BY <1>1, <2>2
<1>3. \A i \in 0..(n - 1) : i \in G => i + 1 \in G
  BY <1>1, AddsOn
<1>4. n \in G
  <2> HIDE DEF G, n
  <2>1. 0..n \subseteq G
    BY <1>1, <1>2, <1>3, Climb
  <2> QED
    BY <1>1, <2>1
<1>5. ASSUME NEW g, Adds(g, m, S, n)
      PROVE  g[S] \in Nat
  <2> DEFINE H == {s \in SUBSET S : g[s] \in Nat}
  <2>1. /\ g[{}] = 0
        /\ \A s \in SUBSET S : s # {} => g[s] = m[Least(s)] + g[s \ {Least(s)}]
    BY <1>5, AddsUnfold
  <2>2. ASSUME NEW s \in SUBSET S, s # {}, s \ {Least(s)} \in H
        PROVE  s \in H
    <3>1. m[Least(s)] \in Nat
      BY <2>2, OneFewer
    <3>2. g[s \ {Least(s)}] \in Nat
      BY <2>2
    <3>3. g[s] = m[Least(s)] + g[s \ {Least(s)}]
      BY <2>1, <2>2
    <3> QED
      BY <3>1, <3>2, <3>3
  <2>3. {} \in H
    BY <2>1
  <2>4. SUBSET S \subseteq H
    <3> HIDE DEF H
    <3> QED
      BY <2>2, <2>3, SubsetsClimb
  <2> QED
    BY <2>4
<1>6. Upto(S, n) = SUBSET S
  <2>1. \A s \in SUBSET S : Cardinality(s) <= n
    BY FS_Subset
  <2> QED
    BY <2>1 DEF Upto
<1> QED
  BY <1>4, <1>5, <1>6

\* No addend is more than the sum.
LEMMA NoneExceedsSum ==
  ASSUME NEW S, IsFiniteSet(S), NEW m \in [S -> Nat], NEW g, Adds(g, m, S, Cardinality(S)),
         NEW c \in S
  PROVE  m[c] <= g[S]
<1> DEFINE H == {s \in SUBSET S : g[s] \in Nat /\ \A x \in s : m[x] <= g[s]}
<1>1. /\ g[{}] = 0
      /\ \A s \in SUBSET S : s # {} => g[s] = m[Least(s)] + g[s \ {Least(s)}]
  BY AddsUnfold
<1>2. ASSUME NEW s \in SUBSET S, s # {}, s \ {Least(s)} \in H
      PROVE  s \in H
  <2>1. m[Least(s)] \in Nat /\ g[s \ {Least(s)}] \in Nat
    BY <1>2, OneFewer
  <2>2. g[s] = m[Least(s)] + g[s \ {Least(s)}]
    BY <1>1, <1>2
  <2>3. ASSUME NEW x \in s
        PROVE  m[x] <= g[s]
    <3>1. CASE x = Least(s)
      BY <2>1, <2>2, <3>1
    <3>2. CASE x # Least(s)
      <4>1. m[x] <= g[s \ {Least(s)}] /\ m[x] \in Nat
        BY <1>2, <3>2
      <4> QED
        BY <2>1, <2>2, <4>1
    <3> QED
      BY <3>1, <3>2
  <2> QED
    BY <2>1, <2>2, <2>3
<1>3. {} \in H
  BY <1>1
<1>4. SUBSET S \subseteq H
  <2> HIDE DEF H
  <2> QED
    BY <1>2, <1>3, SubsetsClimb
<1> QED
  BY <1>4

\* The rows of a set that are of a catalog, and of one of several.
Within(X, c) == {x \in X : x.catalog = c}
Among(X, s) == {x \in X : x.catalog \in s}

\* The rows of each catalog add up to the rows of all of them.
LEMMA RowsAddUp ==
  ASSUME NEW X, IsFiniteSet(X), NEW S, IsFiniteSet(S), NEW m \in [S -> Nat],
         \A c \in S : m[c] = Cardinality(Within(X, c)),
         NEW g, Adds(g, m, S, Cardinality(S))
  PROVE  g[S] = Cardinality(Among(X, S))
<1> DEFINE H == {s \in SUBSET S : g[s] = Cardinality(Among(X, s))}
<1>1. /\ g[{}] = 0
      /\ \A s \in SUBSET S : s # {} => g[s] = m[Least(s)] + g[s \ {Least(s)}]
  BY AddsUnfold
<1>2. ASSUME NEW s \in SUBSET S, s # {}, s \ {Least(s)} \in H
      PROVE  s \in H
  <2> DEFINE c == Least(s)
             rest == s \ {c}
  <2>1. c \in s /\ c \in S
    BY <1>2, OneFewer
  <2>2. /\ Among(X, s) = Within(X, c) \cup Among(X, rest)
        /\ Within(X, c) \cap Among(X, rest) = {}
    BY <2>1 DEF Among, Within
  <2>3. IsFiniteSet(Within(X, c)) /\ IsFiniteSet(Among(X, rest))
    <3>1. Within(X, c) \subseteq X /\ Among(X, rest) \subseteq X
      BY DEF Within, Among
    <3> QED
      BY <3>1, FS_Subset
  <2>4. g[s] = m[c] + g[rest]
    BY <1>1, <1>2
  <2>5. m[c] = Cardinality(Within(X, c)) /\ g[rest] = Cardinality(Among(X, rest))
    BY <1>2, <2>1
  <2> HIDE DEF c, rest
  <2>6. Cardinality(Among(X, s)) = Cardinality(Within(X, c)) + Cardinality(Among(X, rest))
    <3>1. /\ Cardinality(Within(X, c)) \in Nat /\ Cardinality(Among(X, rest)) \in Nat
          /\ Cardinality(Within(X, c) \cap Among(X, rest)) = 0
      BY <2>2, <2>3, FS_CardinalityType, FS_EmptySet
    <3>2. Cardinality(Within(X, c) \cup Among(X, rest))
            = Cardinality(Within(X, c)) + Cardinality(Among(X, rest))
                - Cardinality(Within(X, c) \cap Among(X, rest))
      BY <2>3, FS_Union
    <3> QED
      BY <2>2, <3>1, <3>2
  <2> QED
    BY <2>4, <2>5, <2>6
<1>3. {} \in H
  <2>1. Among(X, {}) = {}
    BY DEF Among
  <2> QED
    BY <1>1, <2>1, FS_EmptySet
<1>4. SUBSET S \subseteq H
  <2> HIDE DEF H
  <2> QED
    BY <1>2, <1>3, SubsetsClimb
<1> QED
  BY <1>4

\* What each scan of a run counted.
Oks(r, S) == [c \in S |-> scan[r][c].ok]
Failures(r, S) == [c \in S |-> scan[r][c].failed]

\* What is counted over the scans of a run is such a sum.
LEMMA SumsOfScans ==
  ASSUME NEW r \in Runs, NEW S \in SUBSET Catalogs,
         scan \in [Runs -> [Catalogs -> ScanStates]]
  PROVE  /\ IsFiniteSet(S) /\ Oks(r, S) \in [S -> Nat] /\ Failures(r, S) \in [S -> Nat]
         /\ \E g : Adds(g, Oks(r, S), S, Cardinality(S)) /\ g[S] = Counted(r, S).ok
         /\ \E g : Adds(g, Failures(r, S), S, Cardinality(S)) /\ g[S] = Counted(r, S).failed
<1> DEFINE n == Cardinality(S)
           oks == [c \in S |-> scan[r][c].ok]
           failures == [c \in S |-> scan[r][c].failed]
<1>1. IsFiniteSet(S)
  BY EvidenceAssumption, FS_Subset
<1>2. \A c \in S : scan[r][c].ok \in Nat /\ scan[r][c].failed \in Nat
  BY DEF ScanStates
<1>3. oks \in [S -> Nat] /\ failures \in [S -> Nat]
  BY <1>2
<1>4. Upto(S, n) = SUBSET S
  BY <1>1, <1>3, AddedUp
<1>5. \A s \in SUBSET S : s # {} => Least(s) \in S
  BY DEF Least
<1>6. \E g : Adds(g, oks, S, n) /\ g[S] = Counted(r, S).ok
  <2> DEFINE P(g) == g = [s \in SUBSET S |-> IF s = {} THEN 0
                            ELSE scan[r][Least(s)].ok + g[s \ {Least(s)}]]
  <2>1. ASSUME NEW g
        PROVE  P(g) <=> Adds(g, oks, S, n)
    BY <1>4, <1>5 DEF Adds
  <2>2. \E g : Adds(g, oks, S, n)
    BY <1>1, <1>3, AddedUp
  <2>3. Adds(CHOOSE g : P(g), oks, S, n)
    <3> HIDE DEF P
    <3>1. P(CHOOSE g : P(g))
      BY <2>1, <2>2
    <3> QED
      BY <2>1, <3>1
  <2>4. (CHOOSE g : P(g))[S] = Counted(r, S).ok
    BY DEF Counted, MapThenSumSet, MapThenFoldSet, Least
  <2> HIDE DEF P
  <2> QED
    BY <2>3, <2>4
<1>7. \E g : Adds(g, failures, S, n) /\ g[S] = Counted(r, S).failed
  <2> DEFINE P(g) == g = [s \in SUBSET S |-> IF s = {} THEN 0
                            ELSE scan[r][Least(s)].failed + g[s \ {Least(s)}]]
  <2>1. ASSUME NEW g
        PROVE  P(g) <=> Adds(g, failures, S, n)
    BY <1>4, <1>5 DEF Adds
  <2>2. \E g : Adds(g, failures, S, n)
    BY <1>1, <1>3, AddedUp
  <2>3. Adds(CHOOSE g : P(g), failures, S, n)
    <3> HIDE DEF P
    <3>1. P(CHOOSE g : P(g))
      BY <2>1, <2>2
    <3> QED
      BY <2>1, <3>1
  <2>4. (CHOOSE g : P(g))[S] = Counted(r, S).failed
    BY DEF Counted, MapThenSumSet, MapThenFoldSet, Least
  <2> HIDE DEF P
  <2> QED
    BY <2>3, <2>4
<1> QED
  BY <1>1, <1>3, <1>6, <1>7 DEF Oks, Failures

\* What the scans of a run counted is counted in numbers.
LEMMA CountedUp ==
  ASSUME NEW r \in Runs, NEW S \in SUBSET Catalogs,
         scan \in [Runs -> [Catalogs -> ScanStates]]
  PROVE  Counted(r, S).ok \in Nat /\ Counted(r, S).failed \in Nat
<1> DEFINE n == Cardinality(S)
<1>1. PICK g : Adds(g, Oks(r, S), S, n) /\ g[S] = Counted(r, S).ok
  BY SumsOfScans
<1>2. PICK h : Adds(h, Failures(r, S), S, n) /\ h[S] = Counted(r, S).failed
  BY SumsOfScans
<1>3. IsFiniteSet(S) /\ Oks(r, S) \in [S -> Nat] /\ Failures(r, S) \in [S -> Nat]
  BY SumsOfScans
<1>4. g[S] \in Nat /\ h[S] \in Nat
  BY <1>1, <1>2, <1>3, AddedUp
<1> QED
  BY <1>1, <1>2, <1>4

TotalsShape == [scanned : Nat, ok : Nat, failed : Nat, unique : Nat]

\* The totals of a run are numbers, for any number of crashed scans.
LEMMA TotalsCounted ==
  ASSUME NEW r \in Runs, scan \in [Runs -> [Catalogs -> ScanStates]]
  PROVE  Totals(r) \in TotalsShape
<1> DEFINE crashed == {c \in Scanned(r) : scan[r][c].stage = "crashed"}
           S == Scanned(r) \ crashed
           seen == UNION {scan[r][c].unique : c \in S}
<1>1. Scanned(r) \in SUBSET Catalogs
  BY DEF Scanned
<1>2. IsFiniteSet(Scanned(r)) /\ IsFiniteSet(crashed)
  BY <1>1, EvidenceAssumption, FS_Subset
<1>3. Cardinality(Scanned(r)) \in Nat /\ Cardinality(crashed) \in Nat
  BY <1>2, FS_CardinalityType
<1>4. seen \subseteq Listings
  BY <1>1 DEF ScanStates
<1>5. Cardinality(seen) \in Nat
  BY <1>4, EvidenceAssumption, FS_Subset, FS_CardinalityType
<1>6. S \in SUBSET Catalogs
  BY <1>1
<1>7. Counted(r, S).ok \in Nat /\ Counted(r, S).failed \in Nat
  <2> HIDE DEF S
  <2> QED
    BY <1>6, CountedUp
<1>8. Counted(r, S) \in TotalsShape
  <2> HIDE DEF S
  <2> QED
    BY <1>3, <1>5, <1>7 DEF Counted, TotalsShape, S
<1> HIDE DEF S, crashed
<1>9. [Counted(r, S) EXCEPT !.failed = @ + Cardinality(crashed)] \in TotalsShape
  BY <1>3, <1>8 DEF TotalsShape
<1> QED
  BY <1>9 DEF Totals, S, crashed

-----------------------------------------------------------------------------
(* The tallies: what a scan that has not failed has counted.               *)

ScansOf(r, c) == {s \in db.scans : s.run = r /\ s.catalog = c}
FoundBy(r, c) == {f \in db.found : f.run = r /\ f.catalog = c}
PagesOut(r, c) == {b \in published : b.id[1] = "page" /\ b.id[2] = r /\ b.id[3] = c}
AllNoted(r, B) == \A b \in B : \A x \in b.rows : Noted(db, r, x.listing)

\* It has counted the rows of its pages, each of them whole, and the listings found on them.
Tallied(r, c) ==
  /\ \A s \in ScansOf(r, c) : s.ok
  /\ scan[r][c].ok = Cardinality(ScansOf(r, c))
  /\ scan[r][c].unique = {f.listing : f \in FoundBy(r, c)}
  /\ AllNoted(r, PagesOut(r, c))
  /\ scan[r][c].stage = "done" => ScansOf(r, c) # {}
  /\ scan[r][c].stage = "none" => ScansOf(r, c) = {} /\ FoundBy(r, c) = {}

\* So have the scans not chosen, while their run goes on, and those of a run that has not begun.
Unspoilt(r, c) ==
  /\ scan[r][c].stage = "none" \/ (scan[r][c].failed = 0 /\ scan[r][c].stage # "crashed")
  /\ db.runs[r].status = "none" \/ Scanned(r) # {}

\* TotalsHonest, of one run.
Honest(r) ==
  db.runs[r].status = "completed" /\ db.runs[r].failed = 0 =>
    /\ Coverage(db, r) = [ok |-> db.runs[r].ok, failed |-> 0, scanned |-> db.runs[r].scanned,
                          unique |-> db.runs[r].unique]
    /\ AllNoted(r, {b \in published : b.id[1] = "page" /\ b.id[2] = r})

OfCatalogs == \A b \in published : b.id[1] = "page" => b.id[3] \in Catalogs

\* The sightings of a listing in a run, and those of pages recorded as read.
Appearances(d, q, l) == {f \in d.found : f.run = q /\ f.listing = l}
ReadWhole(d, q, l) ==
  {f \in Appearances(d, q, l) : \E s \in d.scans : /\ s.ok /\ s.run = q
                                                   /\ s.catalog = f.catalog /\ s.page = f.page}

\* Every observation sums up sightings of its listing in its run, all those of pages recorded as read
\* among them.
Summed ==
  \A q \in Runs, l \in Listings :
    \E K \in SUBSET Appearances(db, q, l) : ReadWhole(db, q, l) \subseteq K /\ SumsUp(Rows(db, q, l), K)

\* No page lists a card twice.
ListedOnce == \A of \in Pages : Apart(of)

CollectTallied ==
  /\ IsFiniteSet(db.scans) /\ IsFiniteSet(db.found)
  /\ ListedOnce => Summed
  /\ OfCatalogs
  /\ \A r \in Runs, c \in Catalogs : Unspoilt(r, c) => Tallied(r, c)
  /\ \A r \in Runs : Honest(r)

\* Nothing is added of a catalog in a run; no observation is lost.
Still(r, c) ==
  /\ ScansOf(r, c)' = ScansOf(r, c) /\ FoundBy(r, c)' = FoundBy(r, c)
  /\ PagesOut(r, c)' = PagesOut(r, c)
Remembers == \A q, l : Noted(db, q, l) => Noted(db', q, l)

\* A tally stands while nothing is added.
LEMMA TallyKept ==
  ASSUME NEW q \in Runs, NEW g \in Catalogs, Tallied(q, g), Still(q, g), Remembers,
         scan'[q][g].ok = scan[q][g].ok, scan'[q][g].unique = scan[q][g].unique,
         scan'[q][g].stage = "done" => scan[q][g].stage = "done",
         scan'[q][g].stage = "none" => scan[q][g].stage = "none"
  PROVE  Tallied(q, g)'
<1>1. AllNoted(q, PagesOut(q, g))'
  BY DEF Tallied, Still, Remembers, AllNoted
<1> QED
  BY <1>1 DEF Tallied, Still

\* So do the totals of a run.
LEMMA HonestKept ==
  ASSUME NEW q \in Runs, Honest(q), db \in Store, db' \in Store, OfCatalogs, OfCatalogs',
         \A g \in Catalogs : Still(q, g), Remembers, db'.runs[q] = db.runs[q]
  PROVE  Honest(q)'
<1>1. {s \in db'.scans : s.run = q} = {s \in db.scans : s.run = q}
  <2>1. \A s \in db'.scans \cup db.scans : s.catalog \in Catalogs
    BY DEF Store, StoreOf
  <2> QED
    BY <2>1 DEF Still, ScansOf
<1>2. {f \in db'.found : f.run = q} = {f \in db.found : f.run = q}
  <2>1. \A f \in db'.found \cup db.found : f.catalog \in Catalogs
    BY DEF Store, StoreOf
  <2> QED
    BY <2>1 DEF Still, FoundBy
<1>3. Coverage(db', q) = Coverage(db, q)
  <2>1. /\ {s \in db'.scans : s.run = q /\ s.ok} = {s \in db.scans : s.run = q /\ s.ok}
        /\ {s \in db'.scans : s.run = q /\ ~s.ok} = {s \in db.scans : s.run = q /\ ~s.ok}
    BY <1>1
  <2> QED
    BY <1>1, <1>2, <2>1 DEF Coverage
<1>4. {b \in published' : b.id[1] = "page" /\ b.id[2] = q}
        \subseteq {b \in published : b.id[1] = "page" /\ b.id[2] = q}
  BY DEF Still, PagesOut, OfCatalogs
<1>5. ASSUME AllNoted(q, {b \in published : b.id[1] = "page" /\ b.id[2] = q})
      PROVE  AllNoted(q, {b \in published : b.id[1] = "page" /\ b.id[2] = q})'
  BY <1>4, <1>5 DEF AllNoted, Remembers
<1> QED
  BY <1>3, <1>5 DEF Honest

\* A page handled to its end is in the tables in full, and counted.
ScanRow(r, c, p, t, ok) == [run |-> r, catalog |-> c, page |-> p, at |-> t, ok |-> ok]
Counts(old, of, new) ==
  /\ new.failed = old.failed /\ new.ok = old.ok + 1 /\ new.unique = old.unique \cup ToSet(of)
  /\ new.stage # "none"
Full(of, n) == \A k \in 1..Len(of) : 3 * k + 4 <= n
Whole(d, e, r, c, p, t, of, n, new) ==
  /\ e.scans = d.scans \cup {ScanRow(r, c, p, t, TRUE)}
  /\ Counts(scan[r][c], of, new)
  /\ Full(of, n)

\* The table of scans once a page is recorded, as failed or, if all of it is written, as read; or not
\* at all.
Entered(d, e, r, c, p, t, of, n) ==
  \/ e.scans = d.scans
  \/ e.scans = d.scans \cup {ScanRow(r, c, p, t, FALSE)}
  \/ e.scans = d.scans \cup {ScanRow(r, c, p, t, TRUE)} /\ Full(of, n)

\* The tally of the scan that handled it goes up by that page.
LEMMA PageTallied ==
  ASSUME NEW r \in Runs, NEW c \in Catalogs, NEW p \in 1..PageLimit, NEW t \in Times,
         NEW of \in Seq(Listings), NEW n \in Nat,
         NEW d, NEW objects, NEW batches, PageStores(d, objects, batches, r, c, p, t, of, n),
         Untouched(r, c, p), db \in Store, IsFiniteSet(db.scans), Tallied(r, c),
         NEW e \in Store, e.found = d.found, e.observed = d.observed,
         NEW new, Whole(d, e, r, c, p, t, of, n, new),
         db' = e, published' = batches, scan'[r][c] = new
  PROVE  Tallied(r, c)'
<1> DEFINE b == PageBatch(r, c, p, t, of)
           row == ScanRow(r, c, p, t, TRUE)
<1>1. /\ d.scans = db.scans /\ d.found = db.found \cup Sightings(r, c, p, t, of, n)
      /\ batches = Batches(b, n) /\ Notes(d, r, of, n)
  BY DEF PageStores
<1>2. row.run = r /\ row.catalog = c /\ row.page = p /\ row.ok
  BY DEF ScanRow
<1> HIDE DEF row
<1>3. e.scans = db.scans \cup {row}
  BY <1>1 DEF Whole, row
<1>4. ScansOf(r, c)' = ScansOf(r, c) \cup {row}
  BY <1>2, <1>3 DEF ScansOf
<1>5. row \notin ScansOf(r, c)
  <2>1. p \in Nat
    BY EvidenceAssumption
  <2> QED
    BY <1>2, <2>1 DEF ScansOf, Untouched
<1>6. new.ok = Cardinality(ScansOf(r, c)')
  <2>1. IsFiniteSet(ScansOf(r, c))
    <3>1. ScansOf(r, c) \subseteq db.scans
      BY DEF ScansOf
    <3> QED
      BY <3>1, FS_Subset
  <2>2. Cardinality(ScansOf(r, c) \cup {row}) = Cardinality(ScansOf(r, c)) + 1
    BY <1>5, <2>1, FS_AddElement
  <2> QED
    BY <1>4, <2>2 DEF Whole, Counts, Tallied
<1>7. new.unique = {f.listing : f \in FoundBy(r, c)'}
  <2>1. FoundBy(r, c)' = FoundBy(r, c) \cup Sightings(r, c, p, t, of, n)
    <3>1. \A f \in Sightings(r, c, p, t, of, n) : f.run = r /\ f.catalog = c
      BY DEF Sightings, Found
    <3> QED
      BY <1>1, <3>1 DEF FoundBy
  <2>2. {f.listing : f \in Sightings(r, c, p, t, of, n)} = ToSet(of)
    <3>1. Len(of) \in Nat /\ DOMAIN of = 1..Len(of)
      BY LenProperties
    <3>2. \A k \in 1..Len(of) : 3 * k + 3 <= n
      BY <3>1 DEF Whole, Full
    <3>3. Sightings(r, c, p, t, of, n) = {Found(r, c, p, t, of[k]) : k \in 1..Len(of)}
      BY <3>2 DEF Sightings
    <3>4. \A l : Found(r, c, p, t, l).listing = l
      BY DEF Found
    <3>5. \A f \in Sightings(r, c, p, t, of, n) : \E k \in 1..Len(of) : f.listing = of[k]
      BY <3>3, <3>4
    <3>6. \A k \in 1..Len(of) : \E f \in Sightings(r, c, p, t, of, n) : f.listing = of[k]
      BY <3>3, <3>4
    <3>7. \A l : l \in ToSet(of) <=> \E k \in 1..Len(of) : l = of[k]
      BY <3>1 DEF ToSet
    <3>8. PICK X : X = Sightings(r, c, p, t, of, n)
      OBVIOUS
    <3>9. \A l : l \in {f.listing : f \in X} <=> \E k \in 1..Len(of) : l = of[k]
      BY <3>5, <3>6, <3>8
    <3> QED
      BY <3>7, <3>8, <3>9
  <2> QED
    BY <2>1, <2>2 DEF Whole, Counts, Tallied
<1>8. \A q, l : Noted(d, q, l) => Noted(e, q, l)
  BY DEF Noted, Rows
<1>9. AllNoted(r, PagesOut(r, c))'
  <2>1. ASSUME NEW x \in b.rows
        PROVE  Noted(e, r, x.listing)
    <3>1. PICK l \in ToSet(of) : x = [listing |-> l, at |-> t]
      BY <2>1 DEF PageBatch
    <3>2. PICK k \in 1..Len(of) : l = of[k]
      <4>1. DOMAIN of = 1..Len(of)
        BY LenProperties
      <4> QED
        BY <3>1, <4>1 DEF ToSet
    <3>3. Stored(of, l, n)
      BY <3>2 DEF Stored, Whole, Full
    <3> QED
      BY <1>1, <1>8, <3>1, <3>3 DEF Notes
  <2>2. ASSUME NEW y \in PagesOut(r, c), NEW x \in y.rows
        PROVE  Noted(e, r, x.listing)
    BY <1>1, <1>8, <2>2 DEF Tallied, AllNoted, Notes
  <2>3. \A y \in PagesOut(r, c)' : y \in PagesOut(r, c) \/ y = b
    BY <1>1 DEF PagesOut, Batches
  <2> HIDE DEF b
  <2> QED
    BY <2>1, <2>2, <2>3 DEF AllNoted
<1>10. \A s \in ScansOf(r, c)' : s.ok
  BY <1>2, <1>4 DEF Tallied
<1> QED
  BY <1>4, <1>6, <1>7, <1>9, <1>10 DEF Tallied, Whole, Counts

\* A page's observations sum up the sightings they summed up before, and those of the page that have
\* been stored: all of them, if the page is recorded as read.
LEMMA PageSummed ==
  ASSUME NEW r \in Runs, NEW c \in Catalogs, NEW p \in 1..PageLimit, NEW t \in Times,
         NEW of \in Seq(Listings), NEW n \in Nat,
         NEW d, NEW objects, NEW batches, PageStores(d, objects, batches, r, c, p, t, of, n),
         Untouched(r, c, p), db \in Store, Summed, Apart(of),
         NEW e \in Store, e.found = d.found, e.observed = d.observed,
         \A s \in e.scans \ d.scans : s.run = r /\ s.catalog = c /\ s.page = p,
         \A s \in e.scans \ d.scans : s.ok => Full(of, n),
         db' = e
  PROVE  Summed'
<1> SUFFICES ASSUME NEW q \in Runs, NEW l \in Listings
             PROVE  \E K \in SUBSET Appearances(e, q, l) :
                      ReadWhole(e, q, l) \subseteq K /\ SumsUp(Rows(e, q, l), K)
  BY DEF Summed
<1>1. /\ d.scans = db.scans /\ d.found = db.found \cup Sightings(r, c, p, t, of, n)
      /\ Sums(d, r, c, p, t, of, n)
  BY DEF PageStores
<1>2. PICK K \in SUBSET Appearances(db, q, l) :
        ReadWhole(db, q, l) \subseteq K /\ SumsUp(Rows(db, q, l), K)
  BY DEF Summed
<1> DEFINE more == Seen(r, c, p, t, of, n, q, l)
<1>3. \A k : /\ Found(r, c, p, t, k).run = r /\ Found(r, c, p, t, k).listing = k
             /\ Found(r, c, p, t, k).catalog = c /\ Found(r, c, p, t, k).page = p
  BY DEF Found
<1>4. Len(of) \in Nat /\ p \in Nat
  BY LenProperties, EvidenceAssumption
<1>5. more \subseteq Appearances(e, q, l)
  <2> SUFFICES ASSUME q = r, Stored(of, l, n)
               PROVE  Found(r, c, p, t, l) \in Appearances(e, q, l)
    BY DEF Seen
  <2>1. PICK k \in 1..Len(of) : 3 * k + 4 <= n /\ of[k] = l
    BY DEF Stored
  <2>2. Found(r, c, p, t, of[k]) \in Sightings(r, c, p, t, of, n)
    BY <1>4, <2>1 DEF Sightings
  <2> QED
    BY <1>1, <1>3, <2>1, <2>2 DEF Appearances
<1>6. K \cup more \in SUBSET Appearances(e, q, l)
  BY <1>1, <1>2, <1>5 DEF Appearances
<1>7. SumsUp(Rows(e, q, l), K \cup more)
  <2>1. K \in SUBSET db.found
    BY <1>2 DEF Appearances
  <2>2. Rows(e, q, l) = Rows(d, q, l)
    BY DEF Rows
  <2> QED
    BY <1>1, <1>2, <2>1, <2>2 DEF Sums
<1>8. ASSUME NEW f \in ReadWhole(e, q, l)
      PROVE  f \in K \cup more
  <2>1. PICK s \in e.scans : s.ok /\ s.run = q /\ s.catalog = f.catalog /\ s.page = f.page
    BY <1>8 DEF ReadWhole
  <2>2. f \in e.found /\ f.run = q /\ f.listing = l
    BY <1>8 DEF ReadWhole, Appearances
  <2>3. CASE f \in db.found
    <3>1. ~(q = r /\ f.catalog = c /\ f.page = p)
      BY <1>4, <2>2, <2>3 DEF Untouched
    <3>2. s \in db.scans
      BY <1>1, <2>1, <3>1
    <3>3. f \in ReadWhole(db, q, l)
      BY <2>1, <2>2, <2>3, <3>2 DEF ReadWhole, Appearances
    <3> QED
      BY <1>2, <3>3
  <2>4. CASE f \in Sightings(r, c, p, t, of, n)
    <3>1. PICK k \in 1..Len(of) : f = Found(r, c, p, t, of[k])
      BY <2>4 DEF Sightings
    <3>2. f.run = r /\ f.catalog = c /\ f.page = p /\ of[k] = l /\ q = r
      BY <1>3, <2>2, <3>1
    <3>3. s \notin db.scans
      BY <1>4, <2>1, <3>2 DEF Untouched
    <3>4. Stored(of, l, n)
      BY <1>1, <2>1, <3>2, <3>3 DEF Stored, Full
    <3> QED
      BY <3>1, <3>2, <3>4 DEF Seen
  <2> QED
    BY <1>1, <2>2, <2>3, <2>4
<1> QED
  BY <1>6, <1>7, <1>8

\* The sightings of a page are finitely many.
LEMMA SightingsFinite ==
  ASSUME NEW r, NEW c, NEW p, NEW t, NEW of \in Seq(Listings), NEW n
  PROVE  IsFiniteSet(Sightings(r, c, p, t, of, n))
<1> DEFINE some == {k \in 1..Len(of) : 3 * k + 3 <= n}
           fs == [k \in some |-> Found(r, c, p, t, of[k])]
<1>1. IsFiniteSet(some)
  <2>1. Len(of) \in Nat /\ some \subseteq 1..Len(of)
    BY LenProperties
  <2>2. IsFiniteSet(1..Len(of))
    BY <2>1, FS_Interval
  <2> QED
    BY <2>1, <2>2, FS_Subset
<1>2. Sightings(r, c, p, t, of, n) = {fs[k] : k \in some}
  BY DEF Sightings
<1> HIDE DEF some
<1>3. fs \in [some -> {fs[k] : k \in some}]
  OBVIOUS
<1>4. fs \in Surjection(some, {fs[k] : k \in some})
  BY <1>3 DEF Surjection
<1> HIDE DEF fs
<1> QED
  BY <1>1, <1>2, <1>4, FS_Surjection

\* A scan's step leaves every other tally as it was, and spoils its own or adds a whole page to it.
LEMMA PageTallies ==
  ASSUME NEW r \in Runs, NEW c \in Catalogs, NEW p \in 1..PageLimit, NEW t \in Times,
         NEW of \in Seq(Listings), NEW n \in Nat,
         NEW d, NEW objects, NEW batches, PageStores(d, objects, batches, r, c, p, t, of, n),
         Untouched(r, c, p), db \in Store, CollectTallied,
         db.runs[r].status = "running", scan[r][c].stage = "asks",
         NEW e \in Store, e.runs = d.runs, e.found = d.found, e.observed = d.observed,
         Entered(d, e, r, c, p, t, of, n),
         ListedOnce => Apart(of),
         NEW new, new.stage # "none",
         \/ new.failed # 0 \/ new.stage = "crashed"
         \/ Whole(d, e, r, c, p, t, of, n, new),
         db' = e, published' = batches, scan'[r][c] = new,
         \A q \in Runs, g \in Catalogs : q # r \/ g # c => scan'[q][g] = scan[q][g]
  PROVE  CollectTallied'
<1> DEFINE b == PageBatch(r, c, p, t, of)
<1>1. /\ d.runs = db.runs /\ d.scans = db.scans /\ d.found = db.found \cup Sightings(r, c, p, t, of, n)
      /\ batches = Batches(b, n) /\ Notes(d, r, of, n)
  BY DEF PageStores
<1>2. b.id[1] = "page" /\ b.id[2] = r /\ b.id[3] = c
  BY DEF PageBatch
<1> HIDE DEF b
<1>3. IsFiniteSet(e.scans)
  <2>1. IsFiniteSet(db.scans)
    BY DEF CollectTallied
  <2> QED
    BY <1>1, <2>1, FS_AddElement DEF Entered
<1>4. OfCatalogs'
  BY <1>1, <1>2 DEF OfCatalogs, CollectTallied, Batches
<1>5. Remembers
  <2>1. \A q, l : Noted(d, q, l) => Noted(e, q, l)
    BY DEF Noted, Rows
  <2> QED
    BY <1>1, <2>1 DEF Remembers, Notes
<1>6. ASSUME NEW q \in Runs, NEW g \in Catalogs, q # r \/ g # c
      PROVE  Still(q, g)
  <2>1. db.scans \subseteq e.scans /\ \A s \in e.scans \ db.scans : s.run = r /\ s.catalog = c
    BY <1>1 DEF ScanRow, Entered
  <2>2. \A f \in Sightings(r, c, p, t, of, n) : f.run = r /\ f.catalog = c
    BY DEF Sightings, Found
  <2>3. ScansOf(q, g)' = ScansOf(q, g)
    BY <1>1, <1>6, <2>1 DEF ScansOf
  <2>4. FoundBy(q, g)' = FoundBy(q, g)
    BY <1>1, <1>6, <2>2 DEF FoundBy
  <2>5. PagesOut(q, g)' = PagesOut(q, g)
    BY <1>1, <1>2, <1>6 DEF PagesOut, Batches
  <2> QED
    BY <2>3, <2>4, <2>5 DEF Still
<1>7. ASSUME NEW q \in Runs, NEW g \in Catalogs, Unspoilt(q, g)'
      PROVE  Tallied(q, g)'
  <2>1. Unspoilt(q, g)
    <3>1. CASE q = r
      <4>1. Scanned(r) # {}
        BY DEF Scanned
      <4>2. scan[r][g].stage = "none" \/ (scan[r][g].failed = 0 /\ scan[r][g].stage # "crashed")
        BY <1>7, <3>1 DEF Unspoilt, Whole, Counts
      <4> QED
        BY <3>1, <4>1, <4>2 DEF Unspoilt
    <3>2. CASE q # r
      <4>1. \A x \in Catalogs : scan'[q][x] = scan[q][x]
        BY <3>2
      <4>2. Scanned(q)' = Scanned(q)
        BY <4>1 DEF Scanned
      <4> QED
        BY <1>1, <1>7, <4>1, <4>2 DEF Unspoilt
    <3> QED
      BY <3>1, <3>2
  <2>2. Tallied(q, g)
    BY <2>1 DEF CollectTallied
  <2>3. CASE q = r /\ g = c
    <3>1. Whole(d, e, r, c, p, t, of, n, new)
      BY <1>7, <2>3 DEF Unspoilt
    <3> QED
      BY <2>2, <2>3, <3>1, PageTallied DEF CollectTallied
  <2>4. CASE q # r \/ g # c
    BY <1>5, <1>6, <2>2, <2>4, TallyKept
  <2> QED
    BY <2>3, <2>4
<1>8. ASSUME NEW q \in Runs
      PROVE  Honest(q)'
  <2>1. CASE q = r
    BY <1>1, <2>1 DEF Honest
  <2>2. CASE q # r
    BY <1>1, <1>4, <1>5, <1>6, <2>2, HonestKept DEF CollectTallied
  <2> QED
    BY <2>1, <2>2
<1>9. IsFiniteSet(e.found)
  <2>1. IsFiniteSet(db.found)
    BY DEF CollectTallied
  <2>2. IsFiniteSet(Sightings(r, c, p, t, of, n))
    BY SightingsFinite
  <2>3. IsFiniteSet(db.found \cup Sightings(r, c, p, t, of, n))
    BY <2>1, <2>2, FS_Union
  <2> QED
    BY <1>1, <2>3
<1>10. ASSUME ListedOnce
       PROVE  Summed'
  <2>1. \A s \in e.scans \ d.scans : s.run = r /\ s.catalog = c /\ s.page = p
    BY DEF ScanRow, Entered
  <2>2. \A s \in e.scans \ d.scans : s.ok => Full(of, n)
    BY DEF ScanRow, Entered
  <2> QED
    BY <1>10, <2>1, <2>2, PageSummed DEF CollectTallied
<1>11. ListedOnce' <=> ListedOnce
  BY DEF ListedOnce, Apart
<1> QED
  BY <1>3, <1>4, <1>7, <1>8, <1>9, <1>10, <1>11 DEF CollectTallied

\* A step that stores nothing of a page spoils no tally and makes none.
LEMMA TalliesStand ==
  ASSUME CollectTallied, db \in Store, db' \in Store, db'.scans = db.scans, db'.found = db.found,
         db'.observed = db.observed, published \subseteq published',
         \A b \in published' \ published : b.id[1] = "probes",
         \A q \in Runs, g \in Catalogs : Unspoilt(q, g)' =>
           /\ Unspoilt(q, g)
           /\ scan'[q][g].ok = scan[q][g].ok /\ scan'[q][g].unique = scan[q][g].unique
           /\ scan'[q][g].stage = "done" => scan[q][g].stage = "done"
           /\ scan'[q][g].stage = "none" => scan[q][g].stage = "none",
         \A q \in Runs : db'.runs[q] = db.runs[q] \/ Honest(q)'
  PROVE  CollectTallied'
<1>1. OfCatalogs'
  BY DEF OfCatalogs, CollectTallied
<1>2. Remembers
  BY DEF Remembers, Noted, Rows
<1>3. ASSUME NEW q \in Runs, NEW g \in Catalogs
      PROVE  Still(q, g)
  BY DEF Still, ScansOf, FoundBy, PagesOut
<1>4. ASSUME NEW q \in Runs, NEW g \in Catalogs, Unspoilt(q, g)'
      PROVE  Tallied(q, g)'
  BY <1>2, <1>3, <1>4, TallyKept DEF CollectTallied
<1>5. ASSUME NEW q \in Runs
      PROVE  Honest(q)'
  BY <1>1, <1>2, <1>3, HonestKept DEF CollectTallied
<1>6. Summed => Summed'
  BY DEF Summed, Appearances, ReadWhole, Rows
<1>7. ListedOnce' <=> ListedOnce
  BY DEF ListedOnce, Apart
<1> QED
  BY <1>1, <1>4, <1>5, <1>6, <1>7 DEF CollectTallied

\* Least of all one that leaves SQLite's runs and tables of pages, and the scans, as they are.
LEMMA TalliesUntouched ==
  ASSUME CollectTallied, db \in Store, db' \in Store, db'.runs = db.runs, db'.scans = db.scans,
         db'.found = db.found, db'.observed = db.observed, published \subseteq published',
         \A b \in published' \ published : b.id[1] = "probes", scan' = scan
  PROVE  CollectTallied'
<1>1. \A q \in Runs, g \in Catalogs : Unspoilt(q, g)' => Unspoilt(q, g)
  BY DEF Unspoilt, Scanned
<1> QED
  BY <1>1, TalliesStand

\* A run that completes with no scan failed: its tallies make its totals.
LEMMA FinishHonest ==
  ASSUME NEW r \in Runs, db \in Store, CollectTallied, scan \in [Runs -> [Catalogs -> ScanStates]],
         Scanned(r) # {}, \A c \in Scanned(r) : scan[r][c].stage \in {"done", "crashed"},
         db' \in Store, db'.scans = db.scans, db'.found = db.found, db'.observed = db.observed,
         db'.runs[r].scanned = Totals(r).scanned, db'.runs[r].ok = Totals(r).ok,
         db'.runs[r].failed = Totals(r).failed, db'.runs[r].unique = Totals(r).unique,
         published' = published
  PROVE  Honest(r)'
<1> SUFFICES ASSUME Totals(r).failed = 0
             PROVE  /\ Coverage(db', r) = [ok |-> Totals(r).ok, failed |-> 0,
                                           scanned |-> Totals(r).scanned,
                                           unique |-> Totals(r).unique]
                    /\ \A b \in published : b.id[1] = "page" /\ b.id[2] = r =>
                         \A x \in b.rows : Noted(db', r, x.listing)
  BY DEF Honest, AllNoted
<1> DEFINE S == Scanned(r)
           crashed == {c \in S : scan[r][c].stage = "crashed"}
           X == {s \in db.scans : s.run = r}
<1>1. S \in SUBSET Catalogs /\ IsFiniteSet(S) /\ IsFiniteSet(crashed)
  <2>1. S \in SUBSET Catalogs /\ crashed \subseteq S
    BY DEF Scanned
  <2> QED
    BY <2>1, EvidenceAssumption, FS_Subset
<1>2. Totals(r) = [Counted(r, S \ crashed) EXCEPT
                     !.failed = Counted(r, S \ crashed).failed + Cardinality(crashed)]
  BY Zenon DEF Totals
<1> HIDE DEF S
<1>3. crashed = {} /\ Totals(r) = Counted(r, S) /\ Counted(r, S).failed = 0
  <2>1. Cardinality(crashed) \in Nat
    BY <1>1, FS_CardinalityType
  <2>2. PICK T \in SUBSET Catalogs : T = S \ crashed
    BY <1>1
  <2>3. Counted(r, T).failed \in Nat
    BY CountedUp
  <2>4. PICK k \in Nat : k = Cardinality(crashed)
    BY <2>1
  <2>5. PICK a, b, f, u :
          Counted(r, T) = [scanned |-> a, ok |-> b, failed |-> f, unique |-> u]
    BY Zenon DEF Counted
  <2>6. Totals(r) = [scanned |-> a, ok |-> b, failed |-> f + k, unique |-> u]
    BY <1>2, <2>2, <2>4, <2>5
  <2>7. f = 0 /\ k = 0
    BY <2>3, <2>5, <2>6
  <2>8. crashed = {}
    BY <1>1, <2>4, <2>7, FS_EmptySet
  <2>9. T = S
    BY <2>2, <2>8
  <2>10. Totals(r) = Counted(r, T) /\ Counted(r, T).failed = 0
    BY <2>4, <2>5, <2>6, <2>7
  <2> HIDE DEF crashed
  <2> QED
    BY <2>8, <2>9, <2>10
<1>4. \A c \in S : scan[r][c].stage = "done" /\ scan[r][c].failed = 0
  <2>1. PICK h : Adds(h, Failures(r, S), S, Cardinality(S)) /\ h[S] = Counted(r, S).failed
    BY <1>1, SumsOfScans
  <2>2. Failures(r, S) \in [S -> Nat]
    BY <1>1, SumsOfScans
  <2>3. \A c \in S : Failures(r, S)[c] <= 0
    BY <1>1, <1>3, <2>1, <2>2, NoneExceedsSum
  <2>4. \A c \in S : Failures(r, S)[c] = scan[r][c].failed /\ Failures(r, S)[c] \in Nat
    BY <2>2 DEF Failures
  <2>5. \A c \in S : scan[r][c].failed = 0
    BY <2>3, <2>4
  <2> QED
    BY <1>3, <2>5 DEF S
<1>5. ASSUME NEW c \in Catalogs
      PROVE  Tallied(r, c) /\ (c \in S <=> scan[r][c].stage # "none")
  <2>1. c \in S <=> scan[r][c].stage # "none"
    BY DEF S, Scanned
  <2>2. Unspoilt(r, c)
    BY <1>4, <2>1 DEF Unspoilt
  <2> QED
    BY <2>1, <2>2 DEF CollectTallied
<1>6. \A s \in X : s.catalog \in S /\ s.ok
  <2> SUFFICES ASSUME NEW s \in X PROVE s.catalog \in S /\ s.ok
    OBVIOUS
  <2>1. s.catalog \in Catalogs
    BY DEF Store, StoreOf
  <2>2. PICK c \in Catalogs : c = s.catalog
    BY <2>1
  <2>3. s \in ScansOf(r, c)
    BY <2>2 DEF ScansOf
  <2>4. Tallied(r, c) /\ (c \in S <=> scan[r][c].stage # "none")
    BY <1>5
  <2> QED
    BY <2>2, <2>3, <2>4 DEF Tallied
<1>7. Cardinality(X) = Totals(r).ok
  <2>1. PICK g : Adds(g, Oks(r, S), S, Cardinality(S)) /\ g[S] = Counted(r, S).ok
    BY <1>1, SumsOfScans
  <2>2. Oks(r, S) \in [S -> Nat]
    BY <1>1, SumsOfScans
  <2>3. \A c \in S : Oks(r, S)[c] = Cardinality(Within(X, c))
    <3> SUFFICES ASSUME NEW c \in S PROVE Oks(r, S)[c] = Cardinality(Within(X, c))
      OBVIOUS
    <3>1. Within(X, c) = ScansOf(r, c)
      BY DEF Within, ScansOf
    <3>2. Tallied(r, c)
      BY <1>1, <1>5
    <3> QED
      BY <3>1, <3>2 DEF Tallied, Oks
  <2>4. IsFiniteSet(X)
    <3>1. IsFiniteSet(db.scans) /\ X \subseteq db.scans
      BY DEF CollectTallied
    <3> QED
      BY <3>1, FS_Subset
  <2>5. Among(X, S) = X
    BY <1>6 DEF Among
  <2> HIDE DEF X
  <2> QED
    BY <1>1, <1>3, <2>1, <2>2, <2>3, <2>4, <2>5, RowsAddUp
<1>8. {s.catalog : s \in X} = S
  <2>1. \A c \in S : \E s \in X : s.catalog = c
    <3> SUFFICES ASSUME NEW c \in S PROVE \E s \in X : s.catalog = c
      OBVIOUS
    <3>1. ScansOf(r, c) # {}
      BY <1>1, <1>4, <1>5 DEF Tallied
    <3> QED
      BY <3>1 DEF ScansOf
  <2> QED
    BY <1>6, <2>1
<1>9. {f.listing : f \in {f \in db.found : f.run = r}} = UNION {scan[r][c].unique : c \in S}
  <2> DEFINE F == {f \in db.found : f.run = r}
  <2>1. \A f \in F : \E c \in S : f.listing \in scan[r][c].unique
    <3> SUFFICES ASSUME NEW f \in F PROVE \E c \in S : f.listing \in scan[r][c].unique
      OBVIOUS
    <3>1. PICK c \in Catalogs : c = f.catalog
      BY DEF Store, StoreOf
    <3>2. f \in FoundBy(r, c)
      BY <3>1 DEF FoundBy
    <3> QED
      BY <1>5, <3>2 DEF Tallied
  <2>2. \A c \in S : \A l \in scan[r][c].unique : \E f \in F : l = f.listing
    <3> SUFFICES ASSUME NEW c \in S, NEW l \in scan[r][c].unique PROVE \E f \in F : l = f.listing
      OBVIOUS
    <3>1. Tallied(r, c)
      BY <1>1, <1>5
    <3> QED
      BY <3>1 DEF Tallied, FoundBy
  <2> QED
    BY <2>1, <2>2
<1>10. Coverage(db', r) = [ok |-> Totals(r).ok, failed |-> 0, scanned |-> Totals(r).scanned,
                           unique |-> Totals(r).unique]
  <2>1. {s \in db.scans : s.run = r /\ s.ok} = X /\ {s \in db.scans : s.run = r /\ ~s.ok} = {}
    BY <1>6
  <2>2. Totals(r).scanned = Cardinality(S)
    BY <1>3 DEF Counted, S
  <2>3. Totals(r).unique = Cardinality(UNION {scan[r][c].unique : c \in S})
    BY <1>3 DEF Counted
  <2>4. Coverage(db', r)
          = [ok |-> Cardinality({s \in db.scans : s.run = r /\ s.ok}),
             failed |-> Cardinality({s \in db.scans : s.run = r /\ ~s.ok}),
             scanned |-> Cardinality({s.catalog : s \in X}),
             unique |-> Cardinality({f.listing : f \in {f \in db.found : f.run = r}})]
    BY Zenon DEF Coverage
  <2> QED
    BY <1>7, <1>8, <1>9, <2>1, <2>2, <2>3, <2>4, FS_EmptySet
<1>11. ASSUME NEW b \in published, b.id[1] = "page", b.id[2] = r, NEW x \in b.rows
       PROVE  Noted(db', r, x.listing)
  <2>1. PICK c \in Catalogs : c = b.id[3]
    BY <1>11 DEF CollectTallied, OfCatalogs
  <2>2. b \in PagesOut(r, c) /\ Tallied(r, c)
    BY <1>5, <1>11, <2>1 DEF PagesOut
  <2> QED
    BY <2>2 DEF Tallied, AllNoted, Noted, Rows
<1> QED
  BY <1>10, <1>11

-----------------------------------------------------------------------------
(* The inductive invariant of the collector.                               *)

RefreshStates == [stage : {"none", "probes"}, todo : SUBSET Listings,
                  told : SUBSET [listing : Listings, at : Times, outcome : Outcomes \ {"none"}],
                  from : Times]

CollectorTyped ==
  /\ db \in Store
  /\ now \in Times /\ refreshes \in 0..MaxRefreshes /\ collectFaults \in 0..MaxCollectFaults
  /\ scan \in [Runs -> [Catalogs -> ScanStates]]
  /\ refresh \in RefreshStates

CollectIInv ==
  /\ CollectorTyped
  /\ refresh.told \subseteq db.probes
  /\ PagesAhead
  /\ StoresOrdered
  /\ CollectTallied

\* Scans and refreshes that have not begun are typed.
LEMMA IdleTyped == Idle \in ScanStates /\ NoRefresh \in RefreshStates
<1>1. 1 \in 1..PageLimit /\ 0 \in Times
  BY EvidenceAssumption
<1> QED
  BY <1>1 DEF Idle, NoRefresh, ScanStates, RefreshStates

\* The invariant holds of an empty store and lake.
LEMMA CollectStarts == CollectInit => CollectIInv
<1> SUFFICES ASSUME CollectInit PROVE CollectIInv
  OBVIOUS
<1> USE DEF CollectInit
<1>1. db \in Store
  BY DEF EmptyStore, Store, StoreOf, NewRun, RunRow
<1>2. CollectorTyped
  BY <1>1, IdleTyped, EvidenceAssumption, CollectorAssumption DEF CollectorTyped
<1>3. PagesAhead
  BY DEF PagesAhead, Ahead, Untouched, EmptyStore, Idle
<1>4. StoresOrdered
  BY DEF StoresOrdered, EmptyStore
<1>5. CollectTallied
  <2>1. IsFiniteSet({}) /\ Cardinality({}) = 0
    BY FS_EmptySet
  <2>2. \A r \in Runs, c \in Catalogs :
          scan[r][c].ok = 0 /\ scan[r][c].unique = {} /\ scan[r][c].stage = "none"
    BY DEF Idle
  <2>3. db.scans = {} /\ db.found = {} /\ published = {}
    BY DEF EmptyStore
  <2>4. ASSUME NEW r \in Runs, NEW c \in Catalogs
        PROVE  Tallied(r, c)
    <3>1. ScansOf(r, c) = {} /\ FoundBy(r, c) = {} /\ PagesOut(r, c) = {}
      BY <2>3 DEF ScansOf, FoundBy, PagesOut
    <3> QED
      BY <2>1, <2>2, <3>1 DEF Tallied, AllNoted
  <2>5. \A r \in Runs : db.runs[r].status = "none"
    BY DEF EmptyStore, NewRun
  <2>6. Summed
    <3>1. SumsUp({}, {})
      BY <2>1 DEF SumsUp
    <3>2. \A q \in Runs, l \in Listings : Rows(db, q, l) = {} /\ ReadWhole(db, q, l) = {}
      BY <2>3 DEF EmptyStore, Rows, ReadWhole, Appearances
    <3> QED
      BY <3>1, <3>2 DEF Summed
  <2> QED
    BY <2>1, <2>3, <2>4, <2>5, <2>6 DEF CollectTallied, OfCatalogs, Honest
<1> QED
  BY <1>2, <1>3, <1>4, <1>5 DEF CollectIInv, NoRefresh

\* A store once page p is recorded in scans, as read if all of it is written or as failed, or not at
\* all.
Recorded(d, e, r, c, p, t, of, n) ==
  \/ e = d
  \/ e = RecordScan(d, r, c, p, t, FALSE)
  \/ e = RecordScan(d, r, c, p, t, TRUE) /\ Full(of, n)

\* A step of a scan: what it wrote of its page, a record of it or none, and the scan's next state.
LEMMA PageMoves ==
  ASSUME CollectIInv, NEW r \in Runs, NEW c \in Catalogs, Asks(r, c),
         NEW p, p = scan[r][c].page, NEW t, t = scan[r][c].at,
         NEW of \in Seq(Listings), NEW n \in Nat,
         NEW d, NEW objects, NEW batches, PageStores(d, objects, batches, r, c, p, t, of, n),
         NEW e, Recorded(d, e, r, c, p, t, of, n), ListedOnce => Apart(of),
         db' = e, lake' = objects, published' = batches,
         NEW new \in ScanStates, scan' = [scan EXCEPT ![r][c] = new],
         new.stage = "asks" => new.page = p + 1, new.stage # "none",
         new.failed # 0 \/ new.stage = "crashed" \/ Whole(d, e, r, c, p, t, of, n, new),
         refresh' = refresh, now' \in Times,
         refreshes' = refreshes, collectFaults' \in 0..MaxCollectFaults
  PROVE  CollectIInv'
<1>1. /\ CollectorTyped /\ PagesAhead /\ StoresOrdered /\ refresh.told \subseteq db.probes
      /\ CollectTallied
  BY DEF CollectIInv
<1>2. p \in 1..PageLimit /\ t \in Times
  BY <1>1 DEF CollectorTyped, ScanStates
<1>3. Untouched(r, c, p)
  BY <1>1, <1>2 DEF PagesAhead, Ahead, Asks
<1>4. d \in Store
  BY DEF PageStores
<1>5. /\ e \in Store /\ e.runs = d.runs /\ e.probes = d.probes /\ e.found = d.found
      /\ e.observed = d.observed
      /\ Entered(d, e, r, c, p, t, of, n)
      /\ \A s \in e.scans \ d.scans : s.run = r /\ s.catalog = c /\ s.page = p
  <2>1. CASE e = d
    BY <1>4, <2>1 DEF Entered
  <2>2. ASSUME NEW ok \in BOOLEAN, e = RecordScan(d, r, c, p, t, ok)
        PROVE  /\ e \in Store /\ e.runs = d.runs /\ e.probes = d.probes /\ e.found = d.found
               /\ e.observed = d.observed /\ e.scans = d.scans \cup {ScanRow(r, c, p, t, ok)}
               /\ \A s \in e.scans \ d.scans : s.run = r /\ s.catalog = c /\ s.page = p
    BY <1>2, <1>4, <2>2, ScanWritten DEF Store, Elsewhere, ScanRow
  <2>3. CASE e = RecordScan(d, r, c, p, t, FALSE)
    BY <2>2, <2>3 DEF Entered
  <2>4. CASE e = RecordScan(d, r, c, p, t, TRUE) /\ Full(of, n)
    BY <2>2, <2>4 DEF Entered
  <2> QED
    BY <2>1, <2>3, <2>4 DEF Recorded
<1>6. /\ StoresOrdered'
      /\ db' \in Store /\ db'.runs = db.runs /\ db'.probes = db.probes
      /\ Untouched(r, c, p + 1)'
      /\ \A q \in Runs, g \in Catalogs, m \in Nat :
           (q # r \/ g # c) /\ Untouched(q, g, m) => Untouched(q, g, m)'
  BY <1>1, <1>2, <1>3, <1>5, PageStored
<1>7. scan' \in [Runs -> [Catalogs -> ScanStates]] /\ scan'[r][c] = new
      /\ \A q \in Runs, g \in Catalogs : q # r \/ g # c => scan'[q][g] = scan[q][g]
  BY <1>1 DEF CollectorTyped
<1>8. CollectorTyped'
  BY <1>1, <1>6, <1>7 DEF CollectorTyped
<1>9. ASSUME NEW q \in Runs, NEW g \in Catalogs
      PROVE  Ahead(q, g)'
  <2>1. CASE q = r /\ g = c
    <3>1. db'.runs[r].status # "none"
      BY <1>6 DEF Asks
    <3>2. \A m \in 1..PageLimit : new.stage = "asks" /\ new.page = m => Untouched(r, c, m)'
      BY <1>6
    <3> QED
      BY <1>7, <2>1, <3>1, <3>2 DEF Ahead
  <2>2. CASE q # r \/ g # c
    <3>1. scan'[q][g] = scan[q][g] /\ db'.runs[q] = db.runs[q]
      BY <1>6, <1>7, <2>2
    <3>2. \A m \in 1..PageLimit : Untouched(q, g, m) => Untouched(q, g, m)'
      BY <1>6, <2>2
    <3>3. Untouched(q, g, 1) => Untouched(q, g, 1)'
      BY <1>6, <2>2
    <3>4. Ahead(q, g)
      BY <1>1 DEF PagesAhead
    <3> QED
      BY <3>1, <3>2, <3>3, <3>4 DEF Ahead
  <2> QED
    BY <2>1, <2>2
<1>10. refresh'.told \subseteq db'.probes
  BY <1>1, <1>6
<1>11. CollectTallied'
  <2>1. db \in Store
    BY <1>1 DEF CollectorTyped
  <2> QED
    BY <1>1, <1>2, <1>3, <1>5, <1>7, <2>1, PageTallies DEF Asks
<1> QED
  BY <1>6, <1>8, <1>9, <1>10, <1>11 DEF CollectIInv, PagesAhead

\* A page that is handled.
LEMMA PageHandledKeeps ==
  ASSUME CollectIInv, NEW r \in Runs, NEW c \in Catalogs, Asks(r, c),
         NEW of \in Pages, PageHandled(r, c, of)
  PROVE  CollectIInv'
<1> DEFINE s == scan[r][c]
           counted == [s EXCEPT !.ok = s.ok + 1, !.unique = s.unique \cup ToSet(of)]
<1>1. CollectorTyped /\ PagesAhead /\ s \in ScanStates
  BY DEF CollectIInv, CollectorTyped
<1>2. of \in Seq(Listings) /\ ToSet(of) \subseteq Listings
  BY CollectorAssumption DEF ToSet
<1>3. PICK p \in 1..PageLimit, t \in Times : p = s.page /\ t = s.at
  BY <1>1 DEF ScanStates
<1>4. Untouched(r, c, p)
  BY <1>1, <1>3 DEF PagesAhead, Ahead, Asks
<1> DEFINE n == Len(Deeds(r, c, p, t, of))
<1>5. n \in Nat
  <2>1. of # <<>> => n \in Nat
    BY <1>2, DeedsOfPage
  <2>2. of = <<>> => n = 0
    BY DEF Deeds
  <2> QED
    BY <2>1, <2>2
<1>6. PageWorld(After(r, c, p, t, of, n), r, c, p, t, of, n)
  BY <1>1, <1>2, <1>4, <1>5, PageReached DEF CollectorTyped
<1>7. PICK d, objects, batches : /\ After(r, c, p, t, of, n) = WorldOf(d, objects, batches)
                                 /\ PageStores(d, objects, batches, r, c, p, t, of, n)
  BY <1>6 DEF PageWorld
<1>8. db' = RecordScan(d, r, c, p, t, TRUE) /\ lake' = objects /\ published' = batches
  <2>1. Becomes([After(r, c, p, t, of, n) EXCEPT
                   !.db = RecordScan(After(r, c, p, t, of, n).db, r, c, p, t, TRUE)])
    BY <1>3 DEF PageHandled
  <2> QED
    BY <1>7, <2>1 DEF Becomes, WorldOf
<1>9. /\ counted \in ScanStates /\ counted.page = p /\ counted.at = t /\ counted.stage = "asks"
      /\ counted.page < Options[r].pages =>
           \A u \in Times : /\ [counted EXCEPT !.page = p + 1, !.at = u] \in ScanStates
                             /\ Counts(s, of, [counted EXCEPT !.page = p + 1, !.at = u])
      /\ [counted EXCEPT !.stage = "done"] \in ScanStates
      /\ Counts(s, of, [counted EXCEPT !.stage = "done"])
  <2>1. s.stage = "asks" /\ Options[r].pages \in 1..PageLimit
    BY CollectorAssumption DEF Asks
  <2> DEFINE seen == s.unique \cup ToSet(of)
             once == [s EXCEPT !.ok = s.ok + 1]
  <2>2. PICK ok \in Nat, failed \in Nat, unique \in SUBSET Listings :
          s = [stage |-> "asks", page |-> p, at |-> t, ok |-> ok, failed |-> failed,
               unique |-> unique]
    BY <1>1, <1>3, <2>1 DEF ScanStates
  <2>3. seen \in SUBSET Listings
    BY <1>2, <2>2
  <2>4. once = [stage |-> "asks", page |-> p, at |-> t, ok |-> ok + 1, failed |-> failed,
                unique |-> unique]
    BY <2>2
  <2>5. counted = [once EXCEPT !.unique = seen]
    BY Zenon
  <2> HIDE DEF counted, seen, once
  <2>6. counted = [stage |-> "asks", page |-> p, at |-> t, ok |-> ok + 1, failed |-> failed,
                   unique |-> seen]
    BY <2>4, <2>5
  <2>7. ASSUME NEW u \in Times, p < Options[r].pages
        PROVE  /\ [counted EXCEPT !.page = p + 1, !.at = u] \in ScanStates
               /\ Counts(s, of, [counted EXCEPT !.page = p + 1, !.at = u])
    <3> DEFINE further == [counted EXCEPT !.page = p + 1]
    <3>1. further = [stage |-> "asks", page |-> p + 1, at |-> t, ok |-> ok + 1, failed |-> failed,
                     unique |-> seen]
      BY <2>6
    <3>2. p + 1 \in 1..PageLimit
      BY <2>1, <2>7, EvidenceAssumption
    <3>3. [counted EXCEPT !.page = p + 1, !.at = u] = [further EXCEPT !.at = u]
      BY Zenon
    <3> HIDE DEF further
    <3>4. /\ [further EXCEPT !.at = u] \in ScanStates
          /\ [further EXCEPT !.at = u].failed = failed /\ [further EXCEPT !.at = u].ok = ok + 1
          /\ [further EXCEPT !.at = u].unique = seen /\ [further EXCEPT !.at = u].stage = "asks"
      BY <2>3, <3>1, <3>2 DEF ScanStates
    <3>5. Counts(s, of, [further EXCEPT !.at = u])
      BY <2>2, <3>4 DEF Counts, seen
    <3> QED
      BY <3>3, <3>4, <3>5
  <2>8. counted \in ScanStates
    BY <2>3, <2>6 DEF ScanStates
  <2>9. [counted EXCEPT !.stage = "done"] \in ScanStates
    BY <2>8 DEF ScanStates
  <2>10. /\ [counted EXCEPT !.stage = "done"].failed = failed
         /\ [counted EXCEPT !.stage = "done"].ok = ok + 1
         /\ [counted EXCEPT !.stage = "done"].unique = seen
         /\ [counted EXCEPT !.stage = "done"].stage = "done"
    BY <2>6
  <2>11. Counts(s, of, [counted EXCEPT !.stage = "done"])
    BY <2>2, <2>10 DEF Counts, seen
  <2> QED
    BY <2>6, <2>7, <2>8, <2>9, <2>11
<1>10. PICK new \in ScanStates :
         /\ scan' = [scan EXCEPT ![r][c] = new]
         /\ new.stage = "asks" => new.page = p + 1
         /\ Counts(s, of, new) /\ now' \in Times
  <2>1. \/ /\ p < Options[r].pages
           /\ \E u \in Soon : /\ now' = u
                              /\ scan' = [scan EXCEPT ![r][c] =
                                            [counted EXCEPT !.page = counted.page + 1, !.at = u]]
        \/ /\ scan' = [scan EXCEPT ![r][c] = [counted EXCEPT !.stage = "done"]]
           /\ now' = now
    <3>1. Options[r].pages \in 1..PageLimit
      BY CollectorAssumption
    <3>2. \/ /\ ~(s.page >= Depth[c] \/ s.page >= Options[r].pages)
             /\ \E u \in Soon : /\ now' = u
                                /\ scan' = [scan EXCEPT ![r][c] =
                                              [counted EXCEPT !.page = counted.page + 1, !.at = u]]
          \/ /\ scan' = [scan EXCEPT ![r][c] = [counted EXCEPT !.stage = "done"]]
             /\ now' = now
      BY Zenon DEF PageHandled
    <3>3. ~(p >= Options[r].pages) => p < Options[r].pages
      BY <3>1, EvidenceAssumption
    <3> HIDE DEF counted
    <3> QED
      BY <1>3, <3>2, <3>3
  <2>2. Soon \subseteq Times /\ now \in Times
    BY <1>1 DEF Soon, CollectorTyped
  <2> HIDE DEF counted
  <2>3. ASSUME NEW u \in Soon, p < Options[r].pages, now' = u,
               scan' = [scan EXCEPT ![r][c] = [counted EXCEPT !.page = counted.page + 1, !.at = u]]
        PROVE  \E new \in ScanStates : /\ scan' = [scan EXCEPT ![r][c] = new]
                                       /\ new.stage = "asks" => new.page = p + 1
                                       /\ Counts(s, of, new) /\ now' \in Times
    <3> DEFINE new == [counted EXCEPT !.page = p + 1, !.at = u]
    <3>1. new \in ScanStates /\ new.page = p + 1 /\ Counts(s, of, new)
      BY <1>9, <2>2, <2>3 DEF ScanStates
    <3>2. scan' = [scan EXCEPT ![r][c] = new]
      BY <1>9, <2>3
    <3> HIDE DEF new
    <3> QED
      BY <2>2, <2>3, <3>1, <3>2
  <2>4. ASSUME now' = now, scan' = [scan EXCEPT ![r][c] = [counted EXCEPT !.stage = "done"]]
        PROVE  \E new \in ScanStates : /\ scan' = [scan EXCEPT ![r][c] = new]
                                       /\ new.stage = "asks" => new.page = p + 1
                                       /\ Counts(s, of, new) /\ now' \in Times
    <3> DEFINE new == [counted EXCEPT !.stage = "done"]
    <3>1. new \in ScanStates /\ new.stage = "done" /\ Counts(s, of, new)
      BY <1>9 DEF ScanStates
    <3> HIDE DEF new
    <3> QED
      BY <2>2, <2>4, <3>1 DEF new
  <2> QED
    BY <2>1, <2>3, <2>4
<1>11. /\ refresh' = refresh /\ refreshes' = refreshes /\ collectFaults' = collectFaults
       /\ collectFaults \in 0..MaxCollectFaults
  BY <1>1 DEF PageHandled, CollectorTyped
<1>12. Whole(d, db', r, c, p, t, of, n, new)
  <2>1. d \in Store
    BY <1>7 DEF PageStores
  <2>2. RecordScan(d, r, c, p, t, TRUE).scans = d.scans \cup {ScanRow(r, c, p, t, TRUE)}
    BY <2>1 DEF RecordScan, ScanRow, Store, StoreOf
  <2>3. \A k \in 1..Len(of) : 3 * k + 4 <= n
    <3>1. Len(of) \in Nat /\ (of = <<>> => Len(of) = 0)
      BY <1>2, LenProperties
    <3>2. of # <<>> => n = 4 + 3 * Len(of)
      BY <1>2, DeedsOfPage
    <3> HIDE DEF n
    <3> QED
      BY <3>1, <3>2
  <2> QED
    BY <1>8, <1>10, <2>2, <2>3 DEF Whole, Full
<1>13. PICK e : e = db' /\ Recorded(d, e, r, c, p, t, of, n) /\ (ListedOnce => Apart(of))
  BY <1>8, <1>12 DEF Recorded, Whole, ListedOnce
<1>14. new.stage # "none"
  BY <1>10 DEF Counts
<1> HIDE DEF counted, n
<1> QED
  BY <1>2, <1>3, <1>5, <1>7, <1>8, <1>10, <1>11, <1>12, <1>13, <1>14, PageMoves

\* A page that cannot be had.
LEMMA PageFailsKeeps ==
  ASSUME CollectIInv, NEW r \in Runs, NEW c \in Catalogs, Asks(r, c), PageFails(r, c)
  PROVE  CollectIInv'
<1> DEFINE s == scan[r][c]
           failure == [s EXCEPT !.failed = s.failed + 1]
           new == [failure EXCEPT !.stage = "done"]
<1>1. CollectorTyped /\ s \in ScanStates
  BY DEF CollectIInv, CollectorTyped
<1>2. PICK p \in 1..PageLimit, t \in Times : p = s.page /\ t = s.at
  BY <1>1 DEF ScanStates
<1>3. PageStores(db, lake, published, r, c, p, t, <<>>, 0)
  <2>1. LakeWith(PageBatch(r, c, p, t, <<>>), 0) = lake
        /\ Batches(PageBatch(r, c, p, t, <<>>), 0) = published
    BY DEF LakeWith, FirstOf, Batches
  <2>2. Sightings(r, c, p, t, <<>>, 0) = {} /\ Notes(db, r, <<>>, 0)
        /\ Sums(db, r, c, p, t, <<>>, 0)
    BY DEF Sightings, Notes, Sums, Seen, Stored
  <2> QED
    BY <1>1, <2>1, <2>2 DEF PageStores, CollectorTyped
<1>4. db' = RecordScan(db, r, c, p, t, FALSE) /\ lake' = lake /\ published' = published
  BY <1>2 DEF PageFails
<1>5. failure \in ScanStates /\ failure.failed # 0
  BY <1>1 DEF ScanStates
<1>6. scan' = [scan EXCEPT ![r][c] = new]
  BY Zenon DEF PageFails
<1> HIDE DEF failure
<1>7. new \in ScanStates /\ new.stage = "done" /\ new.failed # 0
  BY <1>5 DEF ScanStates
<1>8. /\ refresh' = refresh /\ refreshes' = refreshes /\ collectFaults' = collectFaults
      /\ collectFaults \in 0..MaxCollectFaults /\ now' \in Times
  BY <1>1 DEF PageFails, CollectorTyped
<1>9. <<>> \in Seq(Listings)
  OBVIOUS
<1>10. PICK later \in ScanStates : /\ later.stage = "done" /\ later.failed # 0
                                   /\ scan' = [scan EXCEPT ![r][c] = later]
  <2> HIDE DEF new
  <2> QED
    BY <1>6, <1>7
<1> QED
  <2>1. Recorded(db, db', r, c, p, t, <<>>, 0)
    BY <1>4 DEF Recorded
  <2>2. Apart(<<>>)
    BY DEF Apart
  <2> QED
    BY <1>2, <1>3, <1>4, <1>8, <1>9, <1>10, <2>1, <2>2, PageMoves

\* An exception after n of a page's writes.
LEMMA PageBreaksKeeps ==
  ASSUME CollectIInv, NEW r \in Runs, NEW c \in Catalogs, Asks(r, c),
         NEW of \in Pages, NEW n \in 0..MaxDeeds, PageBreaks(r, c, of, n)
  PROVE  CollectIInv'
<1> DEFINE s == scan[r][c]
           emitted == of = <<>> \/ n >= 4
           reached == IF emitted /\ of # <<>>
                      THEN {of[i] : i \in {i \in 1..Len(of) : 3 * (i - 1) <= n - 4}} ELSE {}
           oks == IF emitted THEN s.ok + 1 ELSE s.ok
<1>1. CollectorTyped /\ PagesAhead /\ s \in ScanStates
  BY DEF CollectIInv, CollectorTyped
<1>2. of \in Seq(Listings)
  BY CollectorAssumption
<1>3. PICK p \in 1..PageLimit, t \in Times : p = s.page /\ t = s.at
  BY <1>1 DEF ScanStates
<1>4. Untouched(r, c, p)
  BY <1>1, <1>3 DEF PagesAhead, Ahead, Asks
<1>5. n \in 0..Len(Deeds(r, c, p, t, of))
  <2>1. Cardinality(Listings) \in Nat
    BY EvidenceAssumption, FS_CardinalityType
  <2>2. n \in Nat
    BY <2>1 DEF MaxDeeds
  <2>3. n <= Len(Deeds(r, c, p, t, of))
    BY <1>3 DEF PageBreaks
  <2>4. of # <<>> => Len(Deeds(r, c, p, t, of)) \in Nat
    BY <1>2, DeedsOfPage
  <2>5. of = <<>> => Len(Deeds(r, c, p, t, of)) = 0
    BY DEF Deeds
  <2> QED
    BY <2>2, <2>3, <2>4, <2>5
<1>6. PageWorld(After(r, c, p, t, of, n), r, c, p, t, of, n)
  BY <1>1, <1>2, <1>4, <1>5, PageReached DEF CollectorTyped
<1>7. PICK d, objects, batches : /\ After(r, c, p, t, of, n) = WorldOf(d, objects, batches)
                                 /\ PageStores(d, objects, batches, r, c, p, t, of, n)
  BY <1>6 DEF PageWorld
<1> DEFINE w == After(r, c, p, t, of, n)
           recorded == [w EXCEPT !.db = RecordScan(w.db, r, c, p, t, FALSE)]
<1>8. \/ /\ Becomes(recorded)
         /\ scan' = [scan EXCEPT ![r][c] =
              [s EXCEPT !.failed = s.failed + 1, !.ok = oks,
                        !.unique = s.unique \cup reached, !.stage = "done"]]
      \/ /\ Becomes(w)
         /\ scan' = [scan EXCEPT ![r][c].stage = "crashed"]
  BY <1>3, Zenon DEF PageBreaks
<1>9. PICK e : /\ e = d \/ e = RecordScan(d, r, c, p, t, FALSE)
               /\ db' = e /\ lake' = objects /\ published' = batches
  <2>1. Becomes(recorded) =>
          db' = RecordScan(d, r, c, p, t, FALSE) /\ lake' = objects /\ published' = batches
    BY <1>7 DEF Becomes, WorldOf
  <2>2. Becomes(w) => db' = d /\ lake' = objects /\ published' = batches
    BY <1>7 DEF Becomes, WorldOf
  <2> HIDE DEF recorded, w
  <2> QED
    BY <1>8, <2>1, <2>2
<1>10. PICK new \in ScanStates : /\ scan' = [scan EXCEPT ![r][c] = new]
                                 /\ new.stage \in {"done", "crashed"}
                                 /\ new.failed # 0 \/ new.stage = "crashed"
  <2>1. s.unique \cup reached \in SUBSET Listings
    <3>1. reached \subseteq Listings
      BY <1>2
    <3> QED
      BY <1>1, <3>1 DEF ScanStates
  <2>2. oks \in Nat
    BY <1>1 DEF ScanStates
  <2>3. ASSUME scan' = [scan EXCEPT ![r][c] =
                 [s EXCEPT !.failed = s.failed + 1, !.ok = oks,
                           !.unique = s.unique \cup reached, !.stage = "done"]]
        PROVE  \E new \in ScanStates : /\ scan' = [scan EXCEPT ![r][c] = new]
                                       /\ new.stage \in {"done", "crashed"}
                                       /\ new.failed # 0 \/ new.stage = "crashed"
    <3> DEFINE all == s.unique \cup reached
               once == [s EXCEPT !.failed = s.failed + 1]
               twice == [once EXCEPT !.ok = oks]
               thrice == [twice EXCEPT !.unique = all]
               new == [thrice EXCEPT !.stage = "done"]
    <3>1. scan' = [scan EXCEPT ![r][c] = new]
      BY <2>3, Zenon
    <3>2. all \in SUBSET Listings
      BY <2>1
    <3>3. once \in ScanStates /\ once.failed # 0
      BY <1>1 DEF ScanStates
    <3> HIDE DEF all, once, oks
    <3>4. twice \in ScanStates /\ twice.failed # 0
      BY <2>2, <3>3 DEF ScanStates
    <3> HIDE DEF twice
    <3>5. thrice \in ScanStates /\ thrice.failed # 0
      BY <3>2, <3>4 DEF ScanStates
    <3> HIDE DEF thrice
    <3>6. new \in ScanStates /\ new.stage = "done" /\ new.failed # 0
      BY <3>5 DEF ScanStates
    <3> HIDE DEF new
    <3> QED
      BY <3>1, <3>6
  <2>4. ASSUME scan' = [scan EXCEPT ![r][c].stage = "crashed"]
        PROVE  \E new \in ScanStates : /\ scan' = [scan EXCEPT ![r][c] = new]
                                       /\ new.stage \in {"done", "crashed"}
                                       /\ new.failed # 0 \/ new.stage = "crashed"
    <3> DEFINE new == [s EXCEPT !.stage = "crashed"]
    <3>1. scan' = [scan EXCEPT ![r][c] = new]
      BY <2>4, Zenon
    <3>2. new \in ScanStates /\ new.stage = "crashed"
      BY <1>1 DEF ScanStates
    <3> HIDE DEF new
    <3> QED
      BY <3>1, <3>2
  <2> HIDE DEF recorded, oks, reached
  <2> QED
    BY <1>8, <2>3, <2>4
<1>11. /\ refresh' = refresh /\ refreshes' = refreshes /\ now' \in Times
       /\ collectFaults' \in 0..MaxCollectFaults
  <2>1. /\ refresh' = refresh /\ refreshes' = refreshes /\ now' = now
        /\ collectFaults > 0 /\ collectFaults' = collectFaults - 1
    BY Zenon DEF PageBreaks, Faulty
  <2> QED
    BY <1>1, <2>1, CollectorAssumption DEF CollectorTyped
<1> HIDE DEF emitted, reached, oks, w, recorded
<1>12. n \in Nat
  <2>1. Cardinality(Listings) \in Nat
    BY EvidenceAssumption, FS_CardinalityType
  <2> QED
    BY <2>1 DEF MaxDeeds
<1>13. /\ new.stage # "none" /\ (new.stage = "asks" => new.page = p + 1)
       /\ new.failed # 0 \/ new.stage = "crashed" \/ Whole(d, e, r, c, p, t, of, n, new)
  BY <1>10
<1>14. Recorded(d, e, r, c, p, t, of, n) /\ (ListedOnce => Apart(of))
  BY <1>9 DEF Recorded, ListedOnce
<1>15. /\ db' = e /\ lake' = objects /\ published' = batches
       /\ p = scan[r][c].page /\ t = scan[r][c].at
  BY <1>3, <1>9
<1>16. PageStores(d, objects, batches, r, c, p, t, of, n)
  BY <1>7
<1>17. new \in ScanStates /\ scan' = [scan EXCEPT ![r][c] = new]
  BY <1>10
<1> HIDE DEF s
<1> QED
  BY <1>2, <1>11, <1>12, <1>13, <1>14, <1>15, <1>16, <1>17, PageMoves

\* What is stored beside the pages.
LEMMA BesideThePages ==
  ASSUME lake \subseteq lake', \A o \in lake' \ lake : o.key[2][1] = "probes",
         db'.found = db.found, db'.scans = db.scans, NEW q, NEW g, NEW m, Untouched(q, g, m)
  PROVE  Untouched(q, g, m)'
<1>1. \A o \in lake' \ lake : o.key[2][1] # "page"
  OBVIOUS
<1> QED
  BY <1>1 DEF Untouched

\* What publishes and finds nothing, and forgets no probe, leaves the stores ordered.
LEMMA NothingPublished ==
  ASSUME StoresOrdered, lake' = lake, published' = published, db'.found = db.found,
         db.probes \subseteq db'.probes
  PROVE  StoresOrdered'
BY DEF StoresOrdered

\* A scan that is not asking, in a run that has begun or with nothing of it stored, is ahead.
LEMMA RunForgotten ==
  ASSUME CollectIInv, NEW r \in Runs, scan' = Forgotten(r), lake' = lake,
         db'.found = db.found, db'.scans = db.scans,
         \A q \in Runs : db'.runs[q].status = "none" => db.runs[q].status = "none"
  PROVE  PagesAhead' /\ scan' \in [Runs -> [Catalogs -> ScanStates]]
<1>1. scan \in [Runs -> [Catalogs -> ScanStates]] /\ PagesAhead
  BY DEF CollectIInv, CollectorTyped
<1>2. /\ scan' \in [Runs -> [Catalogs -> ScanStates]]
      /\ \A q \in Runs, g \in Catalogs : scan'[q][g] = IF q = r THEN Idle ELSE scan[q][g]
  BY <1>1, IdleTyped DEF Forgotten
<1>3. ASSUME NEW q \in Runs, NEW g \in Catalogs
      PROVE  Ahead(q, g)'
  <2>1. Ahead(q, g)
    BY <1>1 DEF PagesAhead
  <2>2. \A m \in Nat : Untouched(q, g, m) => Untouched(q, g, m)'
    BY BesideThePages
  <2>3. PageLimit \in Nat /\ Idle.stage = "none"
    BY EvidenceAssumption DEF Idle
  <2> QED
    BY <1>2, <2>1, <2>2, <2>3 DEF Ahead
<1> QED
  BY <1>2, <1>3 DEF PagesAhead

\* Its tallies are no more.
LEMMA ForgottenTallies ==
  ASSUME NEW r \in Runs, scan \in [Runs -> [Catalogs -> ScanStates]], scan' = Forgotten(r),
         db'.runs[r].status # "none", \A q \in Runs : q # r => db'.runs[q] = db.runs[q],
         NEW q \in Runs, NEW g \in Catalogs, Unspoilt(q, g)'
  PROVE  Unspoilt(q, g) /\ scan'[q][g] = scan[q][g]
<1>1. \A m \in Runs, x \in Catalogs : scan'[m][x] = IF m = r THEN Idle ELSE scan[m][x]
  BY DEF Forgotten
<1>2. q # r
  BY <1>1 DEF Unspoilt, Scanned, Idle
<1>3. Scanned(q)' = Scanned(q)
  BY <1>1, <1>2 DEF Scanned
<1> QED
  BY <1>1, <1>2, <1>3 DEF Unspoilt

\* A run that begins asks for first pages, of which nothing is stored yet.
LEMMA LaunchKeeps ==
  ASSUME CollectIInv, NEW r \in Runs, Launch(r)
  PROVE  CollectIInv'
<1>1. CollectorTyped /\ PagesAhead /\ StoresOrdered /\ refresh.told \subseteq db.probes
  BY DEF CollectIInv
<1>2. /\ lake' = lake /\ published' = published /\ refresh' = refresh /\ refreshes' = refreshes
      /\ collectFaults' = collectFaults /\ db.runs[r].status = "none"
  BY DEF Launch
<1>3. 1 \in 1..PageLimit /\ PageLimit \in Nat
  BY EvidenceAssumption
<1>4. ASSUME NEW t \in Soon, now' = t, db' = StartRun(db, r),
             scan' = [scan EXCEPT ![r] = [c \in Catalogs |->
                        IF c \in Options[r].catalogs THEN [Idle EXCEPT !.stage = "asks", !.at = t]
                        ELSE Idle]]
      PROVE  CollectIInv'
  <2> DEFINE first == [Idle EXCEPT !.stage = "asks", !.at = t]
             next == [c \in Catalogs |-> IF c \in Options[r].catalogs THEN first ELSE Idle]
             row == [db.runs[r] EXCEPT !.status = "running"]
             rows == [db.runs EXCEPT ![r] = row]
  <2>1. t \in Times
    BY DEF Soon
  <2>2. first \in ScanStates /\ first.page = 1
    <3>1. [Idle EXCEPT !.stage = "asks"]
            = [stage |-> "asks", page |-> 1, at |-> 0, ok |-> 0, failed |-> 0, unique |-> {}]
      BY DEF Idle
    <3> DEFINE asking == [Idle EXCEPT !.stage = "asks"]
    <3>2. first = [asking EXCEPT !.at = t]
      BY Zenon
    <3> HIDE DEF asking
    <3>3. asking = [stage |-> "asks", page |-> 1, at |-> 0, ok |-> 0, failed |-> 0, unique |-> {}]
      BY <3>1 DEF asking
    <3> HIDE DEF first
    <3> QED
      BY <1>3, <2>1, <3>2, <3>3 DEF ScanStates
  <2>3. row \in RunRow /\ row.status = "running"
    BY <1>1 DEF CollectorTyped, Store, StoreOf, RunRow
  <2>4. db' = [db EXCEPT !.runs = rows]
    BY <1>4, Zenon DEF StartRun
  <2> HIDE DEF first, row
  <2>5. rows \in [Runs -> RunRow] /\ rows[r].status = "running"
        /\ \A q \in Runs : q # r => rows[q] = db.runs[q]
    BY <1>1, <2>3 DEF CollectorTyped, Store, StoreOf
  <2> HIDE DEF rows
  <2>6. /\ db' \in Store /\ db'.runs = rows /\ db'.found = db.found /\ db'.scans = db.scans
        /\ db'.probes = db.probes /\ db'.observed = db.observed
    BY <1>1, <2>4, <2>5 DEF CollectorTyped, Store, StoreOf
  <2>7. next \in [Catalogs -> ScanStates]
    BY <2>2, IdleTyped
  <2>8. scan' = [scan EXCEPT ![r] = next]
    BY <1>4 DEF first
  <2>9. \A c \in Catalogs : next[c] = first \/ next[c] = Idle
    OBVIOUS
  <2> HIDE DEF next
  <2>10. /\ scan' \in [Runs -> [Catalogs -> ScanStates]] /\ scan'[r] = next
         /\ \A q \in Runs : q # r => scan'[q] = scan[q]
    BY <1>1, <2>7, <2>8 DEF CollectorTyped
  <2>11. ASSUME NEW q \in Runs, NEW g \in Catalogs
         PROVE  Ahead(q, g)'
    <3>1. Ahead(q, g)
      BY <1>1 DEF PagesAhead
    <3>2. \A m \in Nat : Untouched(q, g, m) => Untouched(q, g, m)'
      BY <1>2, <2>6, BesideThePages
    <3>3. CASE q = r
      <4>1. Untouched(r, g, 1)'
        BY <1>2, <3>1, <3>2, <3>3 DEF Ahead
      <4>2. scan'[r][g].page = 1
        BY <2>2, <2>9, <2>10 DEF Idle
      <4>3. db'.runs[r].status # "none"
        BY <2>5, <2>6
      <4> QED
        BY <3>3, <4>1, <4>2, <4>3 DEF Ahead
    <3>4. CASE q # r
      BY <1>3, <2>5, <2>6, <2>10, <3>1, <3>2, <3>4 DEF Ahead
    <3> QED
      BY <3>3, <3>4
  <2>12. StoresOrdered'
    BY <1>1, <1>2, <2>6, NothingPublished
  <2>13. CollectorTyped'
    BY <1>1, <1>2, <1>4, <2>1, <2>6, <2>10 DEF CollectorTyped
  <2>14. CollectTallied'
    <3>1. first.ok = 0 /\ first.unique = {} /\ first.stage = "asks"
      BY DEF first, Idle
    <3>2. \A g \in Catalogs : scan[r][g] = Idle
      BY <1>1, <1>2 DEF PagesAhead, Ahead
    <3>3. Idle.ok = 0 /\ Idle.unique = {} /\ Idle.stage = "none" /\ Idle.failed = 0
      BY DEF Idle
    <3>4. ASSUME NEW q \in Runs, NEW g \in Catalogs, Unspoilt(q, g)'
          PROVE  /\ Unspoilt(q, g)
                 /\ scan'[q][g].ok = scan[q][g].ok /\ scan'[q][g].unique = scan[q][g].unique
                 /\ scan'[q][g].stage = "done" => scan[q][g].stage = "done"
                 /\ scan'[q][g].stage = "none" => scan[q][g].stage = "none"
      <4>1. CASE q = r
        <5>1. Unspoilt(r, g)
          BY <1>2, <3>2, <3>3 DEF Unspoilt
        <5>2. scan'[r][g] = first \/ scan'[r][g] = Idle
          BY <2>9, <2>10
        <5> QED
          BY <3>1, <3>2, <3>3, <4>1, <5>1, <5>2
      <4>2. CASE q # r
        <5>1. scan'[q] = scan[q] /\ db'.runs[q] = db.runs[q]
          BY <2>5, <2>6, <2>10, <4>2
        <5>2. Scanned(q)' = Scanned(q)
          BY <5>1 DEF Scanned
        <5> QED
          BY <3>4, <5>1, <5>2 DEF Unspoilt
      <4> QED
        BY <4>1, <4>2
    <3>5. \A q \in Runs : db'.runs[q] = db.runs[q] \/ Honest(q)'
      BY <2>5, <2>6 DEF Honest
    <3> QED
      BY <1>1, <1>2, <2>6, <3>4, <3>5, TalliesStand DEF CollectIInv, CollectorTyped
  <2> QED
    BY <1>1, <1>2, <2>6, <2>11, <2>12, <2>13, <2>14 DEF CollectIInv, PagesAhead
<1>5. ASSUME db' = CompleteRun(db, r, "failed", NoTotals), now' = now, scan' = scan
      PROVE  CollectIInv'
  <2> DEFINE row == [status |-> "failed", scanned |-> NoTotals.scanned, ok |-> NoTotals.ok,
                     failed |-> NoTotals.failed, unique |-> NoTotals.unique]
             rows == [db.runs EXCEPT ![r] = row]
  <2>1. row \in RunRow /\ row.status = "failed"
    BY DEF RunRow, NoTotals
  <2>2. db' = [db EXCEPT !.runs = rows]
    BY <1>5, Zenon DEF CompleteRun
  <2> HIDE DEF row
  <2>3. rows \in [Runs -> RunRow] /\ rows[r].status = "failed"
        /\ \A q \in Runs : q # r => rows[q] = db.runs[q]
    BY <1>1, <2>1 DEF CollectorTyped, Store, StoreOf
  <2> HIDE DEF rows
  <2>4. /\ db' \in Store /\ db'.runs = rows /\ db'.found = db.found /\ db'.scans = db.scans
        /\ db'.probes = db.probes /\ db'.observed = db.observed
    BY <1>1, <2>2, <2>3 DEF CollectorTyped, Store, StoreOf
  <2>5. ASSUME NEW q \in Runs, NEW g \in Catalogs
        PROVE  Ahead(q, g)'
    <3>1. Ahead(q, g)
      BY <1>1 DEF PagesAhead
    <3>2. \A m \in Nat : Untouched(q, g, m) => Untouched(q, g, m)'
      BY <1>2, <2>4, BesideThePages
    <3> QED
      BY <1>3, <1>5, <2>3, <2>4, <3>1, <3>2 DEF Ahead
  <2>6. StoresOrdered'
    BY <1>1, <1>2, <2>4, NothingPublished
  <2>7. CollectorTyped'
    BY <1>1, <1>2, <1>5, <2>4 DEF CollectorTyped
  <2>8. CollectTallied'
    <3>1. \A g \in Catalogs : scan[r][g] = Idle
      BY <1>1, <1>2 DEF PagesAhead, Ahead
    <3>2. \A q \in Runs, g \in Catalogs : Unspoilt(q, g)' => Unspoilt(q, g)
      BY <1>2, <1>5, <2>3, <2>4, <3>1 DEF Unspoilt, Scanned, Idle
    <3>3. \A q \in Runs : db'.runs[q] = db.runs[q] \/ Honest(q)'
      BY <2>3, <2>4 DEF Honest
    <3> QED
      BY <1>1, <1>2, <1>5, <2>4, <3>2, <3>3, TalliesStand DEF CollectIInv, CollectorTyped
  <2> QED
    BY <1>1, <1>2, <2>4, <2>5, <2>6, <2>7, <2>8 DEF CollectIInv, PagesAhead
<1> QED
  BY <1>4, <1>5 DEF Launch

\* The end of a run, or of its coroutines.
LEMMA RunCompleted ==
  ASSUME NEW d \in Store, NEW r \in Runs, NEW status \in {"completed", "failed"},
         NEW totals \in TotalsShape, NEW e, e = CompleteRun(d, r, status, totals)
  PROVE  /\ e \in Store /\ e.found = d.found /\ e.scans = d.scans /\ e.probes = d.probes
         /\ e.observed = d.observed /\ e.runs[r].status = status
         /\ e.runs[r].scanned = totals.scanned /\ e.runs[r].ok = totals.ok
         /\ e.runs[r].failed = totals.failed /\ e.runs[r].unique = totals.unique
         /\ \A q \in Runs : q # r => e.runs[q] = d.runs[q]
         /\ \A q \in Runs : e.runs[q].status = "none" => d.runs[q].status = "none"
<1> DEFINE row == [status |-> status, scanned |-> totals.scanned, ok |-> totals.ok,
                   failed |-> totals.failed, unique |-> totals.unique]
           rows == [d.runs EXCEPT ![r] = row]
<1>1. /\ row \in RunRow /\ row.status = status /\ row.scanned = totals.scanned
      /\ row.ok = totals.ok /\ row.failed = totals.failed /\ row.unique = totals.unique
  BY DEF RunRow, TotalsShape
<1>2. e = [d EXCEPT !.runs = rows]
  BY Zenon DEF CompleteRun
<1> HIDE DEF row
<1>3. rows \in [Runs -> RunRow] /\ \A q \in Runs : rows[q] = IF q = r THEN row ELSE d.runs[q]
  BY <1>1 DEF Store, StoreOf
<1> HIDE DEF rows
<1>4. e \in Store /\ e.runs = rows /\ e.found = d.found /\ e.scans = d.scans /\ e.probes = d.probes
      /\ e.observed = d.observed
  BY <1>2, <1>3 DEF Store, StoreOf
<1> QED
  BY <1>1, <1>3, <1>4

\* Faults are bounded.
LEMMA FaultSpent ==
  ASSUME CollectorTyped, Faulty
  PROVE  collectFaults' \in 0..MaxCollectFaults
BY CollectorAssumption DEF CollectorTyped, Faulty

\* A run that ends.
LEMMA FinishKeeps ==
  ASSUME CollectIInv, NEW r \in Runs, Finish(r)
  PROVE  CollectIInv'
<1>1. CollectorTyped /\ StoresOrdered /\ refresh.told \subseteq db.probes
  BY DEF CollectIInv
<1>2. Totals(r) \in TotalsShape
  BY <1>1, TotalsCounted DEF CollectorTyped
<1>3. PICK status \in {"completed", "failed"} : db' = CompleteRun(db, r, status, Totals(r))
  BY DEF Finish
<1>4. PICK totals \in TotalsShape : totals = Totals(r)
  BY <1>2
<1>5. /\ db' \in Store /\ db'.found = db.found /\ db'.scans = db.scans /\ db'.probes = db.probes
      /\ db'.observed = db.observed /\ db'.runs[r].status = status
      /\ db'.runs[r].scanned = totals.scanned /\ db'.runs[r].ok = totals.ok
      /\ db'.runs[r].failed = totals.failed /\ db'.runs[r].unique = totals.unique
      /\ \A q \in Runs : q # r => db'.runs[q] = db.runs[q]
      /\ \A q \in Runs : db'.runs[q].status = "none" => db.runs[q].status = "none"
  BY <1>1, <1>3, <1>4, RunCompleted DEF CollectorTyped
<1>6. /\ lake' = lake /\ published' = published /\ now' = now /\ refresh' = refresh
      /\ refreshes' = refreshes /\ scan' = Forgotten(r)
      /\ collectFaults' = collectFaults \/ Faulty
  BY Zenon DEF Finish
<1>7. PagesAhead' /\ scan' \in [Runs -> [Catalogs -> ScanStates]]
  BY <1>5, <1>6, RunForgotten
<1>8. StoresOrdered'
  BY <1>1, <1>5, <1>6, NothingPublished
<1>9. CollectorTyped'
  BY <1>1, <1>5, <1>6, <1>7, FaultSpent DEF CollectorTyped
<1>10. CollectTallied'
  <2>1. CollectTallied /\ db \in Store /\ scan \in [Runs -> [Catalogs -> ScanStates]]
    BY <1>1 DEF CollectIInv, CollectorTyped
  <2>2. Scanned(r) # {} /\ \A c \in Scanned(r) : scan[r][c].stage \in {"done", "crashed"}
    BY DEF Finish
  <2>3. Honest(r)'
    BY <1>4, <1>5, <1>6, <2>1, <2>2, FinishHonest
  <2>4. \A q \in Runs, g \in Catalogs :
          Unspoilt(q, g)' => Unspoilt(q, g) /\ scan'[q][g] = scan[q][g]
    BY <1>5, <1>6, <2>1, ForgottenTallies
  <2>5. \A q \in Runs : db'.runs[q] = db.runs[q] \/ Honest(q)'
    BY <1>5, <2>3
  <2> QED
    BY <1>5, <1>6, <2>1, <2>4, <2>5, TalliesStand
<1> QED
  BY <1>1, <1>5, <1>6, <1>7, <1>8, <1>9, <1>10 DEF CollectIInv

\* A run whose process dies: its row stays running, and no scan of it goes on.
LEMMA AbandonedKeeps ==
  ASSUME CollectIInv, NEW r \in Runs, Abandoned(r)
  PROVE  CollectIInv'
<1>1. CollectorTyped /\ StoresOrdered /\ refresh.told \subseteq db.probes
  BY DEF CollectIInv
<1>2. /\ lake' = lake /\ published' = published /\ now' = now /\ refresh' = refresh
      /\ refreshes' = refreshes /\ scan' = Forgotten(r) /\ Faulty /\ db' = db
  BY DEF Abandoned
<1>3. PagesAhead' /\ scan' \in [Runs -> [Catalogs -> ScanStates]]
  BY <1>2, RunForgotten
<1>4. StoresOrdered'
  BY <1>1, <1>2, NothingPublished
<1>5. CollectorTyped'
  BY <1>1, <1>2, <1>3, FaultSpent DEF CollectorTyped
<1>6. CollectTallied'
  <2>1. db.runs[r].status # "none"
    BY DEF CollectIInv, PagesAhead, Ahead, Abandoned, Scanned, Idle
  <2>2. CollectTallied /\ db \in Store /\ scan \in [Runs -> [Catalogs -> ScanStates]]
    BY <1>1 DEF CollectIInv, CollectorTyped
  <2>3. \A q \in Runs, g \in Catalogs :
          Unspoilt(q, g)' => Unspoilt(q, g) /\ scan'[q][g] = scan[q][g]
    BY <1>2, <2>1, <2>2, ForgottenTallies
  <2> QED
    BY <1>2, <2>2, <2>3, TalliesStand
<1> QED
  BY <1>1, <1>2, <1>3, <1>4, <1>5, <1>6 DEF CollectIInv

\* What no scan asks for and no page writes leaves the pages ahead.
LEMMA AheadStill ==
  ASSUME CollectIInv, db'.runs = db.runs, db'.found = db.found, db'.scans = db.scans,
         lake \subseteq lake', \A o \in lake' \ lake : o.key[2][1] = "probes",
         \A q \in Runs, g \in Catalogs :
           scan'[q][g] = scan[q][g] \/ (/\ scan'[q][g].stage # "asks"
                                        /\ db.runs[q].status # "none")
  PROVE  PagesAhead'
<1> SUFFICES ASSUME NEW q \in Runs, NEW g \in Catalogs PROVE Ahead(q, g)'
  BY DEF PagesAhead
<1>1. Ahead(q, g)
  BY DEF CollectIInv, PagesAhead
<1>2. \A m \in Nat : Untouched(q, g, m) => Untouched(q, g, m)'
  BY BesideThePages
<1>3. PageLimit \in Nat
  BY EvidenceAssumption
<1> QED
  BY <1>1, <1>2, <1>3 DEF Ahead

\* A coroutine that crashes asks for nothing more.
LEMMA ScanCrashesKeeps ==
  ASSUME CollectIInv, NEW r \in Runs, NEW c \in Catalogs, ScanCrashes(r, c)
  PROVE  CollectIInv'
<1>1. CollectorTyped /\ StoresOrdered /\ refresh.told \subseteq db.probes
  BY DEF CollectIInv
<1>2. /\ lake' = lake /\ published' = published /\ now' = now /\ refresh' = refresh
      /\ refreshes' = refreshes /\ Faulty /\ db' = db /\ db.runs[r].status # "none"
  BY DEF ScanCrashes
<1> DEFINE new == [scan[r][c] EXCEPT !.stage = "crashed"]
<1>3. scan' = [scan EXCEPT ![r][c] = new]
  <2>1. scan' = [scan EXCEPT ![r][c].stage = "crashed"]
    BY DEF ScanCrashes
  <2> QED
    BY <2>1, Zenon
<1>4. new \in ScanStates /\ new.stage = "crashed"
  <2>1. scan[r][c] \in ScanStates
    BY <1>1 DEF CollectorTyped
  <2> QED
    BY <2>1 DEF ScanStates
<1> HIDE DEF new
<1>5. /\ scan' \in [Runs -> [Catalogs -> ScanStates]] /\ scan'[r][c] = new
      /\ \A q \in Runs, g \in Catalogs : q # r \/ g # c => scan'[q][g] = scan[q][g]
  BY <1>1, <1>3, <1>4 DEF CollectorTyped
<1>6. PagesAhead'
  BY <1>2, <1>4, <1>5, AheadStill
<1>7. StoresOrdered'
  BY <1>1, <1>2, NothingPublished
<1>8. CollectorTyped'
  BY <1>1, <1>2, <1>5, FaultSpent DEF CollectorTyped
<1>9. CollectTallied'
  <2>1. ASSUME NEW q \in Runs, NEW g \in Catalogs, Unspoilt(q, g)'
        PROVE  Unspoilt(q, g) /\ scan'[q][g] = scan[q][g]
    <3>1. q # r \/ g # c
      BY <1>4, <1>5, <2>1 DEF Unspoilt
    <3>2. scan'[q][g] = scan[q][g]
      BY <1>5, <3>1
    <3>3. Scanned(q)' = Scanned(q)
      <4>1. \A x \in Catalogs : scan'[q][x].stage # "none" <=> scan[q][x].stage # "none"
        BY <1>4, <1>5 DEF ScanCrashes
      <4> QED
        BY <4>1 DEF Scanned
    <3> QED
      BY <1>2, <2>1, <3>2, <3>3 DEF Unspoilt
  <2> QED
    BY <1>1, <1>2, <2>1, TalliesStand DEF CollectIInv, CollectorTyped
<1> QED
  BY <1>1, <1>2, <1>6, <1>7, <1>8, <1>9 DEF CollectIInv

-----------------------------------------------------------------------------
(* The refresh.                                                            *)

\* A refresh that begins has told nothing.
LEMMA RefreshBeginsKeeps ==
  ASSUME CollectIInv, RefreshBegins
  PROVE  CollectIInv'
<1>1. CollectorTyped /\ StoresOrdered /\ refresh.told \subseteq db.probes
  BY DEF CollectIInv
<1>2. PICK t \in Soon : /\ now' = t
                        /\ refresh' = [NoRefresh EXCEPT !.stage = "probes", !.from = t,
                                                        !.todo = Chosen(db, t, ProbeLimit)]
  BY DEF RefreshBegins
<1>3. t \in Times
  BY DEF Soon
<1>4. Chosen(db, t, ProbeLimit) \in SUBSET Listings
  BY <1>1 DEF Chosen, Targets, Observed, CollectorTyped, Store, StoreOf
<1> DEFINE chosen == Chosen(db, t, ProbeLimit)
           first == [NoRefresh EXCEPT !.stage = "probes"]
           second == [first EXCEPT !.from = t]
           third == [second EXCEPT !.todo = chosen]
<1>5. refresh' = third
  BY <1>2, Zenon
<1>6. first \in RefreshStates /\ first.told = {}
  BY IdleTyped DEF NoRefresh, RefreshStates
<1> HIDE DEF first, chosen
<1>7. second \in RefreshStates /\ second.told = {}
  BY <1>3, <1>6 DEF RefreshStates
<1> HIDE DEF second
<1>8. third \in RefreshStates /\ third.told = {}
  BY <1>4, <1>7 DEF RefreshStates, chosen
<1> HIDE DEF third
<1>9. /\ db' = db /\ lake' = lake /\ published' = published /\ scan' = scan
      /\ collectFaults' = collectFaults /\ refreshes' \in 0..MaxRefreshes
  BY <1>1, CollectorAssumption DEF RefreshBegins, CollectorTyped
<1>10. PagesAhead'
  BY <1>9, AheadStill
<1>11. StoresOrdered'
  BY <1>1, <1>9, NothingPublished
<1>12. CollectorTyped'
  BY <1>1, <1>2, <1>3, <1>5, <1>8, <1>9 DEF CollectorTyped
<1> QED
  BY <1>5, <1>8, <1>9, <1>10, <1>11, <1>12, TalliesUntouched DEF CollectIInv, CollectorTyped

\* A probe is stored before it is told.
LEMMA ProbeKeeps ==
  ASSUME CollectIInv, NEW l \in Listings, Probe(l)
  PROVE  CollectIInv'
<1>1. CollectorTyped /\ StoresOrdered /\ refresh.told \subseteq db.probes
  BY DEF CollectIInv
<1>2. PICK answer \in Answers :
        /\ db' = RecordProbe(db, l, now, answer)
        /\ refresh' = [refresh EXCEPT !.todo = refresh.todo \ {l},
                         !.told = refresh.told \cup {[listing |-> l, at |-> now, outcome |-> answer]}]
  BY Zenon DEF Probe
<1> DEFINE p == [listing |-> l, at |-> now, outcome |-> answer]
           rest == refresh.todo \ {l}
           told == refresh.told \cup {p}
           probes == db.probes \cup {p}
           first == [refresh EXCEPT !.todo = rest]
           second == [first EXCEPT !.told = told]
<1>3. refresh' = second /\ db' = [db EXCEPT !.probes = probes]
  BY <1>2, Zenon DEF RecordProbe
<1>4. p \in [listing : Listings, at : Times, outcome : Outcomes \ {"none"}]
  BY <1>1, CollectorAssumption DEF CollectorTyped
<1> HIDE DEF p
<1>5. /\ rest \in SUBSET Listings /\ told \subseteq probes
      /\ told \in SUBSET [listing : Listings, at : Times, outcome : Outcomes \ {"none"}]
      /\ probes \in SUBSET [listing : Listings, at : Times, outcome : Outcomes \ {"none"}]
      /\ db.probes \subseteq probes
  BY <1>1, <1>4 DEF CollectorTyped, RefreshStates, Store, StoreOf
<1> HIDE DEF rest, told, probes
<1>6. first \in RefreshStates
  BY <1>1, <1>5 DEF CollectorTyped, RefreshStates
<1> HIDE DEF first
<1>7. second \in RefreshStates /\ second.told = told
  BY <1>5, <1>6 DEF RefreshStates
<1> HIDE DEF second
<1>8. /\ db' \in Store /\ db'.runs = db.runs /\ db'.found = db.found /\ db'.scans = db.scans
      /\ db'.probes = probes /\ db'.observed = db.observed
  BY <1>1, <1>3, <1>5 DEF CollectorTyped, Store, StoreOf
<1>9. /\ lake' = lake /\ published' = published /\ now' = now /\ scan' = scan
      /\ refreshes' = refreshes /\ collectFaults' = collectFaults
  BY DEF Probe
<1>10. PagesAhead'
  BY <1>8, <1>9, AheadStill
<1>11. StoresOrdered'
  BY <1>1, <1>5, <1>8, <1>9, NothingPublished
<1>12. CollectorTyped'
  BY <1>1, <1>3, <1>7, <1>8, <1>9 DEF CollectorTyped
<1>13. refresh'.told \subseteq db'.probes
  BY <1>3, <1>5, <1>7, <1>8
<1> QED
  BY <1>8, <1>9, <1>10, <1>11, <1>12, <1>13, TalliesUntouched DEF CollectIInv, CollectorTyped

\* What a refresh emits, SQLite knows; its objects are no page's.
LEMMA EmitProbesKeeps ==
  ASSUME CollectIInv, EmitProbes
  PROVE  CollectIInv'
<1>1. CollectorTyped /\ StoresOrdered /\ refresh.told \subseteq db.probes
  BY DEF CollectIInv
<1>2. PICK b : b = ProbeBatch
  OBVIOUS
<1>3. b.id[1] = "probes" /\ b.rows = refresh.told
  BY <1>2 DEF ProbeBatch
<1>4. PICK n \in 0..3 :
        /\ lake' = lake \cup {Objects(b)[i] : i \in 1..n}
        /\ published' = published \cup IF n = 3 THEN {b} ELSE {}
        /\ collectFaults' = collectFaults \/ Faulty
  BY <1>2 DEF EmitProbes
<1>5. /\ refresh' = NoRefresh /\ db' = db /\ now' = now /\ scan' = scan /\ refreshes' = refreshes
  BY DEF EmitProbes
<1>6. \A o \in lake' \ lake : o.key[2][1] = "probes"
  <2>1. \A i \in 1..3 : Objects(b)[i].key[2] = b.id
    BY KeysOfBatch
  <2>2. \A i \in 1..n : Objects(b)[i].key[2][1] = "probes"
    BY <1>3, <2>1
  <2> QED
    BY <1>4, <2>2
<1>7. PagesAhead'
  BY <1>4, <1>5, <1>6, AheadStill
<1>8. StoresOrdered'
  <2>1. published \subseteq published' /\ lake \subseteq lake'
    BY <1>4
  <2>2. \A x \in published' : x \in published \/ x = b
    BY <1>4
  <2>3. b \in published' /\ b \notin published => Readable(lake', b)
    <3>1. b \in published' /\ b \notin published => n = 3
      BY <1>4
    <3> QED
      BY <1>4, <3>1 DEF Readable
  <2>4. PICK objects : objects = lake'
    OBVIOUS
  <2>5. \A x \in published : Readable(lake', x)
    BY <1>1, <2>1, <2>4, StillReadable DEF StoresOrdered
  <2>6. PICK batches : batches = published'
    OBVIOUS
  <2>7. \A x \in batches : Readable(objects, x)
    BY <2>2, <2>3, <2>4, <2>5, <2>6
  <2>8. \A x \in batches : x.id[1] = "probes" => x.rows \subseteq db.probes
    BY <1>1, <1>3, <2>2, <2>6 DEF StoresOrdered
  <2>9. \A f \in db.found :
          \E x \in batches : /\ x.id = <<"page", f.run, f.catalog, f.page, f.at>>
                             /\ [listing |-> f.listing, at |-> f.at] \in x.rows
    BY <1>1, <2>1, <2>6 DEF StoresOrdered
  <2> QED
    BY <1>5, <2>4, <2>6, <2>7, <2>8, <2>9 DEF StoresOrdered
<1>9. CollectorTyped'
  BY <1>1, <1>4, <1>5, IdleTyped, FaultSpent DEF CollectorTyped
<1>10. CollectTallied'
  <2>1. published \subseteq published' /\ \A x \in published' \ published : x.id[1] = "probes"
    BY <1>3, <1>4
  <2> QED
    BY <1>1, <1>5, <2>1, TalliesUntouched DEF CollectIInv, CollectorTyped
<1> QED
  BY <1>5, <1>7, <1>8, <1>9, <1>10 DEF CollectIInv, NoRefresh

\* A refresh that stops has nothing more to tell.
LEMMA RefreshAbortsKeeps ==
  ASSUME CollectIInv, RefreshAborts
  PROVE  CollectIInv'
<1>1. CollectorTyped /\ StoresOrdered
  BY DEF CollectIInv
<1>2. /\ db' = db /\ lake' = lake /\ published' = published /\ now' = now /\ scan' = scan
      /\ refresh' = NoRefresh /\ refreshes' = refreshes /\ Faulty
  BY DEF RefreshAborts
<1>3. PagesAhead'
  BY <1>2, AheadStill
<1>4. StoresOrdered'
  BY <1>1, <1>2, NothingPublished
<1>5. CollectorTyped'
  BY <1>1, <1>2, IdleTyped, FaultSpent DEF CollectorTyped
<1>6. CollectTallied'
  BY <1>1, <1>2, TalliesUntouched DEF CollectIInv, CollectorTyped
<1> QED
  BY <1>2, <1>3, <1>4, <1>5, <1>6 DEF CollectIInv, NoRefresh

-----------------------------------------------------------------------------

\* Every step of a collector keeps the invariant.
LEMMA CollectGoesOn == CollectIInv /\ [CollectNext]_collectVars => CollectIInv'
<1> SUFFICES ASSUME CollectIInv, [CollectNext]_collectVars PROVE CollectIInv'
  OBVIOUS
<1>1. CASE \E r \in Runs : Launch(r) \/ Finish(r) \/ Abandoned(r)
  BY <1>1, LaunchKeeps, FinishKeeps, AbandonedKeeps
<1>2. ASSUME NEW r \in Runs, NEW c \in Catalogs, Asks(r, c),
             \/ PageFails(r, c)
             \/ \E of \in Pages : PageHandled(r, c, of)
             \/ \E of \in Pages, n \in 0..MaxDeeds : PageBreaks(r, c, of, n)
      PROVE  CollectIInv'
  BY <1>2, PageFailsKeeps, PageHandledKeeps, PageBreaksKeeps
<1>3. CASE \E r \in Runs, c \in Catalogs : ScanCrashes(r, c)
  BY <1>3, ScanCrashesKeeps
<1>4. CASE RefreshBegins \/ EmitProbes \/ RefreshAborts
  BY <1>4, RefreshBeginsKeeps, EmitProbesKeeps, RefreshAbortsKeeps
<1>5. CASE \E l \in Listings : Probe(l)
  BY <1>5, ProbeKeeps
<1>6. CASE UNCHANGED collectVars
  <2>1. /\ db' = db /\ lake' = lake /\ published' = published /\ now' = now /\ scan' = scan
        /\ refresh' = refresh /\ refreshes' = refreshes /\ collectFaults' = collectFaults
    BY <1>6 DEF collectVars
  <2>2. PagesAhead'
    BY <2>1, AheadStill
  <2>3. StoresOrdered'
    BY <2>1, NothingPublished DEF CollectIInv
  <2> QED
    BY <2>1, <2>2, <2>3, TalliesUntouched DEF CollectIInv, CollectorTyped
<1> QED
  BY <1>1, <1>2, <1>3, <1>4, <1>5, <1>6 DEF CollectNext

\* In every state a collector reaches, its stores are typed, what a refresh would tell is in SQLite
\* already, no scan asks for a page that left anything behind, and the stores are ordered.
THEOREM CollectorInvariant == CollectSpec => []CollectIInv
BY CollectStarts, CollectGoesOn, PTL DEF CollectSpec

\* The rows of _scan_catalog and refresh are what the tables can hold: run totals are numbers, pages
\* stay within the limit, probes say what a probe may say.
THEOREM CollectTyped == CollectSpec => []CollectTypeOK
<1>1. CollectIInv => CollectTypeOK
  BY DEF CollectIInv, CollectorTyped, CollectTypeOK, RefreshStates, ScanStates
<1> QED
  BY <1>1, CollectorInvariant, PTL

\* _scan_catalog emits a page before it stores it and refresh stores before it emits, and either may
\* stop at any write: SQLite never knows a sighting whose batch is not out and readable, and the
\* outbox never has a probe that SQLite does not know.
THEOREM StoresStayOrdered == CollectSpec => []StoresOrdered
<1>1. CollectIInv => StoresOrdered
  BY DEF CollectIInv
<1> QED
  BY <1>1, CollectorInvariant, PTL

\* A run that complete_run closes as completed, with no scan failed, has the totals of its rows in
\* catalog_scans and listing_discoveries, and an observation of every card of every page it sent to
\* the lake: however its catalogs' pages interleaved, and whatever broke off in other runs.
THEOREM TotalsStayHonest == CollectSpec => []TotalsHonest
<1>1. CollectIInv => TotalsHonest
  <2> SUFFICES ASSUME CollectIInv PROVE TotalsHonest
    OBVIOUS
  <2>1. \A r \in Runs : Honest(r)
    BY DEF CollectIInv, CollectTallied
  <2>2. \A r \in Runs, l \in Listings : Noted(db, r, l) <=> \E o \in Of(db, l) : o.run = r
    BY DEF Noted, Rows, Of
  <2> QED
    BY <2>1, <2>2 DEF TotalsHonest, Honest, AllNoted, Noted, Rows, Of
<1> QED
  BY <1>1, CollectorInvariant, PTL

\* record_listing_observation keeps one row a run and listing, whatever the order in which the pages of
\* concurrent catalogs are handled and wherever they break off: it has the earliest time, a catalog of
\* that time, and as many sightings as there were, give or take those of pages not recorded as read.
\* A card that stands on a page twice is one sighting and counts twice, so no page has one.
THEOREM ObservationsSumUp ==
  ASSUME ListedOnce
  PROVE  CollectSpec => []ObservationsSummarise
<1>1. ASSUME CollectIInv, NEW r \in Runs, NEW l \in Listings
      PROVE  /\ ReadWhole(db, r, l) # {} => Rows(db, r, l) # {}
             /\ \A o \in Rows(db, r, l) :
                  /\ o.sightings \in
                       Cardinality(ReadWhole(db, r, l))..Cardinality(Appearances(db, r, l))
                  /\ \E f \in Appearances(db, r, l) : f.at = o.at /\ f.catalog = o.catalog
                  /\ \A f \in ReadWhole(db, r, l) : o.at <= f.at
  <2> DEFINE all == Appearances(db, r, l)
             sound == ReadWhole(db, r, l)
  <2>1. PICK K \in SUBSET all : sound \subseteq K /\ SumsUp(Rows(db, r, l), K)
    BY <1>1 DEF CollectIInv, CollectTallied, Summed
  <2>2. IsFiniteSet(all)
    <3>1. all \subseteq db.found
      BY DEF Appearances
    <3> QED
      BY <1>1, <3>1, FS_Subset DEF CollectIInv, CollectTallied
  <2> HIDE DEF all, sound
  <2>3. /\ Cardinality(sound) \in Nat /\ Cardinality(K) \in Nat /\ Cardinality(all) \in Nat
        /\ Cardinality(sound) <= Cardinality(K) /\ Cardinality(K) <= Cardinality(all)
    BY <2>1, <2>2, FS_Subset, FS_CardinalityType
  <2>4. ASSUME NEW o \in Rows(db, r, l)
        PROVE  /\ o.sightings \in Cardinality(sound)..Cardinality(all)
               /\ \E f \in all : f.at = o.at /\ f.catalog = o.catalog
               /\ \A f \in sound : o.at <= f.at
    <3>1. PICK x \in Rows(db, r, l) :
            /\ Rows(db, r, l) = {x} /\ x.sightings = Cardinality(K)
            /\ \A f \in K : x.at <= f.at
            /\ \E f \in K : f.at = x.at /\ f.catalog = x.catalog
      BY <2>1, <2>4 DEF SumsUp
    <3>2. o = x
      BY <2>4, <3>1
    <3> QED
      BY <2>1, <2>3, <3>1, <3>2
  <2>5. sound # {} => Rows(db, r, l) # {}
    BY <2>1 DEF SumsUp
  <2> QED
    BY <2>4, <2>5 DEF all, sound
<1>2. \A r, l : Rows(db, r, l) = {o \in Of(db, l) : o.run = r}
  BY DEF Rows, Of
<1>3. ASSUME CollectIInv
      PROVE  ObservationsSummarise
  <2>1. ASSUME NEW r \in Runs, NEW l \in Listings
        PROVE  LET all == Appearances(db, r, l)
                   sound == ReadWhole(db, r, l)
                   rows == {o \in Of(db, l) : o.run = r}
               IN /\ sound # {} => rows # {}
                  /\ \A o \in rows : /\ o.sightings \in Cardinality(sound)..Cardinality(all)
                                     /\ \E f \in all : f.at = o.at /\ f.catalog = o.catalog
                                     /\ \A f \in sound : o.at <= f.at
    BY <1>1, <1>2, <1>3
  <2> QED
    BY <2>1, Zenon DEF ObservationsSummarise, Appearances, ReadWhole
<1> QED
  BY <1>3, CollectorInvariant, PTL

\* state_refresh_probe_targets and _needs_probe choose the same listings, and the overview's CASE
\* expressions and evaluate_listing_state reach the same verdict, on every store that a collector
\* leaves: however many runs, pages and probes made it, and wherever they broke off.
THEOREM QueriesAlwaysAgree == CollectSpec => []QueriesAgree
<1>1. CollectIInv => QueriesAgree
  BY StoreReadAlike, LaddersHold DEF CollectIInv, CollectorTyped, QueriesAgree
<1> QED
  BY <1>1, CollectorInvariant, PTL

-----------------------------------------------------------------------------
(* The backfill.                                                           *)

\* A job has its fields, whatever they hold.
IsJob(j) == \E S, M, D, B : j \in [stage : S, memo : M, dataset : D, batches : B, put : 0..4]

\* The objects a job has put of the batch in hand.
PutSound ==
  /\ IsJob(job)
  /\ HasMore => \A i \in 1..3 : i <= job.put => Objects(InHand)[i] \in vault

-----------------------------------------------------------------------------
\* What the store takes is never put over something else.
LEMMA TakenIsKept ==
  ASSUME NEW objects, NEW o, Takes(objects, o)
  PROVE  objects \subseteq Put(objects, o) /\ o \in Put(objects, o)
BY DEF Takes, Put

\* Whatever the backfill does, no object leaves the lake or is replaced.
LEMMA LakeGrows ==
  ASSUME [BackfillNext]_backfillVars
  PROVE  vault \subseteq vault'
<1>1. CASE PutNext
  BY <1>1, TakenIsKept DEF PutNext
<1>2. CASE StartAfresh \/ Resume \/ FillPostgres \/ Publish \/ Checkpoint \/ NextDataset \/ Stop \/ Grow
           \/ UNCHANGED backfillVars
  BY <1>2 DEF StartAfresh, Resume, FillPostgres, Publish, Checkpoint, NextDataset, Stop, Grow,
              backfillVars
<1> QED
  BY <1>1, <1>2 DEF BackfillNext

\* No object of the lake is replaced by other bytes or removed (put_bytes of object_store.py without
\* overwrite, under the identities of events.py).
THEOREM LakeNeverChanges == BackfillSpec => LakeImmutable
<1>1. [BackfillNext]_backfillVars => [vault \subseteq vault']_vault
  BY LakeGrows
<1> QED
  BY <1>1, PTL DEF BackfillSpec, LakeImmutable

-----------------------------------------------------------------------------
\* A job that holds no batch, or has put nothing of it, is sound.
LEMMA EmptyHanded ==
  ASSUME IsJob(job'), job'.put = 0
  PROVE  PutSound'
BY DEF PutSound

\* A job that changes in its fields remains one.
LEMMA JobsChange ==
  ASSUME NEW j, IsJob(j), NEW memo
  PROVE  /\ IsJob([j EXCEPT !.memo = memo])
         /\ [j EXCEPT !.memo = memo].put = j.put
         /\ IsJob([j EXCEPT !.put = 0, !.memo = memo])
         /\ [j EXCEPT !.put = 0, !.memo = memo].put = 0
<1>1. PICK S, M, D, B : j \in [stage : S, memo : M, dataset : D, batches : B, put : 0..4]
  BY DEF IsJob
<1>2. /\ [j EXCEPT !.memo = memo]
           \in [stage : S, memo : M \cup {memo}, dataset : D, batches : B, put : 0..4]
      /\ [j EXCEPT !.memo = memo].put = j.put
  BY <1>1
<1>3. [j EXCEPT !.put = 0] \in [stage : S, memo : M, dataset : D, batches : B, put : {0}]
  BY <1>1
<1>4. [j EXCEPT !.put = 0, !.memo = memo]
        \in [stage : S, memo : M \cup {memo}, dataset : D, batches : B, put : {0}]
  BY <1>3
<1>5. [stage : S, memo : M \cup {memo}, dataset : D, batches : B, put : {0}]
        \subseteq [stage : S, memo : M \cup {memo}, dataset : D, batches : B, put : 0..4]
  OBVIOUS
<1>6. IsJob([j EXCEPT !.memo = memo])
  BY <1>2, Zenon DEF IsJob
<1>7. IsJob([j EXCEPT !.put = 0, !.memo = memo])
  BY <1>4, <1>5 DEF IsJob
<1>8. [j EXCEPT !.put = 0, !.memo = memo].put = 0
  BY <1>4
<1> QED
  BY <1>2, <1>6, <1>7, <1>8

\* The jobs the backfill makes are jobs, and have put nothing of their batch yet.
LEMMA JobsMade ==
  /\ IsJob(NoJob) /\ NoJob.put = 0
  /\ \A memo : /\ IsJob([NoJob EXCEPT !.stage = "postgres", !.memo = memo])
               /\ [NoJob EXCEPT !.stage = "postgres", !.memo = memo].put = 0
  /\ \A j, dataset : IsJob(j) => IsJob(Opened(j, dataset)) /\ Opened(j, dataset).put = 0
<1>1. /\ NoJob \in [stage : {"none"}, memo : {NoFile}, dataset : {1}, batches : {<<>>}, put : 0..4]
      /\ NoJob.put = 0
  BY DEF NoJob
<1>2. ASSUME NEW memo
      PROVE  /\ IsJob([NoJob EXCEPT !.stage = "postgres", !.memo = memo])
             /\ [NoJob EXCEPT !.stage = "postgres", !.memo = memo].put = 0
  <2>1. [NoJob EXCEPT !.stage = "postgres", !.memo = memo]
          \in [stage : {"postgres"}, memo : {memo}, dataset : {1}, batches : {<<>>}, put : 0..4]
    BY <1>1
  <2>2. [NoJob EXCEPT !.stage = "postgres", !.memo = memo].put = 0
    BY <1>1
  <2> QED
    BY <2>1, <2>2 DEF IsJob
<1>3. ASSUME NEW j, NEW dataset, IsJob(j)
      PROVE  IsJob(Opened(j, dataset)) /\ Opened(j, dataset).put = 0
  <2>1. PICK S, M, D, B : j \in [stage : S, memo : M, dataset : D, batches : B, put : 0..4]
    BY <1>3 DEF IsJob
  <2> DEFINE next == BatchesOf(source, Datasets[dataset], j.memo.moment)
  <2>2. Opened(j, dataset) = [j EXCEPT !.stage = "batch", !.dataset = dataset, !.put = 0,
                                       !.batches = next]
    BY DEF Opened
  <2> HIDE DEF next
  <2> DEFINE a == [j EXCEPT !.stage = "batch"]
             b == [a EXCEPT !.dataset = dataset]
             c == [b EXCEPT !.put = 0]
  <2>3. a \in [stage : {"batch"}, memo : M, dataset : D, batches : B, put : 0..4]
    BY <2>1
  <2>4. b \in [stage : {"batch"}, memo : M, dataset : {dataset}, batches : B, put : 0..4]
    <3> HIDE DEF a
    <3> QED
      BY <2>3
  <2>5. c \in [stage : {"batch"}, memo : M, dataset : {dataset}, batches : B, put : {0}]
    <3> HIDE DEF b
    <3> QED
      BY <2>4
  <2>6. Opened(j, dataset)
          \in [stage : {"batch"}, memo : M, dataset : {dataset}, batches : {next}, put : {0}]
    <3>1. Opened(j, dataset) = [c EXCEPT !.batches = next]
      BY <2>2
    <3> HIDE DEF c
    <3> QED
      BY <2>5, <3>1
  <2>7. Opened(j, dataset)
          \in [stage : {"batch"}, memo : M, dataset : {dataset}, batches : {next}, put : 0..4]
    BY <2>6
  <2>8. Opened(j, dataset).put = 0
    BY <2>6
  <2> QED
    BY <2>7, <2>8 DEF IsJob
<1> QED
  BY <1>1, <1>2, <1>3 DEF IsJob
\* What a job counts as put of the batch in hand stays in the lake, step by step.
LEMMA PutSoundStep ==
  ASSUME PutSound, [BackfillNext]_backfillVars
  PROVE  PutSound'
<1>1. IsJob(job) /\ job.put \in 0..4
  BY DEF PutSound, IsJob
<1>2. CASE StartAfresh \/ Resume
  BY <1>2, JobsMade, EmptyHanded DEF StartAfresh, Resume, Begin
<1>3. CASE FillPostgres
  <2> DEFINE memo == [job.memo EXCEPT !.postgres = TRUE]
             filled == [job EXCEPT !.memo = memo]
  <2>1. job' = Opened(filled, 1)
    BY <1>3 DEF FillPostgres
  <2>2. IsJob(filled)
    BY <1>1, JobsChange
  <2> QED
    BY <2>1, <2>2, JobsMade, EmptyHanded
<1>4. CASE PutNext
  <2>1. CASE job' = NoJob
    BY <2>1, JobsMade, EmptyHanded
  <2>2. CASE /\ vault' = Put(vault, Objects(InHand)[job.put + 1])
             /\ Takes(vault, Objects(InHand)[job.put + 1])
             /\ job' = [job EXCEPT !.put = @ + 1]
    <3>1. HasMore /\ job.put < 3
      BY <1>4 DEF PutNext
    <3>2. /\ IsJob(job') /\ job'.put = job.put + 1 /\ job'.memo = job.memo
          /\ job'.batches = job.batches /\ job'.dataset = job.dataset
      <4>1. PICK S, M, D, B : job \in [stage : S, memo : M, dataset : D, batches : B, put : 0..4]
        BY <1>1 DEF IsJob
      <4>2. job' \in [stage : S, memo : M, dataset : D, batches : B, put : 0..4]
        BY <2>2, <3>1, <4>1
      <4>3. /\ job'.put = job.put + 1 /\ job'.memo = job.memo
            /\ job'.batches = job.batches /\ job'.dataset = job.dataset
        BY <2>2, <4>1
      <4> QED
        BY <4>2, <4>3 DEF IsJob
    <3>3. InHand' = InHand
      BY <3>2 DEF InHand, Behind
    <3>4. vault \subseteq vault' /\ Objects(InHand)[job.put + 1] \in vault'
      BY <2>2, TakenIsKept
    <3>5. \A i \in 1..3 : i <= job'.put => Objects(InHand')[i] \in vault'
      <4> SUFFICES ASSUME NEW i \in 1..3, i <= job.put + 1 PROVE Objects(InHand)[i] \in vault'
        BY <3>2, <3>3
      <4>1. i <= job.put \/ i = job.put + 1
        BY <1>1
      <4> QED
        BY <3>1, <3>4, <4>1 DEF PutSound
    <3> QED
      BY <3>2, <3>5 DEF PutSound
  <2> QED
    BY <1>4, <2>1, <2>2 DEF PutNext
<1>5. CASE Publish
  <2>1. HasMore /\ job.put = 3 /\ job' = [job EXCEPT !.put = 4] /\ UNCHANGED vault
    BY <1>5 DEF Publish, Written
  <2>2. PICK S, M, D, B : job \in [stage : S, memo : M, dataset : D, batches : B, put : 0..4]
    BY <1>1 DEF IsJob
  <2>3. job' \in [stage : S, memo : M, dataset : D, batches : B, put : 0..4]
    BY <2>1, <2>2
  <2>4. job'.memo = job.memo /\ job'.batches = job.batches /\ job'.dataset = job.dataset
    BY <2>1, <2>2
  <2>5. InHand' = InHand
    BY <2>4 DEF InHand, Behind
  <2>6. \A i \in 1..3 : Objects(InHand)[i] \in vault
    BY <2>1 DEF PutSound
  <2> QED
    BY <2>1, <2>3, <2>5, <2>6 DEF PutSound, IsJob
<1>6. CASE Checkpoint
  <2> DEFINE memo == [job.memo EXCEPT !.done[job.dataset] = @ + 1]
  <2>1. job' = [job EXCEPT !.put = 0, !.memo = memo]
    BY <1>6 DEF Checkpoint
  <2> HIDE DEF memo
  <2> QED
    BY <1>1, <2>1, JobsChange, EmptyHanded
<1>7. CASE NextDataset
  <2>1. job' = Opened(job, job.dataset + 1) \/ job' = NoJob
    BY <1>7 DEF NextDataset
  <2>2. IsJob(Opened(job, job.dataset + 1)) /\ Opened(job, job.dataset + 1).put = 0
    BY <1>1, JobsMade
  <2> QED
    BY <2>1, <2>2, JobsMade, EmptyHanded
<1>8. CASE Stop
  BY <1>8, JobsMade, EmptyHanded DEF Stop
<1>9. CASE Grow \/ UNCHANGED backfillVars
  BY <1>9 DEF Grow, backfillVars, PutSound, HasMore, InHand, Behind
<1> QED
  BY <1>2, <1>3, <1>4, <1>5, <1>6, <1>7, <1>8, <1>9 DEF BackfillNext

\* A batch in the outbox stays readable, step by step.
LEMMA OwedStep ==
  ASSUME PutSound, OwedReadable, [BackfillNext]_backfillVars
  PROVE  OwedReadable'
<1>1. vault \subseteq vault'
  BY LakeGrows
<1>2. CASE Publish
  <2>1. /\ owed' = owed \cup {InHand} /\ HasMore /\ job.put = 3
    BY <1>2 DEF Publish, Written
  <2>2. Readable(vault, InHand)
    BY <2>1 DEF PutSound, Readable
  <2> QED
    BY <1>1, <2>1, <2>2 DEF OwedReadable, Readable
<1>3. CASE UNCHANGED owed
  BY <1>1, <1>3 DEF OwedReadable, Readable
<1> QED
  BY <1>2, <1>3 DEF BackfillNext, StartAfresh, Resume, FillPostgres, PutNext, Checkpoint, NextDataset,
                    Stop, Grow, backfillVars

\* What the outbox owes to ClickHouse can be read back from the lake: every batch published has its
\* event, its rows and its manifest there, whatever was put since (full_backfill.py: _deliver_batch).
THEOREM OwedStaysReadable == BackfillSpec => []OwedReadable
<1>1. BackfillInit => PutSound /\ OwedReadable
  <2> SUFFICES ASSUME BackfillInit PROVE PutSound /\ OwedReadable
    OBVIOUS
  <2>1. job = NoJob /\ owed = {}
    BY DEF BackfillInit
  <2> QED
    <3>1. IsJob(job) /\ job.put = 0
      BY <2>1, JobsMade
    <3>2. PutSound
      BY <3>1 DEF PutSound
    <3>3. OwedReadable
      BY <2>1 DEF OwedReadable
    <3> QED
      BY <3>2, <3>3
<1> QED
  BY <1>1, PutSoundStep, OwedStep, PTL DEF BackfillSpec

-----------------------------------------------------------------------------
(* The order of a cursor.                                                  *)

\* The keys of n columns are ordered, strictly and totally.
LEMMA KeysOrdered ==
  ASSUME NEW n \in Nat, NEW a \in [1..n -> Nat], NEW b \in [1..n -> Nat]
  PROVE  /\ ~Precedes(a, a)
         /\ a = b \/ Precedes(a, b) \/ Precedes(b, a)
         /\ ~(Precedes(a, b) /\ Precedes(b, a))
         /\ \A c \in [1..n -> Nat] : Precedes(a, b) /\ Precedes(b, c) => Precedes(a, c)
<1>1. ~Precedes(a, a)
  BY DEF Precedes
<1>2. ASSUME a # b
      PROVE  Precedes(a, b) \/ Precedes(b, a)
  <2> DEFINE D == {i \in 1..n : a[i] # b[i]}
  <2>1. D \subseteq Nat /\ D # {}
    BY <1>2
  <2>2. PICK k \in D : \A i \in D : k <= i
    BY <2>1, LeastOfNats
  <2>3. k \in 1..n /\ a[k] # b[k]
    OBVIOUS
  <2>4. \A j \in 1..(k - 1) : a[j] = b[j]
    <3> SUFFICES ASSUME NEW j \in 1..(k - 1), a[j] # b[j] PROVE FALSE
      OBVIOUS
    <3>1. j \in D
      BY <2>3
    <3> QED
      BY <2>2, <2>3, <3>1
  <2>5. a[k] \in Nat /\ b[k] \in Nat
    BY <2>3
  <2>6. a[k] < b[k] \/ b[k] < a[k]
    BY <2>3, <2>5
  <2> QED
    BY <2>3, <2>4, <2>6 DEF Precedes
<1>3. ASSUME Precedes(a, b)
      PROVE  ~Precedes(b, a) /\ \A c \in [1..n -> Nat] : Precedes(b, c) => Precedes(a, c)
  <2>1. PICK i \in 1..n : a[i] < b[i] /\ \A j \in 1..(i - 1) : a[j] = b[j]
    BY <1>3 DEF Precedes
  <2>2. ASSUME NEW c \in [1..n -> Nat], Precedes(b, c)
        PROVE  Precedes(a, c) /\ c # a
    <3>1. PICK k \in 1..n : b[k] < c[k] /\ \A j \in 1..(k - 1) : b[j] = c[j]
      BY <2>2 DEF Precedes
    <3>2. CASE i < k
      <4>1. a[i] < c[i] /\ \A j \in 1..(i - 1) : a[j] = c[j]
        BY <2>1, <3>1, <3>2
      <4> QED
        BY <4>1 DEF Precedes
    <3>3. CASE k <= i
      <4>1. a[k] < c[k] /\ \A j \in 1..(k - 1) : a[j] = c[j]
        BY <2>1, <3>1, <3>3
      <4> QED
        BY <4>1 DEF Precedes
    <3> QED
      BY <1>1, <3>2, <3>3
  <2> QED
    BY <2>2
<1> QED
  BY <1>1, <1>2, <1>3

\* Rows of one query: finitely many, no two with the same key.
Lined(S) ==
  /\ IsFiniteSet(S)
  /\ \E n \in Nat : \A x \in S : x.order \in [1..n -> Nat]
  /\ \A x \in S, y \in S : x.order = y.order => x = y

\* They are ordered, strictly and totally.
LEMMA RowsOrdered ==
  ASSUME NEW S, Lined(S), NEW x \in S, NEW y \in S
  PROVE  /\ ~Precedes(x.order, x.order)
         /\ x = y \/ Precedes(x.order, y.order) \/ Precedes(y.order, x.order)
         /\ ~(Precedes(x.order, y.order) /\ Precedes(y.order, x.order))
         /\ \A z \in S : Precedes(x.order, y.order) /\ Precedes(y.order, z.order)
                           => Precedes(x.order, z.order)
<1>1. PICK n \in Nat : \A u \in S : u.order \in [1..n -> Nat]
  BY DEF Lined
<1> QED
  BY <1>1, KeysOrdered DEF Lined

\* Some rows of a query are finitely many too, and no two have the same key.
LEMMA SomeLined ==
  ASSUME NEW S, Lined(S), NEW T, T \subseteq S
  PROVE  Lined(T)
BY FS_Subset DEF Lined

\* The rows before a row are fewer than those before a later one.
LEMMA LaterIsMore ==
  ASSUME NEW S, Lined(S), NEW x \in S
  PROVE  /\ Earlier(S, x) \subseteq S /\ Lined(Earlier(S, x)) /\ IsFiniteSet(Earlier(S, x))
         /\ Cardinality(Earlier(S, x)) \in Nat
         /\ \A y \in S : Precedes(x.order, y.order)
              => Cardinality(Earlier(S, x)) < Cardinality(Earlier(S, y))
<1>1. \A y \in S : /\ Earlier(S, y) \subseteq S /\ Lined(Earlier(S, y)) /\ IsFiniteSet(Earlier(S, y))
                   /\ Cardinality(Earlier(S, y)) \in Nat
  <2> SUFFICES ASSUME NEW y \in S
               PROVE  /\ Earlier(S, y) \subseteq S /\ Lined(Earlier(S, y))
                      /\ IsFiniteSet(Earlier(S, y)) /\ Cardinality(Earlier(S, y)) \in Nat
    OBVIOUS
  <2>1. Earlier(S, y) \subseteq S
    BY DEF Earlier
  <2>2. Lined(Earlier(S, y))
    BY <2>1, SomeLined
  <2>3. IsFiniteSet(Earlier(S, y))
    BY <2>2 DEF Lined
  <2> QED
    BY <2>1, <2>2, <2>3, FS_CardinalityType
<1>2. ASSUME NEW y \in S, Precedes(x.order, y.order)
      PROVE  Cardinality(Earlier(S, x)) < Cardinality(Earlier(S, y))
  <2>1. Earlier(S, x) \subseteq Earlier(S, y)
    BY <1>2, RowsOrdered DEF Earlier
  <2>2. x \in Earlier(S, y) /\ x \notin Earlier(S, x)
    BY <1>2, RowsOrdered DEF Earlier
  <2>3. /\ Cardinality(Earlier(S, x)) <= Cardinality(Earlier(S, y))
        /\ Cardinality(Earlier(S, y)) # Cardinality(Earlier(S, x))
    BY <1>1, <2>1, <2>2, FS_Subset
  <2> QED
    BY <1>1, <2>3
<1> QED
  BY <1>1, <1>2

\* Rows have a last one, before which all the others are.
LEMMA LastRow ==
  ASSUME NEW S, Lined(S), S # {}
  PROVE  \E z \in S : Earlier(S, z) = S \ {z}
<1> DEFINE N == {Cardinality(Earlier(S, x)) : x \in S}
<1>1. N \subseteq Nat /\ N # {}
  BY LaterIsMore
<1>2. IsFiniteSet(N)
  <2> DEFINE f == [x \in S |-> Cardinality(Earlier(S, x))]
  <2>1. f = [x \in S |-> f[x]] /\ N = {f[x] : x \in S}
    OBVIOUS
  <2>2. IsFiniteSet(S)
    BY DEF Lined
  <2> HIDE DEF f, N
  <2> QED
    BY <2>1, <2>2, FiniteValues
<1>3. Max(N) \in N /\ \A k \in N : k <= Max(N)
  BY <1>1, <1>2, GreatestOfNats
<1>4. PICK z \in S : Max(N) = Cardinality(Earlier(S, z))
  BY <1>3
<1>5. ASSUME NEW y \in S, y # z
      PROVE  Precedes(y.order, z.order)
  <2>1. Cardinality(Earlier(S, y)) <= Cardinality(Earlier(S, z))
    BY <1>3, <1>4
  <2>2. Cardinality(Earlier(S, y)) \in Nat /\ Cardinality(Earlier(S, z)) \in Nat
    BY LaterIsMore
  <2>3. ~Precedes(z.order, y.order)
    <3> SUFFICES ASSUME Precedes(z.order, y.order) PROVE FALSE
      OBVIOUS
    <3>1. Cardinality(Earlier(S, z)) < Cardinality(Earlier(S, y))
      BY LaterIsMore
    <3> QED
      BY <2>1, <2>2, <3>1
  <2> QED
    BY <1>5, <2>3, RowsOrdered
<1>6. ~Precedes(z.order, z.order)
  BY RowsOrdered
<1> QED
  BY <1>5, <1>6 DEF Earlier

\* There is a row at every place.
LEMMA RowAtPlace ==
  ASSUME NEW S, Lined(S), NEW n \in Nat, n < Cardinality(S)
  PROVE  \E z \in S : Cardinality(Earlier(S, z)) = n
<1> DEFINE T == {z \in S : n <= Cardinality(Earlier(S, z))}
           N == {Cardinality(Earlier(S, z)) : z \in T}
<1>1. IsFiniteSet(S) /\ Cardinality(S) \in Nat
  BY FS_CardinalityType DEF Lined
<1>2. N # {}
  <2>1. S # {}
    BY FS_EmptySet
  <2>2. PICK z \in S : Earlier(S, z) = S \ {z}
    BY <2>1, LastRow
  <2>3. Cardinality(Earlier(S, z)) = Cardinality(S) - 1
    BY <1>1, <2>2, FS_RemoveElement
  <2>4. n <= Cardinality(Earlier(S, z))
    BY <1>1, <2>3
  <2> QED
    BY <2>4
<1>3. N \subseteq Nat
  BY LaterIsMore
<1>4. Min(N) \in N /\ \A k \in N : Min(N) <= k
  BY <1>2, <1>3, LeastOfNats
<1>5. PICK z \in T : Min(N) = Cardinality(Earlier(S, z))
  BY <1>4
<1> DEFINE F == Earlier(S, z)
<1>6. F \subseteq S /\ Lined(F) /\ IsFiniteSet(F) /\ Cardinality(F) \in Nat /\ n <= Cardinality(F)
  BY <1>5, LaterIsMore
<1>7. ASSUME n < Cardinality(F)
      PROVE  FALSE
  <2>1. F # {}
    BY <1>6, <1>7, FS_EmptySet
  <2>2. PICK w \in F : Earlier(F, w) = F \ {w}
    BY <1>6, <2>1, LastRow
  <2>3. w \in S /\ Precedes(w.order, z.order)
    BY <2>2 DEF Earlier
  <2>4. Earlier(S, w) = Earlier(F, w)
    BY <1>5, <2>3, RowsOrdered DEF Earlier
  <2>5. Cardinality(Earlier(S, w)) = Cardinality(F) - 1
    <3> HIDE DEF F
    <3> QED
      BY <1>6, <2>2, <2>4, FS_RemoveElement
  <2>6. w \in T
    BY <1>6, <1>7, <2>3, <2>5
  <2>7. Cardinality(F) <= Cardinality(Earlier(S, w))
    BY <1>4, <1>5, <2>6
  <2> QED
    BY <1>6, <2>5, <2>7
<1> QED
  BY <1>5, <1>6, <1>7

\* The chunks of some rows are finitely many.
LEMMA FiniteChunks ==
  ASSUME NEW R, NEW S, IsFiniteSet(S)
  PROVE  IsFiniteSet({Chunk(R, x) : x \in S})
<1> DEFINE f == [x \in S |-> Chunk(R, x)]
           C == {Chunk(R, x) : x \in S}
<1>1. f = [x \in S |-> f[x]] /\ C = {f[x] : x \in S}
  OBVIOUS
<1> HIDE DEF f, C
<1>2. IsFiniteSet(C)
  BY <1>1, FiniteValues
<1> QED
  BY <1>2 DEF C

\* Every row is in one of the batches.
LEMMA RowNumbered ==
  ASSUME NEW R, Lined(R), NEW x \in R
  PROVE  /\ Cardinality({Chunk(R, y) : y \in R}) \in Nat
         /\ Number(R, x) \in 1..Cardinality({Chunk(R, y) : y \in R})
<1> DEFINE all == {Chunk(R, y) : y \in R}
           begun == {Chunk(R, y) : y \in Earlier(R, x) \cup {x}}
<1>1. IsFiniteSet(all)
  BY FiniteChunks DEF Lined
<1>2. begun \subseteq all /\ begun # {}
  BY LaterIsMore
<1> HIDE DEF all, begun
<1>3. /\ Cardinality(all) \in Nat /\ Cardinality(begun) \in Nat
      /\ Cardinality(begun) <= Cardinality(all) /\ Cardinality(begun) # 0
  BY <1>1, <1>2, FS_Subset, FS_CardinalityType, FS_EmptySet
<1>4. Cardinality(begun) \in 1..Cardinality(all)
  BY <1>3
<1> QED
  BY <1>3, <1>4 DEF all, begun, Number

\* Rows of a query, and those it gives later: each of the former has become one of its group, with
\* its key or an earlier one, and no two the same.
SlideIn(R, S) ==
  \E f \in [R -> S] :
    /\ \A x \in R : /\ f[x].group = x.group
                    /\ f[x].order = x.order \/ Precedes(f[x].order, x.order)
    /\ \A x, z \in R : f[x] = f[z] => x = z

\* How many rows of a group come before a row.
Place(R, x, g) == Cardinality({w \in Earlier(R, x) : w.group = g})

\* Keys of one length are ordered across two queries.
LEMMA AcrossOrdered ==
  ASSUME NEW R, NEW S, Lined(R), Lined(S), NEW x \in R, NEW y \in S, y.order = x.order
  PROVE  \E n \in Nat : \A w \in R \cup S : w.order \in [1..n -> Nat]
<1>1. PICK n \in Nat : \A w \in R : w.order \in [1..n -> Nat]
  BY DEF Lined
<1>2. PICK m \in Nat : \A w \in S : w.order \in [1..m -> Nat]
  BY DEF Lined
<1>3. DOMAIN x.order = 1..n /\ DOMAIN y.order = 1..m
  BY <1>1, <1>2
<1>4. 1..n = 1..m
  BY <1>3
<1>5. \A w \in S : w.order \in [1..n -> Nat]
  BY <1>2, <1>4
<1> QED
  BY <1>1, <1>5

\* In the place a row had in its group there is a row of the group later on, no later than it.
LEMMA PlaceTaken ==
  ASSUME NEW R, NEW S, Lined(R), Lined(S), SlideIn(R, S), NEW n \in Nat,
         \A w \in R \cup S : w.order \in [1..n -> Nat], NEW u \in R
  PROVE  \E z \in S : /\ z.group = u.group /\ Place(S, z, u.group) = Place(R, u, u.group)
                      /\ z.order = u.order \/ Precedes(z.order, u.order)
<1> DEFINE g == u.group
           P == {w \in Earlier(R, u) : w.group = g}
           A == P \cup {u}
           G == {w \in S : w.group = g /\ (w.order = u.order \/ Precedes(w.order, u.order))}
<1>1. PICK f \in [R -> S] :
        /\ \A x \in R : /\ f[x].group = x.group
                        /\ f[x].order = x.order \/ Precedes(f[x].order, x.order)
        /\ \A x, z \in R : f[x] = f[z] => x = z
  BY DEF SlideIn
<1>2. IsFiniteSet(P) /\ u \notin P /\ A \subseteq R
  <2>1. IsFiniteSet(P)
    BY LaterIsMore, FS_Subset
  <2>2. u \notin P /\ A \subseteq R
    BY RowsOrdered DEF Earlier
  <2> QED
    BY <2>1, <2>2
<1>3. /\ Cardinality(P) \in Nat /\ IsFiniteSet(A) /\ Cardinality(A) = Cardinality(P) + 1
  <2> HIDE DEF P
  <2> QED
    BY <1>2, FS_AddElement, FS_CardinalityType
<1>4. G \subseteq S /\ Lined(G) /\ IsFiniteSet(G)
  BY SomeLined DEF Lined
<1>5. \A x \in A : f[x] \in G
  <2> SUFFICES ASSUME NEW x \in A PROVE f[x] \in G
    OBVIOUS
  <2>1. /\ x \in R /\ f[x] \in S /\ f[x].group = x.group /\ x.group = g
        /\ f[x].order = x.order \/ Precedes(f[x].order, x.order)
        /\ x.order = u.order \/ Precedes(x.order, u.order)
    BY <1>1, <1>2 DEF Earlier
  <2>2. f[x].order = u.order \/ Precedes(f[x].order, u.order)
    BY <2>1, KeysOrdered
  <2> QED
    BY <2>1, <2>2
<1>6. Cardinality(A) <= Cardinality(G)
  <2> DEFINE h == [x \in A |-> f[x]]
  <2>1. h \in [A -> G]
    BY <1>5
  <2>2. \A x, z \in A : h[x] = h[z] => x = z
    BY <1>1, <1>2
  <2> HIDE DEF h, A, G
  <2>3. h \in Injection(A, G)
    BY <2>1, <2>2 DEF Injection, IsInjective
  <2> QED
    BY <1>4, <2>3, FS_Injection
<1>7. PICK z \in G : Cardinality(Earlier(G, z)) = Cardinality(P)
  <2>1. Cardinality(G) \in Nat
    BY <1>4, FS_CardinalityType
  <2> HIDE DEF G, P, A
  <2>2. Cardinality(P) < Cardinality(G)
    BY <1>3, <1>6, <2>1
  <2> QED
    BY <1>3, <1>4, <2>2, RowAtPlace
<1>8. z \in S /\ z.group = g /\ (z.order = u.order \/ Precedes(z.order, u.order))
  BY <1>7
<1>9. Earlier(G, z) = {w \in Earlier(S, z) : w.group = g}
  <2>1. \A w \in S : Precedes(w.order, z.order) => Precedes(w.order, u.order)
    BY <1>8, KeysOrdered
  <2> QED
    BY <2>1 DEF Earlier
<1> QED
  BY <1>7, <1>8, <1>9 DEF Place

\* A row that has kept its key, among more rows, never comes into an earlier batch.
LEMMA NumbersGrow ==
  ASSUME NEW R, NEW S, Lined(R), Lined(S), SlideIn(R, S), NEW x \in R, NEW y \in S,
         y.order = x.order
  PROVE  Number(R, x) <= Number(S, y)
<1> DEFINE begun == {Chunk(R, u) : u \in Earlier(R, x) \cup {x}}
           later == {Chunk(S, v) : v \in Earlier(S, y) \cup {y}}
<1>1. PICK n \in Nat : \A w \in R \cup S : w.order \in [1..n -> Nat]
  BY AcrossOrdered
<1>2. ASSUME NEW u \in Earlier(R, x) \cup {x}
      PROVE  Chunk(R, u) \in later
  <2>1. u \in R /\ (u.order = x.order \/ Precedes(u.order, x.order))
    BY DEF Earlier
  <2>2. PICK z \in S : /\ z.group = u.group /\ Place(S, z, u.group) = Place(R, u, u.group)
                       /\ z.order = u.order \/ Precedes(z.order, u.order)
    BY <1>1, <2>1, PlaceTaken
  <2>3. z.order = y.order \/ Precedes(z.order, y.order)
    BY <1>1, <2>1, <2>2, KeysOrdered
  <2>4. z \in Earlier(S, y) \cup {y}
    BY <2>3 DEF Earlier, Lined
  <2>5. Chunk(S, z) = Chunk(R, u)
    BY <2>2 DEF Chunk, Place
  <2> QED
    BY <2>4, <2>5
<1>3. begun \subseteq later
  BY <1>2
<1>4. IsFiniteSet(later) /\ IsFiniteSet(begun)
  <2>1. IsFiniteSet(Earlier(S, y) \cup {y}) /\ IsFiniteSet(Earlier(R, x) \cup {x})
    BY LaterIsMore, FS_AddElement
  <2> QED
    BY <2>1, FiniteChunks
<1> HIDE DEF begun, later
<1>5. Cardinality(begun) <= Cardinality(later)
  BY <1>3, <1>4, FS_Subset
<1> QED
  BY <1>5 DEF begun, later, Number

-----------------------------------------------------------------------------
(* The rows of the three datasets.                                         *)

\* The rows of the k-th dataset.
RowsIn(d, k, moment) == RowsOf(d, Datasets[k], moment)

\* Each dataset has its query.
LEMMA RowsOfEach ==
  ASSUME NEW d, NEW moment
  PROVE  /\ RowsIn(d, 1, moment) = DiscoveryRows(d)
         /\ RowsIn(d, 2, moment) = ObservationRows(d)
         /\ RowsIn(d, 3, moment) = ProbeRows(d, moment)
<1>1. /\ Datasets[1] = "discoveries" /\ Datasets[2] = "observations" /\ Datasets[3] = "probes"
  BY DEF Datasets
<1> QED
  BY <1>1 DEF RowsIn, RowsOf

\* What an injection maps into a finite set is finite.
LEMMA FiniteByKey ==
  ASSUME NEW S, NEW T, IsFiniteSet(T), NEW f \in [S -> T], \A x, y \in S : f[x] = f[y] => x = y
  PROVE  IsFiniteSet(S)
<1>1. f \in Injection(S, T)
  BY DEF Injection, IsInjective
<1> QED
  BY <1>1, FS_Injection

\* The columns of a store's rows are numbers, from finite sets.
LEMMA ColumnsFinite ==
  /\ Times \subseteq Nat /\ Runs \subseteq Nat /\ Catalogs \subseteq Nat /\ Listings \subseteq Nat
  /\ 1..PageLimit \subseteq Nat
  /\ IsFiniteSet(Runs \X Listings) /\ IsFiniteSet(Times \X Listings)
  /\ IsFiniteSet((Runs \X Catalogs) \X ((1..PageLimit) \X Listings))
<1>1. /\ IsFiniteSet(Runs) /\ IsFiniteSet(1..PageLimit) /\ Runs \subseteq Nat
      /\ IsFiniteSet(Listings) /\ IsFiniteSet(Catalogs) /\ IsFiniteSet(Times)
  BY EvidenceAssumption, FS_Interval DEF Runs
<1>2. /\ IsFiniteSet(Runs \X Listings) /\ IsFiniteSet(Times \X Listings)
      /\ IsFiniteSet(Runs \X Catalogs) /\ IsFiniteSet((1..PageLimit) \X Listings)
  BY <1>1, FS_Product
<1>3. IsFiniteSet((Runs \X Catalogs) \X ((1..PageLimit) \X Listings))
  <2> DEFINE A == Runs \X Catalogs
             B == (1..PageLimit) \X Listings
  <2>1. IsFiniteSet(A) /\ IsFiniteSet(B)
    BY <1>2
  <2> HIDE DEF A, B
  <2>2. IsFiniteSet(A \X B)
    BY <2>1, FS_Product
  <2> QED
    BY <2>2 DEF A, B
<1>4. 1..PageLimit \subseteq Nat
  BY EvidenceAssumption
<1> QED
  BY <1>1, <1>2, <1>3, <1>4, EvidenceAssumption

\* The row a dataset makes of a row of its table.
OfCard(x, f) == /\ x.order = <<f.run, f.catalog, f.page, f.at, f.listing>>
                /\ x.group = <<f.run, f.catalog, f.page>> /\ x.holds[1] = f
OfSighting(x, o) == x.order = <<o.run, o.at, o.listing>> /\ x.group = <<o.run>> /\ x.holds[1] = o
OfProbe(x, p) == x.order = <<p.at, p.listing>> /\ x.group = <<p.at>> /\ x.holds[1] = p

\* Each row of a table makes one.
LEMMA DiscoveryRead ==
  ASSUME NEW d
  PROVE  /\ \A x \in DiscoveryRows(d) : \E f \in d.found : OfCard(x, f)
         /\ \A f \in d.found : \E x \in DiscoveryRows(d) : OfCard(x, f)
         /\ \A x, y \in DiscoveryRows(d) : x.holds[1] = y.holds[1] => x = y
<1> DEFINE h(f) == [order |-> <<f.run, f.catalog, f.page, f.at, f.listing>>, listing |-> f.listing,
                    group |-> <<f.run, f.catalog, f.page>>, at |-> f.at,
                    holds |-> <<f, Primary(d, f.listing)>>]
<1>1. \A f : OfCard(h(f), f)
  BY DEF OfCard
<1>2. DiscoveryRows(d) = {h(f) : f \in d.found}
  BY DEF DiscoveryRows
<1> HIDE DEF h
<1>3. \A x \in DiscoveryRows(d) : \E f \in d.found : x = h(f)
  BY <1>2
<1>4. \A f \in d.found : h(f) \in DiscoveryRows(d)
  BY <1>2
<1>5. ASSUME NEW x \in DiscoveryRows(d), NEW y \in DiscoveryRows(d), x.holds[1] = y.holds[1]
      PROVE  x = y
  <2>1. PICK f \in d.found : x = h(f)
    BY <1>3
  <2>2. PICK q \in d.found : y = h(q)
    BY <1>3
  <2>3. h(f).holds[1] = f /\ h(q).holds[1] = q
    BY <1>1 DEF OfCard
  <2> QED
    BY <1>5, <2>1, <2>2, <2>3
<1> QED
  BY <1>1, <1>3, <1>4, <1>5

\* The same of an observation.
LEMMA ObservationRead ==
  ASSUME NEW d
  PROVE  /\ \A x \in ObservationRows(d) : \E o \in d.observed : OfSighting(x, o)
         /\ \A o \in d.observed : \E x \in ObservationRows(d) : OfSighting(x, o)
         /\ \A x, y \in ObservationRows(d) : x.holds[1] = y.holds[1] => x = y
<1> DEFINE h(o) == [order |-> <<o.run, o.at, o.listing>>, listing |-> o.listing,
                    group |-> <<o.run>>, at |-> o.at, holds |-> <<o, Primary(d, o.listing)>>]
<1>1. \A o : OfSighting(h(o), o)
  BY DEF OfSighting
<1>2. ObservationRows(d) = {h(o) : o \in d.observed}
  BY DEF ObservationRows
<1> HIDE DEF h
<1>3. \A x \in ObservationRows(d) : \E o \in d.observed : x = h(o)
  BY <1>2
<1>4. \A o \in d.observed : h(o) \in ObservationRows(d)
  BY <1>2
<1>5. ASSUME NEW x \in ObservationRows(d), NEW y \in ObservationRows(d), x.holds[1] = y.holds[1]
      PROVE  x = y
  <2>1. PICK o \in d.observed : x = h(o)
    BY <1>3
  <2>2. PICK q \in d.observed : y = h(q)
    BY <1>3
  <2>3. h(o).holds[1] = o /\ h(q).holds[1] = q
    BY <1>1 DEF OfSighting
  <2> QED
    BY <1>5, <2>1, <2>2, <2>3
<1> QED
  BY <1>1, <1>3, <1>4, <1>5

\* The same of a probe.
LEMMA ProbeRead ==
  ASSUME NEW d, NEW moment
  PROVE  /\ \A x \in ProbeRows(d, moment) : \E p \in d.probes : OfProbe(x, p)
         /\ \A p \in d.probes : \E x \in ProbeRows(d, moment) : OfProbe(x, p)
         /\ \A x, y \in ProbeRows(d, moment) : x.holds[1] = y.holds[1] => x = y
<1> DEFINE h(p) == [order |-> <<p.at, p.listing>>, listing |-> p.listing, group |-> <<p.at>>,
                    at |-> p.at, holds |-> <<p, Primary(d, p.listing), moment>>]
<1>1. \A p : OfProbe(h(p), p)
  BY DEF OfProbe
<1>2. ProbeRows(d, moment) = {h(p) : p \in d.probes}
  BY DEF ProbeRows
<1> HIDE DEF h
<1>3. \A x \in ProbeRows(d, moment) : \E p \in d.probes : x = h(p)
  BY <1>2
<1>4. \A p \in d.probes : h(p) \in ProbeRows(d, moment)
  BY <1>2
<1>5. ASSUME NEW x \in ProbeRows(d, moment), NEW y \in ProbeRows(d, moment), x.holds[1] = y.holds[1]
      PROVE  x = y
  <2>1. PICK p \in d.probes : x = h(p)
    BY <1>3
  <2>2. PICK q \in d.probes : y = h(q)
    BY <1>3
  <2>3. h(p).holds[1] = p /\ h(q).holds[1] = q
    BY <1>1 DEF OfProbe
  <2> QED
    BY <1>5, <2>1, <2>2, <2>3
<1> QED
  BY <1>1, <1>3, <1>4, <1>5

\* Columns make a key.
LEMMA KeysOfColumns ==
  ASSUME NEW a \in Nat, NEW b \in Nat, NEW c \in Nat, NEW d \in Nat, NEW e \in Nat
  PROVE  /\ <<a, b>> \in [1..2 -> Nat] /\ <<a, b, c>> \in [1..3 -> Nat]
         /\ <<a, b, c, d, e>> \in [1..5 -> Nat]
<1>1. <<a, b>> \in [1..2 -> Nat]
  OBVIOUS
<1>2. <<a, b, c>> \in [1..3 -> Nat]
  OBVIOUS
<1>3. <<a, b, c, d, e>> \in [1..5 -> Nat]
  OBVIOUS
<1> QED
  BY <1>1, <1>2, <1>3

\* The pages' cards.
LEMMA DiscoveriesLined ==
  ASSUME NEW d \in Store, Keyed(d)
  PROVE  Lined(DiscoveryRows(d))
<1> DEFINE T == (Runs \X Catalogs) \X ((1..PageLimit) \X Listings)
           g == [f \in d.found |-> <<<<f.run, f.catalog>>, <<f.page, f.listing>>>>]
<1>1. d.found \subseteq [run : Runs, listing : Listings, catalog : Catalogs, page : 1..PageLimit,
                         at : Times]
  BY DEF Store, StoreOf
<1>2. g \in [d.found -> T] /\ \A x, y \in d.found : g[x] = g[y] => x = y
  BY <1>1 DEF Keyed
<1>3. IsFiniteSet(d.found)
  <2> HIDE DEF g, T
  <2>1. IsFiniteSet(T)
    BY ColumnsFinite DEF T
  <2> QED
    BY <1>2, <2>1, FiniteByKey
<1>4. IsFiniteSet(DiscoveryRows(d))
  <2> DEFINE R == DiscoveryRows(d)
             key == [x \in R |-> x.holds[1]]
  <2>1. ASSUME NEW x \in R
        PROVE  x.holds[1] \in d.found
    <3>1. PICK f \in d.found : OfCard(x, f)
      BY DiscoveryRead
    <3> QED
      BY <3>1 DEF OfCard
  <2>2. \A x, y \in R : x.holds[1] = y.holds[1] => x = y
    BY DiscoveryRead
  <2> HIDE DEF R
  <2>3. key \in [R -> d.found] /\ \A x, y \in R : key[x] = key[y] => x = y
    BY <2>1, <2>2
  <2> HIDE DEF key
  <2>4. IsFiniteSet(R)
    BY <1>3, <2>3, FiniteByKey
  <2> QED
    BY <2>4 DEF R
<1>5. \A f \in d.found : <<f.run, f.catalog, f.page, f.at, f.listing>> \in [1..5 -> Nat]
  BY <1>1, ColumnsFinite, KeysOfColumns
<1>6. \A f, q \in d.found : <<f.run, f.catalog, f.page, f.at, f.listing>>
                              = <<q.run, q.catalog, q.page, q.at, q.listing>> => f = q
  BY DEF Keyed
<1>7. ASSUME NEW x \in DiscoveryRows(d)
      PROVE  x.order \in [1..5 -> Nat]
  <2>1. PICK f \in d.found : OfCard(x, f)
    BY DiscoveryRead
  <2> QED
    BY <1>5, <2>1 DEF OfCard
<1>8. ASSUME NEW x \in DiscoveryRows(d), NEW y \in DiscoveryRows(d), x.order = y.order
      PROVE  x = y
  <2>1. PICK f \in d.found : OfCard(x, f)
    BY DiscoveryRead
  <2>2. PICK q \in d.found : OfCard(y, q)
    BY DiscoveryRead
  <2>3. f = q
    BY <1>6, <1>8, <2>1, <2>2 DEF OfCard
  <2>4. x.holds[1] = y.holds[1]
    BY <2>1, <2>2, <2>3 DEF OfCard
  <2> QED
    BY <2>4, DiscoveryRead
<1> QED
  BY <1>4, <1>7, <1>8 DEF Lined

\* The listings of the runs.
LEMMA ObservationsLined ==
  ASSUME NEW d \in Store, Keyed(d)
  PROVE  Lined(ObservationRows(d))
<1> DEFINE g == [o \in d.observed |-> <<o.run, o.listing>>]
<1>1. d.observed \subseteq [run : Runs, listing : Listings, at : Times, catalog : Catalogs,
                            sightings : Nat]
  BY DEF Store, StoreOf
<1>2. g \in [d.observed -> Runs \X Listings] /\ \A x, y \in d.observed : g[x] = g[y] => x = y
  BY <1>1 DEF Keyed
<1>3. IsFiniteSet(d.observed)
  <2> HIDE DEF g
  <2> QED
    BY <1>2, ColumnsFinite, FiniteByKey
<1>4. IsFiniteSet(ObservationRows(d))
  <2> DEFINE R == ObservationRows(d)
             key == [x \in R |-> x.holds[1]]
  <2>1. ASSUME NEW x \in R
        PROVE  x.holds[1] \in d.observed
    <3>1. PICK o \in d.observed : OfSighting(x, o)
      BY ObservationRead
    <3> QED
      BY <3>1 DEF OfSighting
  <2>2. \A x, y \in R : x.holds[1] = y.holds[1] => x = y
    BY ObservationRead
  <2> HIDE DEF R
  <2>3. key \in [R -> d.observed] /\ \A x, y \in R : key[x] = key[y] => x = y
    BY <2>1, <2>2
  <2> HIDE DEF key
  <2>4. IsFiniteSet(R)
    BY <1>3, <2>3, FiniteByKey
  <2> QED
    BY <2>4 DEF R
<1>5. \A o \in d.observed : <<o.run, o.at, o.listing>> \in [1..3 -> Nat]
  BY <1>1, ColumnsFinite, KeysOfColumns
<1>6. \A o, q \in d.observed : <<o.run, o.at, o.listing>> = <<q.run, q.at, q.listing>> => o = q
  BY DEF Keyed
<1>7. ASSUME NEW x \in ObservationRows(d)
      PROVE  x.order \in [1..3 -> Nat]
  <2>1. PICK o \in d.observed : OfSighting(x, o)
    BY ObservationRead
  <2> QED
    BY <1>5, <2>1 DEF OfSighting
<1>8. ASSUME NEW x \in ObservationRows(d), NEW y \in ObservationRows(d), x.order = y.order
      PROVE  x = y
  <2>1. PICK o \in d.observed : OfSighting(x, o)
    BY ObservationRead
  <2>2. PICK q \in d.observed : OfSighting(y, q)
    BY ObservationRead
  <2>3. o = q
    BY <1>6, <1>8, <2>1, <2>2 DEF OfSighting
  <2>4. x.holds[1] = y.holds[1]
    BY <2>1, <2>2, <2>3 DEF OfSighting
  <2> QED
    BY <2>4, ObservationRead
<1> QED
  BY <1>4, <1>7, <1>8 DEF Lined

\* The probes.
LEMMA ProbesLined ==
  ASSUME NEW d \in Store, Keyed(d), NEW moment
  PROVE  Lined(ProbeRows(d, moment))
<1> DEFINE g == [p \in d.probes |-> <<p.at, p.listing>>]
<1>1. d.probes \subseteq [listing : Listings, at : Times, outcome : Outcomes \ {"none"}]
  BY DEF Store, StoreOf
<1>2. g \in [d.probes -> Times \X Listings] /\ \A x, y \in d.probes : g[x] = g[y] => x = y
  BY <1>1 DEF Keyed
<1>3. IsFiniteSet(d.probes)
  <2> HIDE DEF g
  <2> QED
    BY <1>2, ColumnsFinite, FiniteByKey
<1>4. IsFiniteSet(ProbeRows(d, moment))
  <2> DEFINE R == ProbeRows(d, moment)
             key == [x \in R |-> x.holds[1]]
  <2>1. ASSUME NEW x \in R
        PROVE  x.holds[1] \in d.probes
    <3>1. PICK p \in d.probes : OfProbe(x, p)
      BY ProbeRead
    <3> QED
      BY <3>1 DEF OfProbe
  <2>2. \A x, y \in R : x.holds[1] = y.holds[1] => x = y
    BY ProbeRead
  <2> HIDE DEF R
  <2>3. key \in [R -> d.probes] /\ \A x, y \in R : key[x] = key[y] => x = y
    BY <2>1, <2>2
  <2> HIDE DEF key
  <2>4. IsFiniteSet(R)
    BY <1>3, <2>3, FiniteByKey
  <2> QED
    BY <2>4 DEF R
<1>5. \A p \in d.probes : <<p.at, p.listing>> \in [1..2 -> Nat]
  BY <1>1, ColumnsFinite, KeysOfColumns
<1>6. \A p, q \in d.probes : <<p.at, p.listing>> = <<q.at, q.listing>> => p = q
  BY DEF Keyed
<1>7. ASSUME NEW x \in ProbeRows(d, moment)
      PROVE  x.order \in [1..2 -> Nat]
  <2>1. PICK p \in d.probes : OfProbe(x, p)
    BY ProbeRead
  <2> QED
    BY <1>5, <2>1 DEF OfProbe
<1>8. ASSUME NEW x \in ProbeRows(d, moment), NEW y \in ProbeRows(d, moment), x.order = y.order
      PROVE  x = y
  <2>1. PICK p \in d.probes : OfProbe(x, p)
    BY ProbeRead
  <2>2. PICK q \in d.probes : OfProbe(y, q)
    BY ProbeRead
  <2>3. p = q
    BY <1>6, <1>8, <2>1, <2>2 DEF OfProbe
  <2>4. x.holds[1] = y.holds[1]
    BY <2>1, <2>2, <2>3 DEF OfProbe
  <2> QED
    BY <2>4, ProbeRead
<1> QED
  BY <1>4, <1>7, <1>8 DEF Lined

\* The rows of every dataset are those of a query.
LEMMA AllLined ==
  ASSUME NEW d \in Store, Keyed(d), NEW k \in 1..3, NEW moment
  PROVE  Lined(RowsIn(d, k, moment))
<1>1. k = 1 \/ k = 2 \/ k = 3
  OBVIOUS
<1> QED
  BY <1>1, RowsOfEach, DiscoveriesLined, ObservationsLined, ProbesLined

-----------------------------------------------------------------------------
(* A store that grows.                                                     *)

\* An observation and what becomes of it: dated back perhaps, or with more sightings.
GoneOn(o, p) ==
  /\ p.run = o.run /\ p.listing = o.listing
  /\ o.sightings <= p.sightings
  /\ p.at < o.at \/ SeenSince(o, p)

\* What there was is there still, observations as they have gone on.
Follows(d, e) ==
  /\ d.found \subseteq e.found /\ d.probes \subseteq e.probes
  /\ \A o \in d.observed : \E p \in e.observed : GoneOn(o, p)

\* The columns of observations.
SightingRows == [run : Runs, listing : Listings, at : Times, catalog : Catalogs, sightings : Nat]
LEMMA SightingsTyped ==
  ASSUME NEW d \in Store
  PROVE  /\ d.observed \subseteq SightingRows
         /\ \A o \in SightingRows : o.at \in Nat /\ o.sightings \in Nat
<1>1. Times \subseteq Nat
  BY EvidenceAssumption
<1> QED
  BY <1>1 DEF Store, StoreOf, SightingRows

\* An observation of the same time and catalog, and one that has gone on.
LEMMA SeenMeans ==
  ASSUME NEW o \in SightingRows, NEW p \in SightingRows
  PROVE  /\ SeenSince(o, p) <=> /\ p.run = o.run /\ p.listing = o.listing /\ p.at = o.at
                                /\ p.catalog = o.catalog /\ o.sightings <= p.sightings
         /\ GoneOn(o, p) => /\ p.run = o.run /\ p.listing = o.listing /\ p.at <= o.at
                            /\ p.at = o.at => SeenSince(o, p)
<1>1. SeenSince(o, p) <=> /\ p.run = o.run /\ p.listing = o.listing /\ p.at = o.at
                          /\ p.catalog = o.catalog /\ o.sightings <= p.sightings
  BY DEF SeenSince, SightingRows
<1>2. o.at \in Nat /\ p.at \in Nat
  BY EvidenceAssumption DEF SightingRows
<1> QED
  BY <1>1, <1>2 DEF GoneOn

\* A store follows itself, and what follows a store that follows it.
LEMMA FollowsOn ==
  ASSUME NEW d \in Store
  PROVE  /\ Follows(d, d)
         /\ \A e, f \in Store : Follows(d, e) /\ Follows(e, f) => Follows(d, f)
<1>1. \A s \in Store : s.observed \subseteq SightingRows
  BY SightingsTyped
<1>2. \A o \in SightingRows : GoneOn(o, o)
  <2> SUFFICES ASSUME NEW o \in SightingRows PROVE GoneOn(o, o)
    OBVIOUS
  <2>1. o.sightings \in Nat
    BY SightingsTyped
  <2> QED
    BY <2>1, SeenMeans DEF GoneOn
<1>3. Follows(d, d)
  BY <1>1, <1>2 DEF Follows
<1>4. ASSUME NEW o \in SightingRows, NEW p \in SightingRows, NEW q \in SightingRows, GoneOn(o, p), GoneOn(p, q)
      PROVE  GoneOn(o, q)
  <2>1. /\ o.sightings \in Nat /\ p.sightings \in Nat /\ q.sightings \in Nat
        /\ o.at \in Nat /\ p.at \in Nat /\ q.at \in Nat
    BY SightingsTyped
  <2>2. q.at < o.at \/ SeenSince(o, q)
    BY <1>4, <2>1, SeenMeans DEF GoneOn
  <2> QED
    BY <1>4, <2>1, <2>2 DEF GoneOn
<1>5. ASSUME NEW e \in Store, NEW f \in Store, Follows(d, e), Follows(e, f)
      PROVE  Follows(d, f)
  <2>1. \A o \in d.observed : \E p \in f.observed : GoneOn(o, p)
    <3> SUFFICES ASSUME NEW o \in d.observed PROVE \E p \in f.observed : GoneOn(o, p)
      OBVIOUS
    <3>1. PICK p \in e.observed : GoneOn(o, p)
      BY <1>5 DEF Follows
    <3>2. PICK q \in f.observed : GoneOn(p, q)
      BY <1>5 DEF Follows
    <3> QED
      BY <1>1, <1>4, <3>1, <3>2
  <2> QED
    BY <1>5, <2>1 DEF Follows
<1> QED
  BY <1>3, <1>5

\* What becomes of a row of the k-th dataset that keeps its key, and which row one is.
TurnsInto(k, old, new) == IF k = 2 THEN SeenSince(old, new) ELSE new = old
IsThat(k, old, new) == IF k = 2 THEN new.run = old.run /\ new.listing = old.listing ELSE new = old

\* The rows of a store are among those of a later one, where observations may have an earlier key.
LEMMA RowsFollow ==
  ASSUME NEW d \in Store, NEW e \in Store, Follows(d, e), NEW k \in 1..3, NEW moment, NEW later
  PROVE  \A x \in RowsIn(d, k, moment) : \E y \in RowsIn(e, k, later) :
           /\ y.group = x.group /\ IsThat(k, x.holds[1], y.holds[1])
           /\ y.order = x.order \/ (k = 2 /\ Precedes(y.order, x.order))
<1>1. CASE k = 1
  <2>1. ASSUME NEW x \in DiscoveryRows(d)
        PROVE  \E y \in DiscoveryRows(e) : /\ y.order = x.order /\ y.group = x.group
                                           /\ y.holds[1] = x.holds[1]
    <3>1. PICK f \in d.found : OfCard(x, f)
      BY DiscoveryRead
    <3>2. PICK y \in DiscoveryRows(e) : OfCard(y, f)
      BY <3>1, DiscoveryRead DEF Follows
    <3> QED
      BY <3>1, <3>2 DEF OfCard
  <2> SUFFICES ASSUME NEW x \in RowsIn(d, k, moment)
               PROVE  \E y \in RowsIn(e, k, later) :
                        /\ y.group = x.group /\ IsThat(k, x.holds[1], y.holds[1])
                        /\ y.order = x.order \/ (k = 2 /\ Precedes(y.order, x.order))
    OBVIOUS
  <2>2. x \in DiscoveryRows(d)
    BY <1>1, RowsOfEach
  <2>3. PICK y \in DiscoveryRows(e) : /\ y.order = x.order /\ y.group = x.group
                                     /\ y.holds[1] = x.holds[1]
    BY <2>1, <2>2
  <2>4. y \in RowsIn(e, k, later)
    BY <1>1, <2>3, RowsOfEach
  <2> QED
    BY <1>1, <2>3, <2>4 DEF IsThat
<1>2. CASE k = 2
  <2>1. ASSUME NEW x \in ObservationRows(d)
        PROVE  \E y \in ObservationRows(e) :
                 /\ y.group = x.group /\ IsThat(2, x.holds[1], y.holds[1])
                 /\ y.order = x.order \/ Precedes(y.order, x.order)
    <3>1. PICK o \in d.observed : OfSighting(x, o)
      BY ObservationRead
    <3>2. PICK p \in e.observed : GoneOn(o, p)
      BY <3>1 DEF Follows
    <3>3. p.run = o.run /\ p.at <= o.at /\ p.listing = o.listing /\ o.at \in Nat /\ p.at \in Nat
      BY <3>2, SightingsTyped, SeenMeans
    <3>4. PICK y \in ObservationRows(e) : OfSighting(y, p)
      BY ObservationRead
    <3>5. <<p.run, p.at, p.listing>> = <<o.run, o.at, o.listing>>
            \/ Precedes(<<p.run, p.at, p.listing>>, <<o.run, o.at, o.listing>>)
      <4>1. CASE p.at = o.at
        BY <3>3, <4>1
      <4>2. CASE p.at < o.at
        <5> DEFINE a == <<p.run, p.at, p.listing>>
                   b == <<o.run, o.at, o.listing>>
        <5>1. DOMAIN a = 1..3 /\ a[1] = b[1] /\ a[2] < b[2]
          BY <3>3, <4>2
        <5>2. 2 \in DOMAIN a /\ \A j \in 1..(2 - 1) : a[j] = b[j]
          BY <5>1
        <5> HIDE DEF a, b
        <5>3. Precedes(a, b)
          BY <5>1, <5>2 DEF Precedes
        <5> QED
          BY <5>3 DEF a, b
      <4> QED
        BY <3>3, <4>1, <4>2
    <3> QED
      BY <3>1, <3>3, <3>4, <3>5 DEF OfSighting, IsThat
  <2> SUFFICES ASSUME NEW x \in RowsIn(d, k, moment)
               PROVE  \E y \in RowsIn(e, k, later) :
                        /\ y.group = x.group /\ IsThat(k, x.holds[1], y.holds[1])
                        /\ y.order = x.order \/ (k = 2 /\ Precedes(y.order, x.order))
    OBVIOUS
  <2>2. x \in ObservationRows(d)
    BY <1>2, RowsOfEach
  <2>3. PICK y \in ObservationRows(e) : /\ y.group = x.group /\ IsThat(2, x.holds[1], y.holds[1])
                                        /\ y.order = x.order \/ Precedes(y.order, x.order)
    BY <2>1, <2>2
  <2>4. y \in RowsIn(e, k, later)
    BY <1>2, <2>3, RowsOfEach
  <2> QED
    BY <1>2, <2>3, <2>4 DEF IsThat
<1>3. CASE k = 3
  <2>1. ASSUME NEW x \in ProbeRows(d, moment)
        PROVE  \E y \in ProbeRows(e, later) : /\ y.order = x.order /\ y.group = x.group
                                              /\ y.holds[1] = x.holds[1]
    <3>1. PICK p \in d.probes : OfProbe(x, p)
      BY ProbeRead
    <3>2. PICK y \in ProbeRows(e, later) : OfProbe(y, p)
      BY <3>1, ProbeRead DEF Follows
    <3> QED
      BY <3>1, <3>2 DEF OfProbe
  <2> SUFFICES ASSUME NEW x \in RowsIn(d, k, moment)
               PROVE  \E y \in RowsIn(e, k, later) :
                        /\ y.group = x.group /\ IsThat(k, x.holds[1], y.holds[1])
                        /\ y.order = x.order \/ (k = 2 /\ Precedes(y.order, x.order))
    OBVIOUS
  <2>2. x \in ProbeRows(d, moment)
    BY <1>3, RowsOfEach
  <2>3. PICK y \in ProbeRows(e, later) : /\ y.order = x.order /\ y.group = x.group
                                        /\ y.holds[1] = x.holds[1]
    BY <2>1, <2>2
  <2>4. y \in RowsIn(e, k, later)
    BY <1>3, <2>3, RowsOfEach
  <2> QED
    BY <1>3, <2>3, <2>4 DEF IsThat
<1> QED
  BY <1>1, <1>2, <1>3

\* A row is one row: two of a store are not the same.
LEMMA ThatIsOne ==
  ASSUME NEW d \in Store, Keyed(d), NEW k \in 1..3, NEW moment,
         NEW x \in RowsIn(d, k, moment), NEW z \in RowsIn(d, k, moment), NEW row,
         IsThat(k, x.holds[1], row), IsThat(k, z.holds[1], row)
  PROVE  x = z
<1>1. CASE k = 1
  BY <1>1, RowsOfEach, DiscoveryRead DEF IsThat
<1>2. CASE k = 2
  <2>1. x \in ObservationRows(d) /\ z \in ObservationRows(d)
    BY <1>2, RowsOfEach
  <2>2. x.holds[1] \in d.observed /\ z.holds[1] \in d.observed
    BY <2>1, ObservationRead DEF OfSighting
  <2>3. /\ x.holds[1].run = z.holds[1].run /\ x.holds[1].listing = z.holds[1].listing
    BY <1>2 DEF IsThat
  <2>4. x.holds[1] = z.holds[1]
    BY <2>2, <2>3 DEF Keyed
  <2> QED
    BY <2>1, <2>4, ObservationRead
<1>3. CASE k = 3
  BY <1>3, RowsOfEach, ProbeRead DEF IsThat
<1> QED
  BY <1>1, <1>2, <1>3

\* So they slide in among the rows of the later store.
LEMMA RowsSlide ==
  ASSUME NEW d \in Store, NEW e \in Store, Keyed(d), Follows(d, e), NEW k \in 1..3, NEW moment,
         NEW later
  PROVE  SlideIn(RowsIn(d, k, moment), RowsIn(e, k, later))
<1> DEFINE R == RowsIn(d, k, moment)
           S == RowsIn(e, k, later)
           Next(x, y) == /\ y.group = x.group /\ IsThat(k, x.holds[1], y.holds[1])
                         /\ y.order = x.order \/ (k = 2 /\ Precedes(y.order, x.order))
           f == [x \in R |-> CHOOSE y \in S : Next(x, y)]
<1>1. \A x \in R : \E y \in S : Next(x, y)
  BY RowsFollow
<1>2. \A x \in R, z \in R : \A row :
        IsThat(k, x.holds[1], row) /\ IsThat(k, z.holds[1], row) => x = z
  BY ThatIsOne
<1> HIDE DEF R, S, Next
<1>3. \A x \in R : f[x] \in S /\ Next(x, f[x])
  BY <1>1
<1>4. f \in [R -> S]
  BY <1>3
<1> HIDE DEF f
<1>5. \A x, z \in R : f[x] = f[z] => x = z
  BY <1>2, <1>3 DEF Next
<1>6. \A x \in R : /\ f[x].group = x.group
                   /\ f[x].order = x.order \/ Precedes(f[x].order, x.order)
  BY <1>3 DEF Next
<1>7. SlideIn(R, S)
  BY <1>4, <1>5, <1>6 DEF SlideIn
<1> QED
  BY <1>7 DEF R, S

\* A row that has kept its key is what has become of it.
LEMMA RowsKept ==
  ASSUME NEW d \in Store, NEW e \in Store, Keyed(e), Follows(d, e), NEW k \in 1..3,
         NEW moment, NEW later, NEW x \in RowsIn(d, k, moment), NEW y \in RowsIn(e, k, later),
         y.order = x.order
  PROVE  TurnsInto(k, x.holds[1], y.holds[1])
<1>1. CASE k = 1
  <2>1. PICK f \in d.found : OfCard(x, f)
    BY <1>1, RowsOfEach, DiscoveryRead
  <2>2. PICK q \in e.found : OfCard(y, q)
    BY <1>1, RowsOfEach, DiscoveryRead
  <2>3. /\ f \in e.found
        /\ <<f.run, f.catalog, f.page, f.listing>> = <<q.run, q.catalog, q.page, q.listing>>
    BY <2>1, <2>2 DEF Follows, OfCard
  <2>4. f = q
    BY <2>3 DEF Keyed
  <2> QED
    BY <1>1, <2>1, <2>2, <2>4 DEF OfCard, TurnsInto
<1>2. CASE k = 2
  <2>1. PICK o \in d.observed : OfSighting(x, o)
    BY <1>2, RowsOfEach, ObservationRead
  <2>2. PICK q \in e.observed : OfSighting(y, q)
    BY <1>2, RowsOfEach, ObservationRead
  <2>3. q.run = o.run /\ q.at = o.at /\ q.listing = o.listing
    BY <2>1, <2>2 DEF OfSighting
  <2>4. PICK p \in e.observed : GoneOn(o, p)
    BY <2>1 DEF Follows
  <2>5. p = q
    BY <2>3, <2>4 DEF Keyed, GoneOn
  <2>6. SeenSince(o, q)
    BY <2>3, <2>4, <2>5, SightingsTyped, SeenMeans
  <2> QED
    BY <1>2, <2>1, <2>2, <2>6 DEF OfSighting, TurnsInto
<1>3. CASE k = 3
  <2>1. PICK p \in d.probes : OfProbe(x, p)
    BY <1>3, RowsOfEach, ProbeRead
  <2>2. PICK q \in e.probes : OfProbe(y, q)
    BY <1>3, RowsOfEach, ProbeRead
  <2>3. p \in e.probes /\ <<p.at, p.listing>> = <<q.at, q.listing>>
    BY <2>1, <2>2 DEF Follows, OfProbe
  <2>4. p = q
    BY <2>3 DEF Keyed
  <2> QED
    BY <1>3, <2>1, <2>2, <2>4 DEF OfProbe, TurnsInto
<1> QED
  BY <1>1, <1>2, <1>3

\* A row that has its key still had it all the time.
LEMMA KeptBetween ==
  ASSUME NEW c \in Store, NEW d \in Store, NEW e \in Store, Keyed(e), Follows(c, d), Follows(d, e),
         NEW k \in 1..3, NEW moment, NEW x \in RowsIn(c, k, moment), NEW y \in RowsIn(e, k, moment),
         y.order = x.order
  PROVE  \E w \in RowsIn(d, k, moment) : w.order = x.order
<1>1. CASE k # 2
  BY <1>1, RowsFollow
<1>2. CASE k = 2
  <2>1. PICK o \in c.observed : OfSighting(x, o)
    BY <1>2, RowsOfEach, ObservationRead
  <2>2. PICK r \in e.observed : OfSighting(y, r)
    BY <1>2, RowsOfEach, ObservationRead
  <2>3. r.run = o.run /\ r.at = o.at /\ r.listing = o.listing
    BY <2>1, <2>2 DEF OfSighting
  <2>4. PICK p \in d.observed : GoneOn(o, p)
    BY <2>1 DEF Follows
  <2>5. PICK q \in e.observed : GoneOn(p, q)
    BY <2>4 DEF Follows
  <2>6. q = r
    BY <2>3, <2>4, <2>5 DEF Keyed, GoneOn
  <2>7. /\ o \in SightingRows /\ p \in SightingRows /\ q \in SightingRows
        /\ o.at \in Nat /\ p.at \in Nat /\ q.at \in Nat
    BY SightingsTyped
  <2>8. p.run = o.run /\ p.listing = o.listing /\ p.at = o.at
    BY <2>3, <2>4, <2>5, <2>6, <2>7, SeenMeans
  <2>9. PICK w \in ObservationRows(d) : OfSighting(w, p)
    BY <2>4, ObservationRead
  <2> QED
    BY <1>2, <2>1, <2>8, <2>9, RowsOfEach DEF OfSighting
<1> QED
  BY <1>1, <1>2

\* Such a row comes into no earlier batch of the later store, where it is what has become of it.
LEMMA BatchesFollow ==
  ASSUME NEW d \in Store, NEW e \in Store, Keyed(d), Keyed(e), Follows(d, e), NEW k \in 1..3,
         NEW moment, NEW later, NEW x \in RowsIn(d, k, moment), NEW y \in RowsIn(e, k, later),
         y.order = x.order
  PROVE  /\ Number(RowsIn(d, k, moment), x) <= Number(RowsIn(e, k, later), y)
         /\ TurnsInto(k, x.holds[1], y.holds[1])
<1>1. Lined(RowsIn(d, k, moment)) /\ Lined(RowsIn(e, k, later))
  BY AllLined
<1>2. SlideIn(RowsIn(d, k, moment), RowsIn(e, k, later))
  BY RowsSlide
<1>3. TurnsInto(k, x.holds[1], y.holds[1])
  BY RowsKept
<1> QED
  BY <1>1, <1>2, <1>3, NumbersGrow

-----------------------------------------------------------------------------
(* Checkpoints and what is delivered.                                      *)

\* A row of the k-th dataset is in a batch of the lake, or of the outbox.
Delivered(lk, box, k, row) ==
  IF k = 2
  THEN \E x \in lk : /\ x.key[1] = "parquet" /\ x.key[2][1] = "observations"
                     /\ \E r \in x.holds.rows : SeenSince(row, r[1])
  ELSE \E b \in box : \E r \in b.rows : r[1] = row

\* Of the rows the checkpoint is about that have kept their key, those are delivered that are behind
\* it in the order of a later store; and all of them.
BehindDelivered(lk, box, memo, k, d) ==
  \A x \in RowsIn(memo.since, k, memo.moment), y \in RowsIn(d, k, memo.moment) :
    y.order = x.order /\ Number(RowsIn(d, k, memo.moment), y) <= memo.done[k]
      => Delivered(lk, box, k, x.holds[1])
AllDelivered(lk, box, memo, k, d) ==
  \A x \in RowsIn(memo.since, k, memo.moment), y \in RowsIn(d, k, memo.moment) :
    y.order = x.order => Delivered(lk, box, k, x.holds[1])

\* A checkpoint tells the truth of the store as it is now.
Memos == [moment : Nat, postgres : BOOLEAN, done : [1..3 -> Nat], completed : BOOLEAN, since : Store]
MemoSound(lk, box, memo, d) ==
  /\ memo \in Memos /\ Keyed(memo.since) /\ Follows(memo.since, d)
  /\ \A k \in 1..3 : BehindDelivered(lk, box, memo, k, d)
  /\ memo.completed => \A k \in 1..3 : AllDelivered(lk, box, memo, k, d)

\* And so does the cursor, of the store as it was when it was opened.
CursorSound(lk, box, memo, k, batches, d) ==
  \E e \in Store : /\ Keyed(e) /\ Follows(memo.since, e) /\ Follows(e, d)
                   /\ batches = BatchesOf(e, Datasets[k], memo.moment)
                   /\ BehindDelivered(lk, box, memo, k, e)

\* What is delivered stays delivered.
LEMMA DeliveredStays ==
  ASSUME NEW lk, NEW box, NEW lk2, NEW box2, lk \subseteq lk2, box \subseteq box2, NEW k, NEW row,
         Delivered(lk, box, k, row)
  PROVE  Delivered(lk2, box2, k, row)
BY DEF Delivered

\* The batches are numbered.
LEMMA NumberIsNat ==
  ASSUME NEW d \in Store, Keyed(d), NEW k \in 1..3, NEW moment, NEW x \in RowsIn(d, k, moment)
  PROVE  Number(RowsIn(d, k, moment), x) \in Nat
<1> DEFINE R == RowsIn(d, k, moment)
<1>1. Lined(R)
  BY AllLined
<1> HIDE DEF R
<1>2. /\ Cardinality({Chunk(R, z) : z \in R}) \in Nat
      /\ x \in R => Number(R, x) \in 1..Cardinality({Chunk(R, z) : z \in R})
  BY <1>1, RowNumbered DEF R
<1> QED
  BY <1>2 DEF R

\* Rows behind the checkpoint in a later store were behind it before.
LEMMA BehindBefore ==
  ASSUME NEW lk, NEW box, NEW memo \in Memos, NEW k \in 1..3, NEW d \in Store, NEW e \in Store,
         Keyed(d), Keyed(e), Follows(memo.since, d), Follows(d, e),
         BehindDelivered(lk, box, memo, k, d)
  PROVE  BehindDelivered(lk, box, memo, k, e)
<1> SUFFICES ASSUME NEW x \in RowsIn(memo.since, k, memo.moment), NEW y \in RowsIn(e, k, memo.moment),
                    y.order = x.order, Number(RowsIn(e, k, memo.moment), y) <= memo.done[k]
             PROVE  Delivered(lk, box, k, x.holds[1])
  BY DEF BehindDelivered
<1>1. memo.since \in Store /\ memo.done[k] \in Nat
  BY DEF Memos
<1>2. PICK w \in RowsIn(d, k, memo.moment) : w.order = x.order
  BY <1>1, KeptBetween
<1>3. Number(RowsIn(d, k, memo.moment), w) <= Number(RowsIn(e, k, memo.moment), y)
  BY <1>2, BatchesFollow
<1>4. Number(RowsIn(d, k, memo.moment), w) \in Nat /\ Number(RowsIn(e, k, memo.moment), y) \in Nat
  BY <1>2, NumberIsNat
<1>5. Number(RowsIn(d, k, memo.moment), w) <= memo.done[k]
  BY <1>1, <1>3, <1>4
<1> QED
  BY <1>2, <1>5 DEF BehindDelivered

\* Where all were delivered, all are that have kept their key in a later store.
LEMMA AllStay ==
  ASSUME NEW lk, NEW box, NEW lk2, NEW box2, lk \subseteq lk2, box \subseteq box2, NEW memo \in Memos,
         NEW k \in 1..3, NEW d \in Store, NEW e \in Store, Keyed(e), Follows(memo.since, d),
         Follows(d, e), AllDelivered(lk, box, memo, k, d)
  PROVE  AllDelivered(lk2, box2, memo, k, e)
<1> SUFFICES ASSUME NEW x \in RowsIn(memo.since, k, memo.moment), NEW y \in RowsIn(e, k, memo.moment),
                    y.order = x.order
             PROVE  Delivered(lk2, box2, k, x.holds[1])
  BY DEF AllDelivered
<1>1. memo.since \in Store
  BY DEF Memos
<1>2. PICK w \in RowsIn(d, k, memo.moment) : w.order = x.order
  BY <1>1, KeptBetween
<1> QED
  BY <1>2, DeliveredStays DEF AllDelivered

\* A checkpoint stays sound while the store grows and more is delivered.
LEMMA MemoStays ==
  ASSUME NEW lk, NEW box, NEW lk2, NEW box2, lk \subseteq lk2, box \subseteq box2, NEW memo,
         NEW d \in Store, NEW e \in Store, Keyed(d), Keyed(e), Follows(d, e),
         MemoSound(lk, box, memo, d)
  PROVE  MemoSound(lk2, box2, memo, e)
<1>1. memo \in Memos /\ memo.since \in Store /\ Keyed(memo.since) /\ Follows(memo.since, e)
  BY FollowsOn DEF MemoSound, Memos
<1>2. ASSUME NEW k \in 1..3
      PROVE  BehindDelivered(lk2, box2, memo, k, e)
  <2>1. BehindDelivered(lk, box, memo, k, e)
    BY <1>1, BehindBefore DEF MemoSound
  <2> QED
    BY <2>1, DeliveredStays DEF BehindDelivered
<1>3. ASSUME memo.completed, NEW k \in 1..3
      PROVE  AllDelivered(lk2, box2, memo, k, e)
  BY <1>1, <1>3, AllStay DEF MemoSound
<1> QED
  BY <1>1, <1>2, <1>3 DEF MemoSound

\* So does the cursor.
LEMMA CursorStays ==
  ASSUME NEW lk, NEW box, NEW lk2, NEW box2, lk \subseteq lk2, box \subseteq box2, NEW memo \in Memos,
         NEW k, NEW batches, NEW d \in Store, NEW e \in Store, Follows(d, e),
         CursorSound(lk, box, memo, k, batches, d)
  PROVE  CursorSound(lk2, box2, memo, k, batches, e)
<1>1. PICK s \in Store : /\ Keyed(s) /\ Follows(memo.since, s) /\ Follows(s, d)
                         /\ batches = BatchesOf(s, Datasets[k], memo.moment)
                         /\ BehindDelivered(lk, box, memo, k, s)
  BY DEF CursorSound
<1>2. Follows(s, e)
  BY <1>1, FollowsOn
<1>3. BehindDelivered(lk2, box2, memo, k, s)
  BY <1>1, DeliveredStays DEF BehindDelivered
<1> QED
  BY <1>1, <1>2, <1>3 DEF CursorSound

\* A checkpoint that is begun counts nothing.
LEMMA FreshSound ==
  ASSUME NEW lk, NEW box, NEW moment \in Nat, NEW d \in Store, Keyed(d), NEW e \in Store, Keyed(e),
         Follows(d, e)
  PROVE  /\ MemoSound(lk, box, Fresh(moment, d), e)
         /\ Fresh(moment, d).completed = FALSE /\ Fresh(moment, d).postgres = FALSE
<1> DEFINE memo == Fresh(moment, d)
<1>1. /\ memo \in Memos /\ memo.since = d /\ memo.completed = FALSE /\ memo.postgres = FALSE
      /\ \A k \in 1..3 : memo.done[k] = 0
  BY DEF Fresh, Memos
<1> HIDE DEF memo
<1>2. ASSUME NEW k \in 1..3, NEW y \in RowsIn(e, k, memo.moment)
      PROVE  ~(Number(RowsIn(e, k, memo.moment), y) <= memo.done[k])
  <2>1. /\ Cardinality({Chunk(RowsIn(e, k, memo.moment), z) : z \in RowsIn(e, k, memo.moment)}) \in Nat
        /\ Number(RowsIn(e, k, memo.moment), y)
             \in 1..Cardinality({Chunk(RowsIn(e, k, memo.moment), z) : z \in RowsIn(e, k, memo.moment)})
    BY AllLined, RowNumbered
  <2> QED
    BY <1>1, <2>1
<1>3. MemoSound(lk, box, memo, e)
  BY <1>1, <1>2 DEF MemoSound, BehindDelivered
<1> QED
  BY <1>1, <1>3 DEF memo

\* A cursor just opened sees the store as it is.
LEMMA OpenedSound ==
  ASSUME NEW lk, NEW box, NEW memo, NEW d \in Store, Keyed(d), MemoSound(lk, box, memo, d),
         NEW k \in 1..3
  PROVE  CursorSound(lk, box, memo, k, BatchesOf(d, Datasets[k], memo.moment), d)
BY FollowsOn DEF MemoSound, CursorSound

\* The batches of a dataset hold all its rows.
LEMMA BatchesHold ==
  ASSUME NEW d \in Store, Keyed(d), NEW k \in 1..3, NEW moment
  PROVE  LET batches == BatchesOf(d, Datasets[k], moment)
             rows == RowsIn(d, k, moment)
         IN /\ Len(batches) \in Nat
            /\ \A x \in rows : Number(rows, x) \in 1..Len(batches)
            /\ \A n \in 1..Len(batches) :
                 /\ batches[n].id[1] = Datasets[k]
                 /\ \A x \in rows : Number(rows, x) = n => x.holds \in batches[n].rows
<1> DEFINE rows == RowsIn(d, k, moment)
           size == Cardinality({Chunk(rows, x) : x \in rows})
           mine(n) == {x \in rows : Number(rows, x) = n}
           batch(n) == BatchOf(rows, Datasets[k], moment, mine(n))
           batches == BatchesOf(d, Datasets[k], moment)
<1>1. Lined(rows)
  BY AllLined
<1>2. batches = [n \in 1..size |-> batch(n)]
  BY DEF BatchesOf, RowsIn
<1>3. \A n : /\ batch(n).id[1] = Datasets[k]
             /\ batch(n).rows = {x.holds : x \in mine(n)}
  BY DEF BatchOf
<1>4. \A n : \A x \in rows : Number(rows, x) = n => x.holds \in batch(n).rows
  <2> HIDE DEF rows
  <2> QED
    BY <1>3
<1>5. size \in Nat
  <2>1. IsFiniteSet({Chunk(rows, x) : x \in rows})
    BY <1>1, FiniteChunks DEF Lined
  <2> QED
    BY <2>1, FS_CardinalityType
<1>6. \A x \in rows : Number(rows, x) \in 1..size
  BY <1>1, RowNumbered
<1> HIDE DEF batch, batches, rows, size
<1>7. Len(batches) = size /\ \A n \in 1..size : batches[n] = batch(n)
  BY <1>2, <1>5
<1>8. /\ Len(batches) \in Nat
      /\ \A x \in rows : Number(rows, x) \in 1..Len(batches)
      /\ \A n \in 1..Len(batches) :
           /\ batches[n].id[1] = Datasets[k]
           /\ \A x \in rows : Number(rows, x) = n => x.holds \in batches[n].rows
  BY <1>3, <1>4, <1>5, <1>6, <1>7
<1> QED
  BY <1>8 DEF batches, rows

\* A cursor at its end has delivered its dataset.
LEMMA AtEnd ==
  ASSUME NEW lk, NEW box, NEW memo \in Memos, NEW k \in 1..3, NEW batches, NEW d \in Store, Keyed(d),
         CursorSound(lk, box, memo, k, batches, d), ~(memo.done[k] < Len(batches))
  PROVE  AllDelivered(lk, box, memo, k, d)
<1>1. PICK e \in Store : /\ Keyed(e) /\ Follows(memo.since, e) /\ Follows(e, d)
                         /\ batches = BatchesOf(e, Datasets[k], memo.moment)
                         /\ BehindDelivered(lk, box, memo, k, e)
  BY DEF CursorSound
<1>2. memo.done[k] \in Nat
  BY DEF Memos
<1>3. ASSUME NEW y \in RowsIn(e, k, memo.moment)
      PROVE  Number(RowsIn(e, k, memo.moment), y) <= memo.done[k]
  <2>1. /\ Len(batches) \in Nat
        /\ Number(RowsIn(e, k, memo.moment), y) \in 1..Len(batches)
    BY <1>1, BatchesHold
  <2> QED
    BY <1>2, <2>1
<1>4. AllDelivered(lk, box, memo, k, e)
  BY <1>1, <1>3 DEF BehindDelivered, AllDelivered
<1> QED
  BY <1>1, <1>4, AllStay

\* A batch is counted when its rows are delivered.
CountedOn(memo, k) == [memo EXCEPT !.done[k] = @ + 1]

\* Then the checkpoint and the cursor remain sound.
LEMMA CountedSound ==
  ASSUME NEW lk, NEW box, NEW memo, NEW k \in 1..3, NEW batches, NEW d \in Store, Keyed(d),
         MemoSound(lk, box, memo, d), ~memo.completed,
         CursorSound(lk, box, memo, k, batches, d), memo.done[k] < Len(batches),
         IF k = 2 THEN RowsObject(batches[memo.done[k] + 1]) \in lk
         ELSE batches[memo.done[k] + 1] \in box
  PROVE  /\ MemoSound(lk, box, CountedOn(memo, k), d)
         /\ CursorSound(lk, box, CountedOn(memo, k), k, batches, d)
         /\ \A j \in 1..3 : AllDelivered(lk, box, memo, j, d)
                              => AllDelivered(lk, box, CountedOn(memo, k), j, d)
         /\ ~CountedOn(memo, k).completed
<1> DEFINE next == CountedOn(memo, k)
           n == memo.done[k] + 1
<1>1. /\ memo \in Memos /\ memo.since \in Store /\ memo.done[k] \in Nat
  BY DEF MemoSound, Memos
<1>2. /\ next \in Memos /\ next.since = memo.since /\ next.moment = memo.moment
      /\ next.completed = memo.completed /\ next.done[k] = n
      /\ \A j \in 1..3 : j # k => next.done[j] = memo.done[j]
  <2> DEFINE done == [memo.done EXCEPT ![k] = @ + 1]
  <2>1. done \in [1..3 -> Nat] /\ done[k] = n /\ \A j \in 1..3 : j # k => done[j] = memo.done[j]
    BY <1>1 DEF Memos
  <2>2. next = [memo EXCEPT !.done = done]
    BY DEF CountedOn
  <2> HIDE DEF next, done
  <2> QED
    BY <1>1, <2>1, <2>2 DEF Memos
<1> HIDE DEF next
<1>3. PICK e \in Store : /\ Keyed(e) /\ Follows(memo.since, e) /\ Follows(e, d)
                         /\ batches = BatchesOf(e, Datasets[k], memo.moment)
                         /\ BehindDelivered(lk, box, memo, k, e)
  BY DEF CursorSound
<1>4. /\ Len(batches) \in Nat /\ n \in 1..Len(batches)
      /\ batches[n].id[1] = Datasets[k]
      /\ \A y \in RowsIn(e, k, memo.moment) :
           /\ Number(RowsIn(e, k, memo.moment), y) \in Nat
           /\ Number(RowsIn(e, k, memo.moment), y) = n => y.holds \in batches[n].rows
  <2>1. /\ Len(batches) \in Nat
        /\ \A y \in RowsIn(e, k, memo.moment) :
             Number(RowsIn(e, k, memo.moment), y) \in 1..Len(batches)
        /\ \A j \in 1..Len(batches) :
             /\ batches[j].id[1] = Datasets[k]
             /\ \A y \in RowsIn(e, k, memo.moment) :
                  Number(RowsIn(e, k, memo.moment), y) = j => y.holds \in batches[j].rows
    BY <1>3, BatchesHold
  <2>2. n \in 1..Len(batches)
    BY <1>1, <2>1
  <2> HIDE DEF n
  <2> QED
    BY <2>1, <2>2
<1>5. ASSUME NEW x \in RowsIn(memo.since, k, memo.moment), NEW y \in RowsIn(e, k, memo.moment),
             y.order = x.order, Number(RowsIn(e, k, memo.moment), y) = n
      PROVE  Delivered(lk, box, k, x.holds[1])
  <2>1. TurnsInto(k, x.holds[1], y.holds[1])
    BY <1>1, <1>3, <1>5, BatchesFollow DEF MemoSound
  <2>2. y.holds \in batches[n].rows
    BY <1>4, <1>5
  <2> HIDE DEF n
  <2>3. CASE k = 2
    <3> DEFINE o == RowsObject(batches[n])
    <3>1. o \in lk
      BY <2>3 DEF n
    <3>2. o.key[1] = "parquet" /\ o.key[2] = batches[n].id /\ o.holds.rows = batches[n].rows
      BY DEF RowsObject, Object
    <3>3. Datasets[k] = "observations"
      BY <2>3 DEF Datasets
    <3> HIDE DEF o
    <3> QED
      BY <1>4, <2>1, <2>2, <2>3, <3>1, <3>2, <3>3 DEF Delivered, TurnsInto
  <2>4. CASE k # 2
    <3>1. batches[n] \in box
      BY <2>4 DEF n
    <3> QED
      BY <2>1, <2>2, <2>4, <3>1 DEF Delivered, TurnsInto
  <2> QED
    BY <2>3, <2>4
<1>6. BehindDelivered(lk, box, next, k, e)
  <2> SUFFICES ASSUME NEW x \in RowsIn(memo.since, k, memo.moment),
                      NEW y \in RowsIn(e, k, memo.moment),
                      y.order = x.order, Number(RowsIn(e, k, memo.moment), y) <= n
               PROVE  Delivered(lk, box, k, x.holds[1])
    BY <1>2 DEF BehindDelivered
  <2>1. Number(RowsIn(e, k, memo.moment), y) = n
          \/ Number(RowsIn(e, k, memo.moment), y) <= memo.done[k]
    BY <1>1, <1>4
  <2> QED
    BY <1>3, <1>5, <2>1 DEF BehindDelivered
<1>7. BehindDelivered(lk, box, next, k, d)
  BY <1>2, <1>3, <1>6, BehindBefore
<1>8. \A j \in 1..3 : BehindDelivered(lk, box, next, j, d)
  <2> SUFFICES ASSUME NEW j \in 1..3, j # k PROVE BehindDelivered(lk, box, next, j, d)
    BY <1>7
  <2>1. BehindDelivered(lk, box, memo, j, d)
    BY DEF MemoSound
  <2> QED
    BY <1>2, <2>1 DEF BehindDelivered
<1>9. MemoSound(lk, box, next, d)
  BY <1>2, <1>8 DEF MemoSound
<1>10. CursorSound(lk, box, next, k, batches, d)
  BY <1>2, <1>3, <1>6 DEF CursorSound
<1>11. \A j \in 1..3 : AllDelivered(lk, box, memo, j, d) => AllDelivered(lk, box, next, j, d)
  BY <1>2 DEF AllDelivered
<1> QED
  BY <1>2, <1>9, <1>10, <1>11 DEF next

-----------------------------------------------------------------------------
(* What the collector adds meanwhile.                                      *)

\* A card of a page, at the page's time, keeps the cards there were.
LEMMA CardGrows ==
  ASSUME NEW d \in Store, Keyed(d), NEW r \in Runs, NEW c \in Catalogs, NEW p \in 1..PageLimit,
         NEW t \in Times, NEW l \in Listings,
         \A f \in d.found : <<f.run, f.catalog, f.page>> = <<r, c, p>> => f.at = t
  PROVE  LET e == RecordDiscovery(d, r, c, p, t, l)
         IN e \in Store /\ Keyed(e) /\ Follows(d, e)
<1> DEFINE e == RecordDiscovery(d, r, c, p, t, l)
           card == [run |-> r, listing |-> l, catalog |-> c, page |-> p, at |-> t]
           Cards == [run : Runs, listing : Listings, catalog : Catalogs, page : 1..PageLimit,
                     at : Times]
<1>1. /\ e \in Store /\ e.observed = d.observed /\ e.probes = d.probes
      /\ e.found = {x \in d.found : <<x.run, x.listing, x.catalog, x.page>> # <<r, l, c, p>>}
                     \cup {card}
  BY DiscoveryWritten DEF Store, Elsewhere
<1> HIDE DEF e
<1>2. d.found \subseteq Cards /\ card \in Cards
  BY DEF Store, StoreOf
<1>3. \A f \in d.found : <<f.run, f.listing, f.catalog, f.page>> = <<r, l, c, p>> => f = card
  BY <1>2
<1>4. e.found = d.found \cup {card}
  BY <1>1, <1>3
<1>5. \A f, q \in e.found :
        <<f.run, f.catalog, f.page, f.listing>> = <<q.run, q.catalog, q.page, q.listing>> => f = q
  BY <1>3, <1>4 DEF Keyed
<1>6. Keyed(e)
  BY <1>1, <1>5 DEF Keyed
<1>7. Follows(d, e)
  <2>1. Follows(d, d)
    BY FollowsOn
  <2> QED
    BY <1>1, <1>4, <2>1 DEF Follows
<1> QED
  BY <1>1, <1>6, <1>7 DEF e

\* An observation is a new one, or counts the row of its run up, and perhaps dates it back.
LEMMA SightingGrows ==
  ASSUME NEW d \in Store, Keyed(d), NEW r \in Runs, NEW c \in Catalogs, NEW t \in Times,
         NEW l \in Listings
  PROVE  LET e == RecordObservation(d, r, c, t, l)
         IN e \in Store /\ Keyed(e) /\ Follows(d, e)
<1> DEFINE e == RecordObservation(d, r, c, t, l)
           old == {x \in d.observed : x.run = r /\ x.listing = l}
           new == [run |-> r, listing |-> l, at |-> t, catalog |-> c, sightings |-> 1]
           rows == IF old = {} THEN {new} ELSE {Sighted(x, c, t) : x \in old}
<1>1. /\ e \in Store /\ e.found = d.found /\ e.probes = d.probes
      /\ e.observed = (d.observed \ old) \cup rows
  BY ObservationWritten DEF Store, Elsewhere
<1> HIDE DEF e
<1>2. d.observed \subseteq SightingRows
  BY SightingsTyped
<1>3. ASSUME NEW x \in old
      PROVE  /\ Sighted(x, c, t).run = r /\ Sighted(x, c, t).listing = l
             /\ GoneOn(x, Sighted(x, c, t))
  <2> DEFINE s == Sighted(x, c, t)
  <2>1. x \in SightingRows /\ x.run = r /\ x.listing = l
    BY <1>2
  <2>2. /\ s \in SightingRows /\ s.run = x.run /\ s.listing = x.listing
        /\ s.sightings = x.sightings + 1 /\ s.at = (IF t < x.at THEN t ELSE x.at)
        /\ s.catalog = (IF t < x.at THEN c ELSE x.catalog)
    BY <2>1, SightedRow DEF SightingRows
  <2>3. x.at \in Nat /\ x.sightings \in Nat
    BY <2>1, SightingsTyped
  <2> HIDE DEF s
  <2>4. t < x.at => GoneOn(x, s)
    BY <2>2, <2>3 DEF GoneOn
  <2>5. ~(t < x.at) => SeenSince(x, s)
    BY <2>1, <2>2, <2>3, SeenMeans
  <2>6. GoneOn(x, s)
    BY <2>2, <2>3, <2>4, <2>5 DEF GoneOn
  <2> QED
    BY <2>1, <2>2, <2>6 DEF s
<1>4. \A o \in rows : o.run = r /\ o.listing = l
  <2> HIDE DEF old
  <2> QED
    BY <1>3
<1>5. \A o, p \in rows : o = p
  <2>1. \A x, y \in old : x = y
    BY DEF Keyed
  <2> HIDE DEF old, new
  <2> QED
    BY <2>1
<1>6. \A o, p \in e.observed : <<o.run, o.listing>> = <<p.run, p.listing>> => o = p
  <2>1. \A o, p \in d.observed \ old : <<o.run, o.listing>> = <<p.run, p.listing>> => o = p
    BY DEF Keyed
  <2>2. \A o \in d.observed \ old : ~(o.run = r /\ o.listing = l)
    OBVIOUS
  <2> HIDE DEF rows, old
  <2> QED
    BY <1>1, <1>4, <1>5, <2>1, <2>2
<1>7. Keyed(e)
  BY <1>1, <1>6 DEF Keyed
<1>8. \A o \in d.observed : \E p \in e.observed : GoneOn(o, p)
  <2> SUFFICES ASSUME NEW o \in d.observed PROVE \E p \in e.observed : GoneOn(o, p)
    OBVIOUS
  <2>1. CASE o \in old
    <3> HIDE DEF old
    <3>1. Sighted(o, c, t) \in e.observed
      BY <1>1, <2>1
    <3> QED
      BY <1>3, <2>1, <3>1
  <2>2. CASE o \notin old
    <3>1. o.sightings \in Nat /\ SeenSince(o, o)
      BY <1>2, SightingsTyped, SeenMeans
    <3>2. GoneOn(o, o)
      BY <3>1 DEF GoneOn
    <3> QED
      BY <1>1, <2>2, <3>2
  <2> QED
    BY <2>1, <2>2
<1>9. Follows(d, e)
  BY <1>1, <1>8 DEF Follows
<1> QED
  BY <1>1, <1>7, <1>9 DEF e

\* A run that is begun, or goes on, and a listing's card leave those tables alone.
LEMMA CardOnly ==
  ASSUME NEW d \in Store, Keyed(d), NEW r \in Runs, NEW c \in Catalogs, NEW t \in Times,
         NEW l \in Listings
  PROVE  LET u == UpsertListing(StartRun(d, r), r, c, t, l)
         IN u \in Store /\ Keyed(u) /\ Follows(d, u) /\ u.found = d.found
<1> DEFINE s == StartRun(d, r)
           u == UpsertListing(s, r, c, t, l)
<1>1. /\ s \in Store /\ s.found = d.found /\ s.observed = d.observed /\ s.probes = d.probes
  <2> DEFINE row == [d.runs[r] EXCEPT !.status = "running"]
  <2>1. s = [d EXCEPT !.runs[r] = row]
    BY DEF StartRun
  <2>2. d.runs[r] \in RunRow
    BY DEF Store, StoreOf
  <2>3. row \in RunRow
    BY <2>2 DEF RunRow
  <2> HIDE DEF row, s
  <2> QED
    BY <2>1, <2>3 DEF Store, StoreOf
<1> HIDE DEF s
<1>2. /\ u \in Store /\ u.found = d.found /\ u.observed = d.observed /\ u.probes = d.probes
  BY <1>1, UpsertWritten DEF Store, Elsewhere
<1> HIDE DEF u
<1>3. Follows(d, d)
  BY FollowsOn
<1> QED
  BY <1>2, <1>3 DEF Keyed, Follows, u, s

\* So does a probe.
LEMMA ProbeGrows ==
  ASSUME NEW d \in Store, Keyed(d), NEW t \in Times, NEW l \in Listings,
         \A p \in d.probes : <<p.at, p.listing>> # <<t, l>>
  PROVE  LET e == RecordProbe(d, l, t, "unknown")
         IN e \in Store /\ Keyed(e) /\ Follows(d, e)
<1> DEFINE e == RecordProbe(d, l, t, "unknown")
           row == [listing |-> l, at |-> t, outcome |-> "unknown"]
<1>1. "unknown" \in Outcomes \ {"none"}
  BY DEF Outcomes
<1>2. /\ e \in Store /\ e.found = d.found /\ e.observed = d.observed
      /\ e.probes = d.probes \cup {row}
  BY <1>1 DEF Store, StoreOf, RecordProbe
<1> HIDE DEF e
<1>3. \A p, q \in e.probes : <<p.at, p.listing>> = <<q.at, q.listing>> => p = q
  BY <1>2 DEF Keyed
<1>4. Keyed(e)
  BY <1>2, <1>3 DEF Keyed
<1>5. Follows(d, d)
  BY FollowsOn
<1>6. Follows(d, e)
  BY <1>2, <1>5 DEF Follows
<1> QED
  BY <1>2, <1>4, <1>6 DEF e

\* Whatever the collector adds, the store is one, and follows what it was.
LEMMA GrowKeeps ==
  ASSUME source \in Store, Keyed(source), Grow
  PROVE  source' \in Store /\ Keyed(source') /\ Follows(source, source')
<1>1. PICK l \in Listings, t \in Times :
        \/ \E r \in Runs, c \in Catalogs, p \in 1..PageLimit :
             LET upserted == UpsertListing(StartRun(source, r), r, c, t, l)
                 found == RecordDiscovery(upserted, r, c, p, t, l)
             IN /\ \A f \in source.found : <<f.run, f.catalog, f.page>> = <<r, c, p>> => f.at = t
                /\ source' \in {upserted, found, RecordObservation(found, r, c, t, l)}
        \/ /\ \A p \in source.probes : <<p.at, p.listing>> # <<t, l>>
           /\ source' = RecordProbe(source, l, t, "unknown")
  BY DEF Grow
<1>2. CASE \E r \in Runs, c \in Catalogs, p \in 1..PageLimit :
             LET upserted == UpsertListing(StartRun(source, r), r, c, t, l)
                 found == RecordDiscovery(upserted, r, c, p, t, l)
             IN /\ \A f \in source.found : <<f.run, f.catalog, f.page>> = <<r, c, p>> => f.at = t
                /\ source' \in {upserted, found, RecordObservation(found, r, c, t, l)}
  <2>1. PICK r \in Runs, c \in Catalogs, p \in 1..PageLimit :
             LET upserted == UpsertListing(StartRun(source, r), r, c, t, l)
                 found == RecordDiscovery(upserted, r, c, p, t, l)
             IN /\ \A f \in source.found : <<f.run, f.catalog, f.page>> = <<r, c, p>> => f.at = t
                /\ source' \in {upserted, found, RecordObservation(found, r, c, t, l)}
    BY <1>2
  <2> DEFINE u == UpsertListing(StartRun(source, r), r, c, t, l)
             g == RecordDiscovery(u, r, c, p, t, l)
             o == RecordObservation(g, r, c, t, l)
  <2>2. u \in Store /\ Keyed(u) /\ Follows(source, u) /\ u.found = source.found
    BY CardOnly
  <2> HIDE DEF u
  <2>3. g \in Store /\ Keyed(g) /\ Follows(u, g)
    BY <2>1, <2>2, CardGrows
  <2> HIDE DEF g
  <2>4. o \in Store /\ Keyed(o) /\ Follows(g, o)
    BY <2>3, SightingGrows
  <2> HIDE DEF o
  <2>5. Follows(source, g) /\ Follows(source, o)
    BY <2>2, <2>3, <2>4, FollowsOn
  <2>6. source' \in {u, g, o}
    BY <2>1 DEF u, g, o
  <2> QED
    BY <2>2, <2>3, <2>4, <2>5, <2>6
<1> QED
  BY <1>1, <1>2, ProbeGrows

-----------------------------------------------------------------------------
(* The inductive invariant of the backfill.                                *)

\* A running job has a sound checkpoint, the one in the file once PostgreSQL is filled; its cursor
\* is sound, and the datasets before are delivered.
JobSound(stage, memo, k, batches, lk, box, kept, d) ==
  /\ stage \in {"none", "postgres", "batch"} /\ k \in 1..3
  /\ stage # "none" => MemoSound(lk, box, memo, d) /\ ~memo.completed
  /\ stage = "postgres" => (memo.postgres => memo = kept)
  /\ stage = "batch" => /\ memo = kept
                        /\ CursorSound(lk, box, memo, k, batches, d)
                        /\ \A j \in 1..3 : j < k => AllDelivered(lk, box, memo, j, d)

\* A batch that is published is in the outbox.
Handed == HasMore /\ job.put = 4 => InHand \in owed

\* The backfill is sound: the store has its keys, the file and the job tell the truth of it.
BackfillIInv ==
  /\ source \in Store /\ Keyed(source)
  /\ PutSound /\ Handed
  /\ MemoSound(vault, owed, file, source)
  /\ JobSound(job.stage, job.memo, job.dataset, job.batches, vault, owed, file, source)

\* A job that puts keeps its other fields.
LEMMA JobFields ==
  ASSUME NEW j, IsJob(j), NEW n
  PROVE  /\ [j EXCEPT !.put = n].stage = j.stage /\ [j EXCEPT !.put = n].memo = j.memo
         /\ [j EXCEPT !.put = n].dataset = j.dataset /\ [j EXCEPT !.put = n].batches = j.batches
         /\ [j EXCEPT !.put = n].put = n
<1>1. PICK S, M, D, B : j \in [stage : S, memo : M, dataset : D, batches : B, put : 0..4]
  BY DEF IsJob
<1> QED
  BY <1>1

\* A job that goes to a dataset.
LEMMA OpenedFields ==
  ASSUME NEW j, IsJob(j), NEW k
  PROVE  /\ Opened(j, k).stage = "batch" /\ Opened(j, k).memo = j.memo
         /\ Opened(j, k).dataset = k /\ Opened(j, k).put = 0
         /\ Opened(j, k).batches = BatchesOf(source, Datasets[k], j.memo.moment)
<1>1. PICK S, M, D, B : j \in [stage : S, memo : M, dataset : D, batches : B, put : 0..4]
  BY DEF IsJob
<1> DEFINE next == BatchesOf(source, Datasets[k], j.memo.moment)
           a == [j EXCEPT !.stage = "batch"]
           b == [a EXCEPT !.dataset = k]
           c == [b EXCEPT !.put = 0]
           o == [c EXCEPT !.batches = next]
<1>2. Opened(j, k) = o
  BY DEF Opened
<1> HIDE DEF next
<1>3. /\ a \in [stage : {"batch"}, memo : M, dataset : D, batches : B, put : 0..4]
      /\ a.memo = j.memo
  BY <1>1
<1>4. /\ b \in [stage : {"batch"}, memo : M, dataset : {k}, batches : B, put : 0..4]
      /\ b.memo = j.memo
  <2> HIDE DEF a
  <2> QED
    BY <1>3
<1>5. /\ c \in [stage : {"batch"}, memo : M, dataset : {k}, batches : B, put : {0}]
      /\ c.memo = j.memo
  <2> HIDE DEF b
  <2> QED
    BY <1>4
<1>6. /\ o \in [stage : {"batch"}, memo : M, dataset : {k}, batches : {next}, put : {0}]
      /\ o.memo = j.memo
  <2> HIDE DEF c
  <2> QED
    BY <1>5
<1> HIDE DEF o
<1>7. o.stage = "batch" /\ o.dataset = k /\ o.put = 0 /\ o.batches = next
  BY <1>6
<1> QED
  BY <1>2, <1>6, <1>7 DEF next

\* A job that begins, and none.
LEMMA BegunFields ==
  ASSUME NEW memo
  PROVE  LET begun == [NoJob EXCEPT !.stage = "postgres", !.memo = memo]
         IN /\ begun.stage = "postgres" /\ begun.memo = memo /\ begun.dataset = 1 /\ begun.put = 0
            /\ NoJob.stage = "none" /\ NoJob.dataset = 1 /\ NoJob.put = 0
<1>1. /\ NoJob.stage = "none" /\ NoJob.dataset = 1 /\ NoJob.put = 0
      /\ NoJob \in [stage : {"none"}, memo : {NoFile}, dataset : {1}, batches : {<<>>}, put : {0}]
  BY DEF NoJob
<1> DEFINE a == [NoJob EXCEPT !.stage = "postgres"]
           b == [a EXCEPT !.memo = memo]
<1>2. a \in [stage : {"postgres"}, memo : {NoFile}, dataset : {1}, batches : {<<>>}, put : {0}]
  BY <1>1
<1>3. b \in [stage : {"postgres"}, memo : {memo}, dataset : {1}, batches : {<<>>}, put : {0}]
  <2> HIDE DEF a
  <2> QED
    BY <1>2
<1>4. [NoJob EXCEPT !.stage = "postgres", !.memo = memo] = b
  OBVIOUS
<1> HIDE DEF b
<1>5. b.stage = "postgres" /\ b.memo = memo /\ b.dataset = 1 /\ b.put = 0
  BY <1>3
<1> QED
  BY <1>1, <1>4, <1>5

\* No job is sound.
LEMMA NoneSound ==
  ASSUME NEW lk, NEW box, NEW kept, NEW d
  PROVE  JobSound(NoJob.stage, NoJob.memo, NoJob.dataset, NoJob.batches, lk, box, kept, d)
BY BegunFields DEF JobSound

\* A sound job stays sound while the store grows and more is delivered.
LEMMA JobStays ==
  ASSUME NEW lk, NEW box, NEW lk2, NEW box2, lk \subseteq lk2, box \subseteq box2, NEW stage,
         NEW memo, NEW k, NEW batches, NEW kept, NEW d \in Store, NEW e \in Store,
         Keyed(d), Keyed(e), Follows(d, e),
         JobSound(stage, memo, k, batches, lk, box, kept, d)
  PROVE  JobSound(stage, memo, k, batches, lk2, box2, kept, e)
<1>1. stage # "none" => MemoSound(lk2, box2, memo, e)
  BY MemoStays DEF JobSound
<1>2. ASSUME stage = "batch"
      PROVE  /\ CursorSound(lk2, box2, memo, k, batches, e)
             /\ \A j \in 1..3 : j < k => AllDelivered(lk2, box2, memo, j, e)
  <2>1. /\ memo \in Memos /\ Follows(memo.since, d) /\ CursorSound(lk, box, memo, k, batches, d)
        /\ \A j \in 1..3 : j < k => AllDelivered(lk, box, memo, j, d)
    BY <1>2 DEF JobSound, MemoSound
  <2>2. CursorSound(lk2, box2, memo, k, batches, e)
    BY <2>1, CursorStays
  <2>3. \A j \in 1..3 : j < k => AllDelivered(lk2, box2, memo, j, e)
    BY <2>1, AllStay
  <2> QED
    BY <2>2, <2>3
<1> QED
  BY <1>1, <1>2 DEF JobSound

\* A job that has nothing of its batch in the outbox yet has none to show there.
LEMMA NothingHanded ==
  ASSUME job'.put # 4
  PROVE  Handed'
BY DEF Handed

\* Steps of the backfill keep what its job counts as put.
LEMMA PutSoundKept ==
  ASSUME PutSound, StartAfresh \/ Resume \/ FillPostgres \/ PutNext \/ Publish \/ Checkpoint
                     \/ NextDataset \/ Stop \/ Grow
  PROVE  PutSound' /\ vault \subseteq vault'
BY PutSoundStep, LakeGrows DEF BackfillNext

\* A backfill begins, or goes on from the file.
LEMMA BeginKeeps == BackfillIInv /\ (StartAfresh \/ Resume) => BackfillIInv'
<1> SUFFICES ASSUME BackfillIInv, StartAfresh \/ Resume PROVE BackfillIInv'
  OBVIOUS
<1>1. /\ source' = source /\ vault' = vault /\ owed' = owed /\ file' = file
      /\ PutSound' /\ source \in Store /\ Keyed(source) /\ MemoSound(vault, owed, file, source)
  BY PutSoundKept DEF BackfillIInv, StartAfresh, Resume
<1>2. PICK memo : /\ Begin(memo) /\ MemoSound(vault, owed, memo, source) /\ ~memo.completed
                  /\ memo.postgres => memo = file
  <2>1. CASE StartAfresh
    <3>1. PICK moment \in Moments : Begin(Fresh(moment, source))
      BY <2>1 DEF StartAfresh
    <3>2. moment \in Nat /\ Follows(source, source)
      BY <1>1, BackfillAssumption, FollowsOn
    <3>3. /\ MemoSound(vault, owed, Fresh(moment, source), source)
          /\ Fresh(moment, source).completed = FALSE /\ Fresh(moment, source).postgres = FALSE
      BY <1>1, <3>2, FreshSound
    <3> QED
      BY <3>1, <3>3
  <2>2. CASE Resume
    BY <1>1, <2>2 DEF Resume
  <2> QED
    BY <2>1, <2>2
<1>3. /\ job'.stage = "postgres" /\ job'.memo = memo /\ job'.dataset = 1 /\ job'.put = 0
  BY <1>2, BegunFields DEF Begin
<1>4. JobSound(job'.stage, job'.memo, job'.dataset, job'.batches, vault, owed, file, source)
  BY <1>2, <1>3 DEF JobSound
<1> QED
  BY <1>1, <1>3, <1>4, NothingHanded DEF BackfillIInv

\* PostgreSQL is filled, and the first cursor opened.
LEMMA FillPostgresKeeps == BackfillIInv /\ FillPostgres => BackfillIInv'
<1> SUFFICES ASSUME BackfillIInv, FillPostgres PROVE BackfillIInv'
  OBVIOUS
<1> DEFINE memo == [job.memo EXCEPT !.postgres = TRUE]
           filled == [job EXCEPT !.memo = memo]
<1>1. /\ source' = source /\ vault' = vault /\ owed' = owed
      /\ file' = (IF job.memo.postgres THEN file ELSE filled.memo)
      /\ job' = Opened(filled, 1)
      /\ PutSound' /\ source \in Store /\ Keyed(source) /\ IsJob(job)
      /\ job.stage = "postgres"
  BY PutSoundKept DEF BackfillIInv, FillPostgres, PutSound
<1>2. /\ job.memo \in Memos /\ MemoSound(vault, owed, job.memo, source) /\ ~job.memo.completed
      /\ job.memo.postgres => job.memo = file
  BY <1>1 DEF BackfillIInv, JobSound, MemoSound
<1>3. IsJob(filled) /\ filled.memo = memo
  <2> HIDE DEF memo
  <2>1. IsJob(filled)
    BY <1>1, JobsChange
  <2>2. filled.memo = memo
    BY <1>1 DEF IsJob
  <2> QED
    BY <2>1, <2>2
<1>4. /\ memo \in Memos /\ memo.since = job.memo.since /\ memo.moment = job.memo.moment
      /\ memo.done = job.memo.done /\ memo.completed = job.memo.completed
      /\ job.memo.postgres => memo = job.memo
  BY <1>2 DEF Memos
<1> HIDE DEF memo, filled
<1>5. MemoSound(vault, owed, memo, source) /\ ~memo.completed
  BY <1>2, <1>4 DEF MemoSound, BehindDelivered, AllDelivered
<1>6. file' = memo
  BY <1>1, <1>2, <1>3, <1>4
<1>7. /\ job'.stage = "batch" /\ job'.memo = memo /\ job'.dataset = 1 /\ job'.put = 0
      /\ job'.batches = BatchesOf(source, Datasets[1], memo.moment)
  BY <1>1, <1>3, OpenedFields
<1>8. CursorSound(vault, owed, memo, 1, BatchesOf(source, Datasets[1], memo.moment), source)
  BY <1>1, <1>5, OpenedSound
<1>9. JobSound(job'.stage, job'.memo, job'.dataset, job'.batches, vault, owed, memo, source)
  BY <1>5, <1>7, <1>8 DEF JobSound
<1> QED
  BY <1>1, <1>5, <1>6, <1>7, <1>9, NothingHanded DEF BackfillIInv

\* An object is put, or refused.
LEMMA PutNextKeeps == BackfillIInv /\ PutNext => BackfillIInv'
<1> SUFFICES ASSUME BackfillIInv, PutNext PROVE BackfillIInv'
  OBVIOUS
<1>1. /\ source' = source /\ owed' = owed /\ file' = file /\ vault \subseteq vault'
      /\ PutSound' /\ source \in Store /\ Keyed(source) /\ IsJob(job) /\ Follows(source, source)
      /\ job.put < 3 /\ job.put \in 0..4
  BY PutSoundKept, FollowsOn DEF BackfillIInv, PutNext, PutSound, IsJob
<1>2. MemoSound(vault', owed, file, source)
  BY <1>1, MemoStays DEF BackfillIInv
<1>3. CASE job' = [job EXCEPT !.put = @ + 1]
  <2>1. job' = [job EXCEPT !.put = job.put + 1]
    BY <1>3
  <2>2. /\ job'.stage = job.stage /\ job'.memo = job.memo /\ job'.dataset = job.dataset
        /\ job'.batches = job.batches /\ job'.put = job.put + 1
    BY <1>1, <2>1, JobFields
  <2>3. JobSound(job.stage, job.memo, job.dataset, job.batches, vault', owed, file, source)
    BY <1>1, JobStays DEF BackfillIInv
  <2>4. job'.put # 4
    BY <1>1, <2>2
  <2> QED
    BY <1>1, <1>2, <2>2, <2>3, <2>4, NothingHanded DEF BackfillIInv
<1>4. CASE job' = NoJob
  <2>1. JobSound(job'.stage, job'.memo, job'.dataset, job'.batches, vault', owed, file, source)
    BY <1>4, NoneSound
  <2>2. job'.put # 4
    BY <1>4, BegunFields
  <2> QED
    BY <1>1, <1>2, <2>1, <2>2, NothingHanded DEF BackfillIInv
<1> QED
  BY <1>3, <1>4 DEF PutNext

\* A batch is published.
LEMMA PublishKeeps == BackfillIInv /\ Publish => BackfillIInv'
<1> SUFFICES ASSUME BackfillIInv, Publish PROVE BackfillIInv'
  OBVIOUS
<1>1. /\ source' = source /\ owed' = owed \cup {InHand} /\ file' = file /\ vault' = vault
      /\ PutSound' /\ source \in Store /\ Keyed(source) /\ IsJob(job) /\ Follows(source, source)
      /\ job' = [job EXCEPT !.put = 4]
  BY PutSoundKept, FollowsOn DEF BackfillIInv, Publish, PutSound
<1>2. MemoSound(vault, owed', file, source)
  BY <1>1, MemoStays DEF BackfillIInv
<1>3. /\ job'.stage = job.stage /\ job'.memo = job.memo /\ job'.dataset = job.dataset
      /\ job'.batches = job.batches
  BY <1>1, JobFields
<1>4. JobSound(job.stage, job.memo, job.dataset, job.batches, vault, owed', file, source)
  BY <1>1, JobStays DEF BackfillIInv
<1>5. InHand' = InHand
  BY <1>3 DEF InHand, Behind
<1>6. Handed'
  BY <1>1, <1>5 DEF Handed
<1> QED
  BY <1>1, <1>2, <1>3, <1>4, <1>6 DEF BackfillIInv

\* A batch is counted.
LEMMA CheckpointKeeps == BackfillIInv /\ Checkpoint => BackfillIInv'
<1> SUFFICES ASSUME BackfillIInv, Checkpoint PROVE BackfillIInv'
  OBVIOUS
<1> DEFINE k == job.dataset
           memo == CountedOn(job.memo, k)
           freed == [job EXCEPT !.put = 0]
           counted == [freed EXCEPT !.memo = memo]
<1>1. /\ source' = source /\ owed' = owed /\ vault' = vault
      /\ job' = counted /\ file' = counted.memo
      /\ PutSound' /\ source \in Store /\ Keyed(source) /\ IsJob(job)
      /\ HasMore /\ job.put = (IF Published THEN 4 ELSE 3)
  BY PutSoundKept DEF BackfillIInv, Checkpoint, PutSound, CountedOn
<1>2. /\ job.stage = "batch" /\ job.memo.done[k] < Len(job.batches)
      /\ InHand = job.batches[job.memo.done[k] + 1]
  BY <1>1 DEF HasMore, InHand, Behind
<1>3. /\ job.memo = file /\ k \in 1..3
      /\ MemoSound(vault, owed, job.memo, source) /\ ~job.memo.completed
      /\ CursorSound(vault, owed, job.memo, k, job.batches, source)
      /\ \A j \in 1..3 : j < k => AllDelivered(vault, owed, job.memo, j, source)
  BY <1>2 DEF BackfillIInv, JobSound
<1>4. IF k = 2 THEN RowsObject(InHand) \in vault ELSE InHand \in owed
  <2>1. CASE k = 2
    <3>1. ~Published
      BY <2>1 DEF Published, Datasets
    <3>2. Objects(InHand)[2] \in vault
      BY <1>1, <3>1 DEF BackfillIInv, PutSound
    <3>3. Objects(InHand)[2] = RowsObject(InHand)
      BY DEF Objects
    <3> QED
      BY <2>1, <3>2, <3>3
  <2>2. CASE k # 2
    <3>1. k = 1 \/ k = 3
      BY <1>3, <2>2
    <3>2. Published
      BY <3>1 DEF Published, Datasets
    <3> QED
      BY <1>1, <2>2, <3>2 DEF BackfillIInv, Handed
  <2> QED
    BY <2>1, <2>2
<1>5. /\ counted.stage = job.stage /\ counted.memo = memo /\ counted.dataset = k
      /\ counted.batches = job.batches /\ counted.put = 0
  <2>1. PICK S, M, D, B : job \in [stage : S, memo : M, dataset : D, batches : B, put : 0..4]
    BY <1>1 DEF IsJob
  <2>2. /\ freed \in [stage : S, memo : M, dataset : D, batches : B, put : 0..4]
        /\ freed.stage = job.stage /\ freed.dataset = k /\ freed.batches = job.batches /\ freed.put = 0
    BY <2>1
  <2> HIDE DEF freed, memo, k
  <2> QED
    BY <2>2
<1> HIDE DEF memo, counted, k
<1>6. /\ MemoSound(vault, owed, memo, source) /\ ~memo.completed
      /\ CursorSound(vault, owed, memo, k, job.batches, source)
      /\ \A j \in 1..3 : AllDelivered(vault, owed, job.memo, j, source)
                           => AllDelivered(vault, owed, memo, j, source)
  BY <1>1, <1>2, <1>3, <1>4, CountedSound DEF memo
<1>7. JobSound(job'.stage, job'.memo, job'.dataset, job'.batches, vault, owed, memo, source)
  BY <1>1, <1>2, <1>3, <1>5, <1>6 DEF JobSound
<1> QED
  BY <1>1, <1>5, <1>6, <1>7, NothingHanded DEF BackfillIInv

\* A cursor is at its end: the next dataset, or the end.
LEMMA NextDatasetKeeps == BackfillIInv /\ NextDataset => BackfillIInv'
<1> SUFFICES ASSUME BackfillIInv, NextDataset PROVE BackfillIInv'
  OBVIOUS
<1> DEFINE k == job.dataset
<1>1. /\ source' = source /\ owed' = owed /\ vault' = vault
      /\ PutSound' /\ source \in Store /\ Keyed(source) /\ IsJob(job)
      /\ job.stage = "batch" /\ ~(job.memo.done[k] < Len(job.batches))
      /\ Len(Datasets) = 3
  BY PutSoundKept DEF BackfillIInv, NextDataset, PutSound, HasMore, Behind, Datasets
<1>2. /\ job.memo = file /\ k \in 1..3 /\ job.memo \in Memos
      /\ MemoSound(vault, owed, job.memo, source) /\ ~job.memo.completed
      /\ CursorSound(vault, owed, job.memo, k, job.batches, source)
      /\ \A j \in 1..3 : j < k => AllDelivered(vault, owed, job.memo, j, source)
  BY <1>1 DEF BackfillIInv, JobSound, MemoSound
<1>3. AllDelivered(vault, owed, job.memo, k, source)
  BY <1>1, <1>2, AtEnd
<1>4. \A j \in 1..3 : j <= k => AllDelivered(vault, owed, job.memo, j, source)
  <2> SUFFICES ASSUME NEW j \in 1..3, j <= k PROVE AllDelivered(vault, owed, job.memo, j, source)
    OBVIOUS
  <2>1. j < k \/ j = k
    BY <1>2
  <2> QED
    BY <1>2, <1>3, <2>1
<1> DEFINE i == k + 1
<1>5. CASE k < 3 /\ job' = Opened(job, i) /\ file' = file
  <2>1. i \in 1..3 /\ \A j \in 1..3 : j < i => j <= k
    BY <1>2, <1>5
  <2> HIDE DEF i
  <2>2. /\ job'.stage = "batch" /\ job'.memo = job.memo /\ job'.dataset = i /\ job'.put = 0
        /\ job'.batches = BatchesOf(source, Datasets[i], job.memo.moment)
    BY <1>1, <1>5, OpenedFields
  <2>3. CursorSound(vault, owed, job.memo, i, BatchesOf(source, Datasets[i], job.memo.moment), source)
    BY <1>1, <1>2, <2>1, OpenedSound
  <2>4. \A j \in 1..3 : j < i => AllDelivered(vault, owed, job.memo, j, source)
    BY <1>4, <2>1
  <2>5. JobSound(job'.stage, job'.memo, job'.dataset, job'.batches, vault, owed, file, source)
    BY <1>2, <2>1, <2>2, <2>3, <2>4 DEF JobSound
  <2> QED
    BY <1>1, <1>5, <2>2, <2>5, NothingHanded DEF BackfillIInv
<1>6. CASE k = 3 /\ job' = NoJob /\ file' = [job.memo EXCEPT !.completed = TRUE]
  <2> DEFINE memo == [job.memo EXCEPT !.completed = TRUE]
  <2>1. /\ memo \in Memos /\ memo.since = job.memo.since /\ memo.moment = job.memo.moment
        /\ memo.done = job.memo.done
    BY <1>2 DEF Memos
  <2> HIDE DEF memo
  <2>2. \A j \in 1..3 : AllDelivered(vault, owed, memo, j, source)
    <3>1. \A j \in 1..3 : AllDelivered(vault, owed, job.memo, j, source)
      BY <1>4, <1>6
    <3> QED
      BY <2>1, <3>1 DEF AllDelivered
  <2>3. MemoSound(vault, owed, memo, source)
    BY <1>2, <2>1, <2>2 DEF MemoSound, BehindDelivered
  <2>4. JobSound(job'.stage, job'.memo, job'.dataset, job'.batches, vault, owed, memo, source)
    BY <1>6, NoneSound
  <2>5. file' = memo
    BY <1>6 DEF memo
  <2>6. job'.put # 4
    BY <1>6, BegunFields
  <2> QED
    BY <1>1, <2>3, <2>4, <2>5, <2>6, NothingHanded DEF BackfillIInv
<1> QED
  BY <1>1, <1>5, <1>6 DEF NextDataset

\* The process dies.
LEMMA StopKeeps == BackfillIInv /\ Stop => BackfillIInv'
<1> SUFFICES ASSUME BackfillIInv, Stop PROVE BackfillIInv'
  OBVIOUS
<1>1. /\ source' = source /\ vault' = vault /\ owed' = owed /\ file' = file /\ job' = NoJob
      /\ PutSound'
  BY PutSoundKept DEF BackfillIInv, Stop
<1>2. JobSound(job'.stage, job'.memo, job'.dataset, job'.batches, vault, owed, file, source)
  BY <1>1, NoneSound
<1>3. job'.put # 4
  BY <1>1, BegunFields
<1> QED
  BY <1>1, <1>2, <1>3, NothingHanded DEF BackfillIInv

\* The collector adds rows.
LEMMA GrowthKeeps == BackfillIInv /\ Grow => BackfillIInv'
<1> SUFFICES ASSUME BackfillIInv, Grow PROVE BackfillIInv'
  OBVIOUS
<1>1. /\ vault' = vault /\ owed' = owed /\ file' = file /\ job' = job /\ PutSound'
      /\ source \in Store /\ Keyed(source)
      /\ source' \in Store /\ Keyed(source') /\ Follows(source, source')
  BY PutSoundKept, GrowKeeps DEF BackfillIInv, Grow
<1>2. MemoSound(vault, owed, file, source')
  BY <1>1, MemoStays DEF BackfillIInv
<1>3. JobSound(job.stage, job.memo, job.dataset, job.batches, vault, owed, file, source')
  BY <1>1, JobStays DEF BackfillIInv
<1>4. Handed'
  BY <1>1 DEF BackfillIInv, Handed, HasMore, InHand, Behind
<1> QED
  BY <1>1, <1>2, <1>3, <1>4 DEF BackfillIInv

\* The backfill starts sound.
LEMMA BackfillStarts == BackfillInit => BackfillIInv
<1> SUFFICES ASSUME BackfillInit PROVE BackfillIInv
  OBVIOUS
<1>1. /\ source \in Store /\ Keyed(source) /\ file = NoFile /\ job = NoJob
  BY BackfillAssumption DEF BackfillInit
<1>2. EmptyStore \in Store
  BY DEF EmptyStore, Store, StoreOf, NewRun, RunRow
<1>3. Keyed(EmptyStore) /\ Follows(EmptyStore, source)
  BY DEF EmptyStore, Keyed, Follows
<1>4. MemoSound(vault, owed, file, source)
  BY <1>1, <1>2, <1>3, FreshSound DEF NoFile
<1>5. JobSound(job.stage, job.memo, job.dataset, job.batches, vault, owed, file, source)
  BY <1>1, NoneSound
<1>6. PutSound /\ Handed
  <2>1. IsJob(job) /\ job.put = 0
    BY <1>1, JobsMade
  <2> QED
    BY <2>1 DEF PutSound, Handed
<1> QED
  BY <1>1, <1>4, <1>5, <1>6 DEF BackfillIInv

\* Every step keeps it sound.
LEMMA BackfillGoesOn == BackfillIInv /\ [BackfillNext]_backfillVars => BackfillIInv'
<1>1. CASE UNCHANGED backfillVars
  BY <1>1 DEF backfillVars, BackfillIInv, PutSound, Handed, HasMore, InHand, Behind
<1> QED
  BY <1>1, BeginKeeps, FillPostgresKeeps, PutNextKeeps, PublishKeeps, CheckpointKeeps,
     NextDatasetKeeps, StopKeeps, GrowthKeeps DEF BackfillNext

-----------------------------------------------------------------------------
(* The backfill: the theorems.                                             *)

\* What the checkpoint file says is behind has been delivered, in the numbering of the store as it is
\* by then, of all rows that have kept their key: through deaths, resumed runs and a collector that
\* goes on adding rows anywhere among them (run in full_backfill.py, over its three _iter_ queries).
THEOREM BackfillInvariant == BackfillSpec => []BackfillIInv
BY BackfillStarts, BackfillGoesOn, PTL DEF BackfillSpec

\* A checkpoint that says completed is about everything the store had when it was begun: every page
\* and probe is in a batch of the outbox and every observation in one of the lake, but for those that
\* were dated back meanwhile, whenever the process died and wherever the collector added or counted up
\* rows (run in full_backfill.py: _write_checkpoint after each batch, and batch_index <
\* completed_batches).
THEOREM CompletedIsWhole == BackfillSpec => []BackfillComplete
<1>1. BackfillIInv => BackfillComplete
  <2> SUFFICES ASSUME BackfillIInv, file.completed PROVE BackfillComplete
    BY DEF BackfillComplete
  <2> DEFINE d == file.since
             m == file.moment
  <2>1. /\ \A k \in 1..3 : AllDelivered(vault, owed, file, k, source)
        /\ d \in Store /\ source \in Store /\ Follows(d, source)
    BY DEF BackfillIInv, MemoSound, Memos
  <2>2. \A k \in 1..3 : \A x \in RowsIn(d, k, m), y \in RowsIn(source, k, m) :
          y.order = x.order => Delivered(vault, owed, k, x.holds[1])
    BY <2>1 DEF AllDelivered
  <2>3. \A k \in 1..3 : k # 2 => \A x \in RowsIn(d, k, m) : Delivered(vault, owed, k, x.holds[1])
    <3> SUFFICES ASSUME NEW k \in 1..3, k # 2, NEW x \in RowsIn(d, k, m)
                 PROVE  Delivered(vault, owed, k, x.holds[1])
      OBVIOUS
    <3> HIDE DEF d, m
    <3>1. \E y \in RowsIn(source, k, m) : y.order = x.order
      BY <2>1, RowsFollow
    <3> QED
      BY <2>2, <3>1
  <2> HIDE DEF d, m
  <2>4. /\ \A x \in DiscoveryRows(d) : Delivered(vault, owed, 1, x.holds[1])
        /\ \A x \in ProbeRows(d, m) : Delivered(vault, owed, 3, x.holds[1])
    BY <2>3, RowsOfEach
  <2>5. \A f \in d.found : \E b \in owed : \E row \in b.rows : row[1] = f
    <3> SUFFICES ASSUME NEW f \in d.found PROVE \E b \in owed : \E row \in b.rows : row[1] = f
      OBVIOUS
    <3>1. PICK x \in DiscoveryRows(d) : x.holds[1] = f
      BY DiscoveryRead DEF OfCard
    <3> QED
      BY <2>4, <3>1 DEF Delivered
  <2>6. \A p \in d.probes : \E b \in owed : \E row \in b.rows : row[1] = p
    <3> SUFFICES ASSUME NEW p \in d.probes PROVE \E b \in owed : \E row \in b.rows : row[1] = p
      OBVIOUS
    <3>1. PICK x \in ProbeRows(d, m) : x.holds[1] = p
      BY ProbeRead DEF OfProbe
    <3> QED
      BY <2>4, <3>1 DEF Delivered
  <2>7. \A o \in d.observed :
          \/ DatedBack(o)
          \/ \E x \in vault : /\ x.key[1] = "parquet" /\ x.key[2][1] = "observations"
                              /\ \E row \in x.holds.rows : SeenSince(o, row[1])
    <3> SUFFICES ASSUME NEW o \in d.observed, ~DatedBack(o)
                 PROVE  Delivered(vault, owed, 2, o)
      BY DEF Delivered
    <3>1. PICK p \in source.observed : GoneOn(o, p)
      BY <2>1 DEF Follows
    <3>2. p.run = o.run /\ p.listing = o.listing /\ p.at = o.at
      <4>1. p.run = o.run /\ p.listing = o.listing /\ p.at <= o.at /\ ~(p.at < o.at)
        BY <2>1, <3>1, SightingsTyped, SeenMeans DEF DatedBack
      <4>2. p.at \in Nat /\ o.at \in Nat
        BY <2>1, <3>1, SightingsTyped
      <4> QED
        BY <4>1, <4>2
    <3>3. PICK x \in ObservationRows(d) : OfSighting(x, o)
      BY ObservationRead
    <3>4. PICK y \in ObservationRows(source) : OfSighting(y, p)
      BY <3>1, ObservationRead
    <3>5. y.order = x.order /\ x.holds[1] = o
      BY <3>2, <3>3, <3>4 DEF OfSighting
    <3>6. x \in RowsIn(d, 2, m) /\ y \in RowsIn(source, 2, m)
      BY <3>3, <3>4, RowsOfEach
    <3> QED
      BY <2>2, <3>5, <3>6
  <2> QED
    BY <2>5, <2>6, <2>7 DEF BackfillComplete, d
<1> QED
  BY <1>1, BackfillInvariant, PTL

-----------------------------------------------------------------------------
(* Mutable truth twice: what the collector adds to SQLite.                 *)

\* Runs that began stay begun, listings that were observed stay observed.
Further(d, e) ==
  /\ e \in StoreOf(Nat)
  /\ \A r \in Runs : d.runs[r].status # "none" => e.runs[r].status # "none"
  /\ Observed(d) \subseteq Observed(e)

\* start_run and complete_run.
LEMMA RunFurther ==
  ASSUME NEW d \in StoreOf(Nat), NEW r \in Runs, NEW row \in RunRow, row.status # "none"
  PROVE  /\ Further(d, [d EXCEPT !.runs[r] = row])
         /\ [d EXCEPT !.runs[r] = row].runs[r] = row
<1> DEFINE e == [d EXCEPT !.runs[r] = row]
<1>1. e \in StoreOf(Nat) /\ e.observed = d.observed
  BY DEF StoreOf
<1>2. e.runs = [d.runs EXCEPT ![r] = row]
  BY DEF StoreOf
<1>3. d.runs \in [Runs -> RunRow]
  BY DEF StoreOf
<1> HIDE DEF e
<1>4. \A q \in Runs : e.runs[q] = IF q = r THEN row ELSE d.runs[q]
  BY <1>2, <1>3
<1>5. Further(d, e) /\ e.runs[r] = row
  BY <1>1, <1>4 DEF Further, Observed
<1> QED
  BY <1>5 DEF e

\* A scan of a catalog's page is recorded.
LEMMA ScanFurther ==
  ASSUME NEW d, NEW e \in StoreOf(Nat), Further(d, e), NEW r \in Runs, NEW c \in Catalogs,
         NEW t \in Nat, NEW ok \in BOOLEAN
  PROVE  /\ Further(d, RecordScan(e, r, c, 1, t, ok))
         /\ Observed(RecordScan(e, r, c, 1, t, ok)) = Observed(e)
<1> DEFINE f == RecordScan(e, r, c, 1, t, ok)
<1>1. 1 \in 1..PageLimit
  BY EvidenceAssumption
<1>2. f \in StoreOf(Nat) /\ f.runs = e.runs /\ f.observed = e.observed
  BY <1>1, ScanWritten DEF Elsewhere
<1> HIDE DEF f
<1>3. Further(d, f) /\ Observed(f) = Observed(e)
  BY <1>2 DEF Further, Observed
<1> QED
  BY <1>3 DEF f

\* A probe is recorded.
LEMMA ProbeFurther ==
  ASSUME NEW d \in StoreOf(Nat), NEW l \in Listings, NEW t \in Nat, NEW outcome \in Outcomes \ {"none"}
  PROVE  Further(d, RecordProbe(d, l, t, outcome))
<1> DEFINE f == RecordProbe(d, l, t, outcome)
<1>1. f \in StoreOf(Nat) /\ f.runs = d.runs /\ f.observed = d.observed
  BY DEF StoreOf, RecordProbe
<1> HIDE DEF f
<1>2. Further(d, f)
  BY <1>1 DEF Further, Observed
<1> QED
  BY <1>2 DEF f

\* The three statements of a listing observe it.
LEMMA CardTaken ==
  ASSUME NEW d \in StoreOf(Nat), NEW r \in Runs, NEW c \in Catalogs, NEW t \in Nat,
         NEW l \in Listings
  PROVE  /\ Taken(d, r, c, 1, t, l) \in StoreOf(Nat)
         /\ Taken(d, r, c, 1, t, l).runs = d.runs
         /\ Observed(Taken(d, r, c, 1, t, l)) = Observed(d) \cup {l}
<1> DEFINE u == UpsertListing(d, r, c, t, l)
           f == RecordDiscovery(u, r, c, 1, t, l)
           o == RecordObservation(f, r, c, t, l)
           old == {x \in f.observed : x.run = r /\ x.listing = l}
           new == [run |-> r, listing |-> l, at |-> t, catalog |-> c, sightings |-> 1]
           rows == IF old = {} THEN {new} ELSE {Sighted(x, c, t) : x \in old}
           Kept == [run : Runs, listing : Listings, at : Nat, catalog : Catalogs, sightings : Nat]
<1>1. 1 \in 1..PageLimit
  BY EvidenceAssumption
<1>2. u \in StoreOf(Nat) /\ u.runs = d.runs /\ u.observed = d.observed
  <2>1. Elsewhere(d, u, Nat, "listings")
    BY UpsertWritten
  <2> HIDE DEF u
  <2> QED
    BY <2>1 DEF Elsewhere
<1> HIDE DEF u
<1>3. f \in StoreOf(Nat) /\ f.runs = d.runs /\ f.observed = d.observed
  <2>1. Elsewhere(u, f, Nat, "found")
    BY <1>1, <1>2, DiscoveryWritten
  <2> HIDE DEF f
  <2> QED
    BY <1>2, <2>1 DEF Elsewhere
<1> HIDE DEF f
<1>4. o \in StoreOf(Nat) /\ o.runs = d.runs /\ o.observed = (f.observed \ old) \cup rows
  BY <1>3, ObservationWritten DEF Elsewhere
<1>5. old \subseteq Kept /\ \A x \in old : x.listing = l
  BY <1>3 DEF StoreOf
<1>6. rows # {} /\ \A x \in rows : x.listing = l
  <2>1. CASE old = {}
    <3>1. rows = {new} /\ new.listing = l
      BY <2>1
    <3> HIDE DEF new, rows
    <3> QED
      BY <3>1
  <2>2. CASE old # {}
    <3>1. \A x \in old : Sighted(x, c, t).listing = l
      BY <1>5, SightedRow
    <3> QED
      BY <2>2, <3>1
  <2> QED
    BY <2>1, <2>2
<1>7. \A x \in f.observed : x \in old => x.listing = l
  BY <1>5
<1> HIDE DEF o, old, rows
<1>8. Observed(o) = Observed(d) \cup {l}
  BY <1>3, <1>4, <1>6, <1>7 DEF Observed
<1> QED
  BY <1>4, <1>8 DEF Taken, o, f, u

\* The stores reached with the listings of the subsets of S with at most n members, each from the
\* one below it.
PutsIn(g, d, r, c, t, S, n) ==
  g = [s \in Upto(S, n) |-> IF s = {} THEN d ELSE Taken(g[s \ {Least(s)}], r, c, 1, t, Least(s))]

\* Those of n listings give those of one more.
LEMMA PutsInOneMore ==
  ASSUME NEW S, IsFiniteSet(S), NEW d, NEW r, NEW c, NEW t, NEW n \in Nat, NEW g,
         PutsIn(g, d, r, c, t, S, n)
  PROVE  \E h : PutsIn(h, d, r, c, t, S, n + 1)
<1> DEFINE h == [s \in Upto(S, n + 1) |-> IF Cardinality(s) <= n THEN g[s]
                   ELSE Taken(g[s \ {Least(s)}], r, c, 1, t, Least(s))]
<1>1. ASSUME NEW s \in Upto(S, n + 1)
      PROVE  h[s] = IF s = {} THEN d ELSE Taken(h[s \ {Least(s)}], r, c, 1, t, Least(s))
  <2>1. CASE s = {}
    <3>1. Cardinality(s) = 0
      BY <2>1, FS_EmptySet
    <3>2. s \in Upto(S, n)
      BY <3>1, <2>1 DEF Upto
    <3> QED
      BY <2>1, <3>1, <3>2 DEF PutsIn
  <2>2. CASE s # {}
    <3> DEFINE rest == s \ {Least(s)}
    <3>1. /\ rest \in SUBSET S /\ Cardinality(s) \in Nat /\ Cardinality(rest) = Cardinality(s) - 1
          /\ Cardinality(s) <= n + 1
      BY <2>2, OneFewer DEF Upto
    <3>2. rest \in Upto(S, n + 1) /\ Cardinality(rest) <= n
      BY <3>1 DEF Upto
    <3>3. h[rest] = g[rest]
      BY <3>2
    <3>4. CASE Cardinality(s) <= n
      <4>1. s \in Upto(S, n)
        BY <3>4 DEF Upto
      <4>2. g[s] = Taken(g[rest], r, c, 1, t, Least(s))
        BY <2>2, <4>1 DEF PutsIn
      <4> QED
        BY <2>2, <3>3, <3>4, <4>2
    <3>5. CASE ~(Cardinality(s) <= n)
      BY <2>2, <3>3, <3>5
    <3> QED
      BY <3>4, <3>5
  <2> QED
    BY <2>1, <2>2
<1>2. h = [s \in Upto(S, n + 1) |-> h[s]]
  OBVIOUS
<1> HIDE DEF h
<1>3. PutsIn(h, d, r, c, t, S, n + 1)
  BY <1>1, <1>2 DEF PutsIn
<1> QED
  BY <1>3

\* So there are such stores for any finite page.
LEMMA AllPutIn ==
  ASSUME NEW S, IsFiniteSet(S), NEW d, NEW r, NEW c, NEW t
  PROVE  /\ \E g : PutsIn(g, d, r, c, t, S, Cardinality(S))
         /\ Upto(S, Cardinality(S)) = SUBSET S
<1> DEFINE n == Cardinality(S)
           G == {i \in 0..n : \E g : PutsIn(g, d, r, c, t, S, i)}
<1>1. n \in Nat
  BY FS_CardinalityType
<1>2. 0 \in G
  <2> DEFINE g == [s \in Upto(S, 0) |-> d]
  <2>1. ASSUME NEW s \in Upto(S, 0)
        PROVE  s = {}
    <3>1. IsFiniteSet(s) /\ Cardinality(s) <= 0
      BY <2>1, FS_Subset DEF Upto
    <3> QED
      BY <3>1, FS_CardinalityType, FS_EmptySet
  <2>2. PutsIn(g, d, r, c, t, S, 0)
    BY <2>1 DEF PutsIn
  <2> QED
    BY <1>1, <2>2
<1>3. \A i \in 0..(n - 1) : i \in G => i + 1 \in G
  BY <1>1, PutsInOneMore
<1>4. n \in G
  <2> HIDE DEF G, n
  <2>1. 0..n \subseteq G
    BY <1>1, <1>2, <1>3, Climb
  <2> QED
    BY <1>1, <2>1
<1>5. \A s \in SUBSET S : Cardinality(s) <= n
  BY FS_Subset
<1> QED
  BY <1>4, <1>5 DEF Upto

\* The store after the listings of a page.
PageTaken(d, r, c, t, of) == FoldSet(LAMBDA l, b : Taken(b, r, c, 1, t, l), d, of)

\* It observes them all, and forgets nothing.
LEMMA PageObserves ==
  ASSUME NEW d \in StoreOf(Nat), NEW r \in Runs, NEW c \in Catalogs, NEW t \in Nat,
         NEW of \in SUBSET Listings
  PROVE  /\ Further(d, PageTaken(d, r, c, t, of))
         /\ Observed(PageTaken(d, r, c, t, of)) = Observed(d) \cup of
<1> DEFINE n == Cardinality(of)
           P(g) == g = [s \in SUBSET of |-> IF s = {} THEN d
                          ELSE Taken(g[s \ {Least(s)}], r, c, 1, t, Least(s))]
           g == CHOOSE g : P(g)
           G == {s \in SUBSET of : /\ g[s] \in StoreOf(Nat) /\ g[s].runs = d.runs
                                   /\ Observed(g[s]) = Observed(d) \cup s}
<1>1. IsFiniteSet(of)
  BY EvidenceAssumption, FS_Subset
<1>2. \E h : P(h)
  <2>1. PICK h : PutsIn(h, d, r, c, t, of, n)
    BY <1>1, AllPutIn
  <2>2. Upto(of, n) = SUBSET of
    BY <1>1, AllPutIn
  <2>3. P(h)
    BY <2>1, <2>2 DEF PutsIn
  <2> HIDE DEF P
  <2> QED
    BY <2>3
<1>3. P(g)
  <2> HIDE DEF P
  <2> QED
    BY <1>2
<1>4. g[of] = PageTaken(d, r, c, t, of)
  BY DEF PageTaken, FoldSet, MapThenFoldSet, Least
<1> HIDE DEF g
<1>5. {} \in G
  <2>1. g[{}] = d
    BY <1>3
  <2> QED
    BY <2>1
<1>6. ASSUME NEW s \in SUBSET of, s # {}, s \ {Least(s)} \in G
      PROVE  s \in G
  <2> DEFINE e == g[s \ {Least(s)}]
             f == Taken(e, r, c, 1, t, Least(s))
  <2>1. g[s] = f
    BY <1>3, <1>6
  <2>2. Least(s) \in Listings /\ Least(s) \in s
    BY <1>1, <1>6, OneFewer
  <2>3. /\ e \in StoreOf(Nat) /\ e.runs = d.runs
        /\ Observed(e) = Observed(d) \cup (s \ {Least(s)})
    BY <1>6
  <2> HIDE DEF e
  <2>4. f \in StoreOf(Nat) /\ f.runs = e.runs /\ Observed(f) = Observed(e) \cup {Least(s)}
    BY <2>2, <2>3, CardTaken
  <2> HIDE DEF f
  <2>5. Observed(f) = Observed(d) \cup s
    BY <2>2, <2>3, <2>4
  <2> QED
    BY <2>1, <2>3, <2>4, <2>5
<1>7. of \in G
  <2> HIDE DEF G
  <2>1. SUBSET of \subseteq G
    BY <1>1, <1>5, <1>6, SubsetsClimb
  <2> QED
    BY <2>1
<1> HIDE DEF P
<1> QED
  BY <1>4, <1>7 DEF Further

-----------------------------------------------------------------------------
(* Mutable truth twice: the rows of PostgreSQL.                            *)

\* The tables have a row, if perhaps an empty one, for whatever there may be.
Tables(m) ==
  /\ m = [runs |-> m.runs, catalogs |-> m.catalogs, identity |-> m.identity,
          summary |-> m.summary, current |-> m.current, cycles |-> m.cycles]
  /\ m.runs = [r \in Runs |-> m.runs[r]]
  /\ m.catalogs = [c \in Catalogs |-> m.catalogs[c]]
  /\ m.identity = [l \in Listings |-> m.identity[l]]
  /\ m.summary = [l \in Listings |-> m.summary[l]]
  /\ m.current = [l \in Listings |-> m.current[l]]

\* A row of SQLite stands behind each row that is not empty, unless cycles are begun in PostgreSQL
\* alone.
Backed(m, ledger, alone) ==
  /\ \A r \in Runs : m.runs[r] # NoRun => r \in Begun(ledger)
  /\ \A c \in Catalogs : m.catalogs[c] # NoCatalog => c \in SyncedOnes(ledger)
  /\ \A l \in Listings : m.identity[l] # NoIdentity => l \in Observed(ledger.store)
  /\ \A l \in Listings : m.summary[l] # NoSummary => l \in Observed(ledger.store)
  /\ \A l \in Listings : m.current[l].at # 0 => l \in Observed(ledger.store)
  /\ ~alone => m.cycles \subseteq ledger.cycles

\* The row of a run.
LEMMA RunRowWritten ==
  ASSUME NEW m, Tables(m), NEW ledger, NEW alone, NEW r \in Begun(ledger), NEW row
  PROVE  /\ Tables(WithRun(m, r, row))
         /\ Backed(m, ledger, alone) => Backed(WithRun(m, r, row), ledger, alone)
<1> DEFINE e == WithRun(m, r, row)
<1>1. r \in Runs
  BY DEF Begun
<1>2. e = [m EXCEPT !.runs = [m.runs EXCEPT ![r] = row]]
  BY DEF WithRun
<1>3. /\ e = [runs |-> e.runs, catalogs |-> m.catalogs, identity |-> m.identity,
              summary |-> m.summary, current |-> m.current, cycles |-> m.cycles]
      /\ e.runs = [q \in Runs |-> IF q = r THEN row ELSE m.runs[q]]
  BY <1>2 DEF Tables
<1> HIDE DEF e
<1>4. Tables(e)
  BY <1>3 DEF Tables
<1>5. Backed(m, ledger, alone) => Backed(e, ledger, alone)
  BY <1>1, <1>3 DEF Backed
<1> QED
  BY <1>4, <1>5 DEF e

\* The row of a catalog.
LEMMA CatalogRowWritten ==
  ASSUME NEW m, Tables(m), NEW ledger, NEW alone, NEW c \in SyncedOnes(ledger), NEW row
  PROVE  /\ Tables(WithCatalog(m, c, row))
         /\ Backed(m, ledger, alone) => Backed(WithCatalog(m, c, row), ledger, alone)
<1> DEFINE e == WithCatalog(m, c, row)
<1>1. c \in Catalogs
  BY DEF SyncedOnes
<1>2. e = [m EXCEPT !.catalogs = [m.catalogs EXCEPT ![c] = row]]
  BY DEF WithCatalog
<1>3. /\ e = [runs |-> m.runs, catalogs |-> e.catalogs, identity |-> m.identity,
              summary |-> m.summary, current |-> m.current, cycles |-> m.cycles]
      /\ e.catalogs = [q \in Catalogs |-> IF q = c THEN row ELSE m.catalogs[q]]
  BY <1>2 DEF Tables
<1> HIDE DEF e
<1>4. Tables(e)
  BY <1>3 DEF Tables
<1>5. Backed(m, ledger, alone) => Backed(e, ledger, alone)
  BY <1>1, <1>3 DEF Backed
<1> QED
  BY <1>4, <1>5 DEF e

\* The identity of a listing.
LEMMA IdentityRowWritten ==
  ASSUME NEW m, Tables(m), NEW ledger, NEW alone, NEW l \in Listings, NEW row
  PROVE  /\ Tables(WithIdentity(m, l, row))
         /\ Backed(m, ledger, alone) /\ l \in Observed(ledger.store)
              => Backed(WithIdentity(m, l, row), ledger, alone)
<1> DEFINE e == WithIdentity(m, l, row)
<1>1. e = [m EXCEPT !.identity = [m.identity EXCEPT ![l] = row]]
  BY DEF WithIdentity
<1>2. /\ e = [runs |-> m.runs, catalogs |-> m.catalogs, identity |-> e.identity,
              summary |-> m.summary, current |-> m.current, cycles |-> m.cycles]
      /\ e.identity = [k \in Listings |-> IF k = l THEN row ELSE m.identity[k]]
  BY <1>1 DEF Tables
<1> HIDE DEF e
<1>3. Tables(e)
  BY <1>2 DEF Tables
<1>4. Backed(m, ledger, alone) /\ l \in Observed(ledger.store) => Backed(e, ledger, alone)
  BY <1>2 DEF Backed
<1> QED
  BY <1>3, <1>4 DEF e

\* Its presence.
WithSummary(m, l, row) == [m EXCEPT !.summary = [m.summary EXCEPT ![l] = row]]

\* The row of a listing's presence is written.
LEMMA SummaryRowWritten ==
  ASSUME NEW m, Tables(m), NEW ledger, NEW alone, NEW l \in Listings, NEW row
  PROVE  /\ Tables(WithSummary(m, l, row))
         /\ Backed(m, ledger, alone) /\ l \in Observed(ledger.store)
              => Backed(WithSummary(m, l, row), ledger, alone)
<1> DEFINE e == WithSummary(m, l, row)
<1>1. /\ e = [runs |-> m.runs, catalogs |-> m.catalogs, identity |-> m.identity,
              summary |-> e.summary, current |-> m.current, cycles |-> m.cycles]
      /\ e.summary = [k \in Listings |-> IF k = l THEN row ELSE m.summary[k]]
  BY DEF WithSummary, Tables
<1> HIDE DEF e
<1>2. Tables(e)
  BY <1>1 DEF Tables
<1>3. Backed(m, ledger, alone) /\ l \in Observed(ledger.store) => Backed(e, ledger, alone)
  BY <1>1 DEF Backed
<1> QED
  BY <1>2, <1>3 DEF e

\* Its current state.
WithCurrent(m, l, row) == [m EXCEPT !.current = [m.current EXCEPT ![l] = row]]

\* The row of a listing's current state is written.
LEMMA CurrentRowWritten ==
  ASSUME NEW m, Tables(m), NEW ledger, NEW alone, NEW l \in Listings, NEW row
  PROVE  /\ Tables(WithCurrent(m, l, row))
         /\ Backed(m, ledger, alone) /\ l \in Observed(ledger.store)
              => Backed(WithCurrent(m, l, row), ledger, alone)
<1> DEFINE e == WithCurrent(m, l, row)
<1>1. /\ e = [runs |-> m.runs, catalogs |-> m.catalogs, identity |-> m.identity,
              summary |-> m.summary, current |-> e.current, cycles |-> m.cycles]
      /\ e.current = [k \in Listings |-> IF k = l THEN row ELSE m.current[k]]
  BY DEF WithCurrent, Tables
<1> HIDE DEF e
<1>2. Tables(e)
  BY <1>1 DEF Tables
<1>3. Backed(m, ledger, alone) /\ l \in Observed(ledger.store) => Backed(e, ledger, alone)
  BY <1>1 DEF Backed
<1> QED
  BY <1>2, <1>3 DEF e

\* A cycle of the runtime.
LEMMA CycleWritten ==
  ASSUME NEW m, Tables(m), NEW ledger, NEW alone, NEW k \in ledger.cycles
  PROVE  /\ Tables(WithCycle(m, k))
         /\ Backed(m, ledger, alone) => Backed(WithCycle(m, k), ledger, alone)
<1> DEFINE e == WithCycle(m, k)
<1>1. e = [m EXCEPT !.cycles = m.cycles \cup {k}]
  BY DEF WithCycle
<1>2. /\ e = [runs |-> m.runs, catalogs |-> m.catalogs, identity |-> m.identity,
              summary |-> m.summary, current |-> m.current, cycles |-> e.cycles]
      /\ e.cycles = m.cycles \cup {k}
  BY <1>1 DEF Tables
<1> HIDE DEF e
<1>3. Tables(e)
  BY <1>2 DEF Tables
<1>4. Backed(m, ledger, alone) => Backed(e, ledger, alone)
  BY <1>2 DEF Backed
<1> QED
  BY <1>3, <1>4 DEF e

-----------------------------------------------------------------------------
(* Mutable truth twice: the invariant.                                     *)

\* The stages of a run, and what the processes hold.
RunStages == {"started", "tree", "synced", "scans", "fetched", "seen", "ended"}
PageStates == [catalog : Nat, of : SUBSET Listings, at : Nat, ok : Nat, failed : Nat,
               unique : SUBSET Listings]
LiveStates == [stage : RunStages \cup {"off", "probed"}, run : Nat, todo : SUBSET Catalogs,
               page : PageStates, scanned : Nat, ok : Nat, failed : Nat,
               unique : SUBSET Listings]
FillStates == [stage : {"off", "runs", "catalogs", "listings", "cycles"}, read : Ledger,
               now : Nat, todo : SUBSET Nat, half : BOOLEAN, during : Nat]

\* The rows of SQLite are of their types, and the day is a number.
Books == sqlite \in Ledger /\ IsFiniteSet(sqlite.cycles) /\ today \in Nat

\* What the collector is about to project is in SQLite: its run, the catalogs once they are synced,
\* and the listings of the page unless SQLite took none of them.
AtWork ==
  /\ live.stage \in RunStages => live.run \in Begun(sqlite)
  /\ live.stage \in {"synced", "scans", "fetched", "seen"} => Catalogs \subseteq SyncedOnes(sqlite)
  /\ live.stage \in {"fetched", "seen"} => live.page.catalog \in Catalogs
  /\ ~strayed => live.page.of \subseteq Observed(sqlite.store)

\* So is what the backfill has still to write.
ToFill ==
  /\ fill.stage = "runs" => fill.todo \subseteq Begun(sqlite)
  /\ fill.stage = "catalogs" => fill.todo \subseteq SyncedOnes(sqlite)
  /\ fill.stage = "listings" => fill.todo \subseteq Observed(sqlite.store)
  /\ fill.stage = "cycles" => fill.todo \subseteq sqlite.cycles
  /\ fill.half => fill.stage = "listings" /\ fill.todo # {}

\* Behind every row of PostgreSQL, written or about to be, stands one of SQLite.
MirrorIInv ==
  /\ Books
  /\ Tables(mirror) /\ (~strayed => Backed(mirror, sqlite, elsewhere))
  /\ live \in LiveStates /\ AtWork
  /\ fill \in FillStates /\ ToFill
  /\ strayed \in BOOLEAN /\ elsewhere \in BOOLEAN /\ turns \in Nat

\* Nothing is taken out of SQLite.
Onward == /\ Books'
          /\ Begun(sqlite) \subseteq Begun(sqlite)' /\ SyncedOnes(sqlite) \subseteq SyncedOnes(sqlite)'
          /\ Observed(sqlite.store) \subseteq Observed(sqlite.store)'
          /\ sqlite.cycles \subseteq sqlite'.cycles

\* The constants, as the proofs use them.
LEMMA MirrorBounds ==
  /\ Catalogs \subseteq Nat /\ 0 \notin Catalogs /\ Listings \subseteq Nat
  /\ IsFiniteSet(Listings) /\ IsFiniteSet(Catalogs) /\ IsFiniteSet(Runs) /\ Runs \subseteq Nat
  /\ Routes \in [Runs -> SUBSET Catalogs] /\ Shows \in [Catalogs -> SUBSET SUBSET Listings]
  /\ Sayings \subseteq Outcomes \ {"none"}
  /\ NoLedger \in Ledger
<1>1. IsFiniteSet(Runs) /\ Runs \subseteq Nat
  BY EvidenceAssumption, FS_Interval DEF Runs
<1> QED
  BY <1>1, EvidenceAssumption, MirrorAssumption

\* At rest, in their types.
LEMMA RestingTyped == NoPage \in PageStates /\ Resting \in LiveStates /\ NoFill \in FillStates
<1>1. NoPage \in PageStates
  BY DEF NoPage, PageStates
<1>2. NoLedger \in Ledger
  BY MirrorBounds
<1> QED
  BY <1>1, <1>2 DEF Resting, LiveStates, NoFill, FillStates

\* While SQLite only grows, what stood behind a row stays behind it.
LEMMA BehindStill ==
  ASSUME NEW m, NEW alone, Backed(m, sqlite, alone), Onward
  PROVE  Backed(m, sqlite', alone)
<1>1. /\ Begun(sqlite)' = Begun(sqlite') /\ SyncedOnes(sqlite)' = SyncedOnes(sqlite')
      /\ Observed(sqlite.store)' = Observed(sqlite'.store)
  OBVIOUS
<1> QED
  BY <1>1 DEF Backed, Onward

\* A step of the collector leaves the backfill where it is.
LEMMA FillBeside ==
  ASSUME MirrorIInv, Onward, Beside
  PROVE  fill' \in FillStates /\ ToFill'
<1>1. /\ fill \in FillStates
      /\ fill' = fill \/ fill' = [fill EXCEPT !.during = @ + 1]
  BY DEF Beside, MirrorIInv
<1>2. /\ fill' \in FillStates
      /\ fill'.stage = fill.stage /\ fill'.todo = fill.todo /\ fill'.half = fill.half
  BY <1>1 DEF FillStates
<1> QED
  BY <1>2 DEF MirrorIInv, ToFill, Onward

\* A write of the store, with the ledger's other columns growing too.
LEMMA LedgerOnward ==
  ASSUME Books, sqlite' \in Ledger, Further(sqlite.store, sqlite'.store),
         SyncedOnes(sqlite) \subseteq SyncedOnes(sqlite)', sqlite'.cycles = sqlite.cycles,
         today' \in Nat
  PROVE  Onward
BY DEF Books, Onward, Further, Begun

\* The store alone.
LEMMA StoreOnward ==
  ASSUME Books, NEW e, sqlite' = [sqlite EXCEPT !.store = e], Further(sqlite.store, e),
         today' \in Nat
  PROVE  Onward /\ sqlite'.store = e /\ SyncedOnes(sqlite)' = SyncedOnes(sqlite)
<1>1. /\ sqlite' \in Ledger /\ sqlite'.store = e /\ sqlite'.synced = sqlite.synced
      /\ sqlite'.cycles = sqlite.cycles
  BY DEF Books, Ledger, Further
<1>2. SyncedOnes(sqlite)' = SyncedOnes(sqlite)
  BY <1>1 DEF SyncedOnes
<1> QED
  BY <1>1, <1>2, LedgerOnward

\* Nothing written.
LEMMA StoodOnward ==
  ASSUME Books, UNCHANGED sqlite, today' = today \/ today' = today + 1
  PROVE  Onward
BY DEF Books, Onward, Begun, SyncedOnes

\* A step that only writes SQLite keeps the invariant if the collector goes on from what is there.
LEMMA StoredKeeps ==
  ASSUME MirrorIInv, Onward, Beside, SameCycles, mirror' = mirror, strayed' \in BOOLEAN,
         strayed => strayed', live' \in LiveStates, AtWork'
  PROVE  MirrorIInv'
<1>1. fill' \in FillStates /\ ToFill'
  BY FillBeside
<1>2. ~strayed' => Backed(mirror', sqlite', elsewhere')
  BY BehindStill DEF MirrorIInv, SameCycles
<1>3. elsewhere' \in BOOLEAN /\ turns' \in Nat
  BY DEF MirrorIInv, SameCycles
<1> QED
  BY <1>1, <1>2, <1>3 DEF MirrorIInv, Onward

\* start_run
LEMMA RunStartsKeeps == MirrorIInv /\ RunStarts => MirrorIInv'
<1> SUFFICES ASSUME MirrorIInv, RunStarts PROVE MirrorIInv'
  OBVIOUS
<1>1. PICK r \in Runs :
        /\ sqlite' = [sqlite EXCEPT !.store = StartRun(@, r), !.begun[r] = today + 1]
        /\ live' = [Resting EXCEPT !.stage = "started", !.run = r]
  BY DEF RunStarts
<1>2. /\ Books /\ Beside /\ SameCycles /\ mirror' = mirror
      /\ strayed' = strayed /\ strayed \in BOOLEAN
      /\ today' \in Nat
  BY DEF MirrorIInv, RunStarts, Works, Stamps, Books
<1> DEFINE d == sqlite.store
           row == [d.runs[r] EXCEPT !.status = "running"]
<1>3. d \in StoreOf(Nat) /\ row \in RunRow /\ row.status = "running"
  <2>1. d \in StoreOf(Nat)
    BY <1>2 DEF Books, Ledger
  <2>2. d.runs[r] \in RunRow
    BY <2>1 DEF StoreOf
  <2> QED
    BY <2>1, <2>2 DEF RunRow
<1>4. StartRun(d, r) = [d EXCEPT !.runs[r] = row]
  BY DEF StartRun
<1>5. Further(d, StartRun(d, r)) /\ StartRun(d, r).runs[r] = row
  <2> HIDE DEF d, row
  <2> QED
    BY <1>3, <1>4, RunFurther
<1>6. /\ sqlite' \in Ledger /\ sqlite'.store = StartRun(d, r)
      /\ sqlite'.synced = sqlite.synced /\ sqlite'.cycles = sqlite.cycles
  <2> DEFINE mid == [sqlite EXCEPT !.store = StartRun(d, r)]
  <2>1. /\ mid \in Ledger /\ mid.store = StartRun(d, r) /\ mid.synced = sqlite.synced
        /\ mid.cycles = sqlite.cycles
    BY <1>2, <1>5 DEF Books, Ledger, Further
  <2>2. sqlite' = [mid EXCEPT !.begun[r] = today + 1]
    BY <1>1
  <2> HIDE DEF mid
  <2>3. today + 1 \in Nat
    BY <1>2 DEF Books
  <2>4. /\ [mid EXCEPT !.begun[r] = today + 1] \in Ledger
        /\ [mid EXCEPT !.begun[r] = today + 1].store = mid.store
        /\ [mid EXCEPT !.begun[r] = today + 1].synced = mid.synced
        /\ [mid EXCEPT !.begun[r] = today + 1].cycles = mid.cycles
    BY <2>1, <2>3 DEF Ledger
  <2> QED
    BY <2>1, <2>2, <2>4
<1>7. Onward
  BY <1>2, <1>5, <1>6, LedgerOnward DEF SyncedOnes
<1>8. /\ live' \in LiveStates /\ live'.stage = "started" /\ live'.run = r
      /\ live'.page.of = {}
  BY <1>1, RestingTyped, MirrorBounds DEF LiveStates, Resting, NoPage, RunStages
<1>9. r \in Begun(sqlite)'
  BY <1>3, <1>5, <1>6 DEF Begun
<1>10. AtWork'
  BY <1>8, <1>9 DEF AtWork
<1> QED
  BY <1>2, <1>7, <1>8, <1>10, StoredKeeps

\* The collector turns to what comes next, or rests.
LEMMA LiveTurns ==
  ASSUME live \in LiveStates, NEW stage \in RunStages, Turns(stage)
  PROVE  /\ live' \in LiveStates /\ live'.stage = stage
         /\ live'.run = live.run /\ live'.page = live.page
BY DEF LiveStates, Turns

\* Of the page that is not there, and of a run that is over, nothing is required.
LEMMA AtRest ==
  ASSUME live' = Resting
  PROVE  live' \in LiveStates /\ AtWork'
<1>1. Resting.stage = "off" /\ Resting.page.of = {}
  BY DEF Resting, NoPage
<1> QED
  BY <1>1, RestingTyped DEF AtWork, RunStages

\* complete_run
LEMMA CompletionKept ==
  ASSUME Books, NEW r \in Runs, NEW status \in {"completed", "failed"}, NEW totals \in TotalsShape,
         sqlite' = [sqlite EXCEPT !.store = CompleteRun(@, r, status, totals)], today' = today
  PROVE  Onward /\ r \in Begun(sqlite)'
<1> DEFINE d == sqlite.store
           row == [status |-> status, scanned |-> totals.scanned, ok |-> totals.ok,
                   failed |-> totals.failed, unique |-> totals.unique]
           e == CompleteRun(d, r, status, totals)
<1>1. d \in StoreOf(Nat)
  BY DEF Books, Ledger
<1>2. row \in RunRow /\ row.status # "none"
  BY DEF TotalsShape, RunRow
<1>3. e = [d EXCEPT !.runs[r] = row]
  BY DEF CompleteRun
<1>4. sqlite' = [sqlite EXCEPT !.store = e]
  OBVIOUS
<1> HIDE DEF d, row, e
<1>5. Further(d, e) /\ e.runs[r] = row
  BY <1>1, <1>2, <1>3, RunFurther
<1>6. Onward /\ sqlite'.store = e
  BY <1>4, <1>5, StoreOnward DEF d, Books
<1> QED
  BY <1>2, <1>5, <1>6 DEF Begun

\* What the collector has counted of its run.
LEMMA CountedLive ==
  ASSUME live \in LiveStates, NEW n \in Nat
  PROVE  [scanned |-> n, ok |-> live.ok, failed |-> live.failed,
          unique |-> Cardinality(live.unique)] \in TotalsShape
<1>1. IsFiniteSet(live.unique)
  BY MirrorBounds, FS_Subset DEF LiveStates
<1> QED
  BY <1>1, FS_CardinalityType DEF TotalsShape, LiveStates

\* The run at work fails.
LEMMA RunFails ==
  ASSUME MirrorIInv, live.stage \in RunStages, Completed("failed"), Turns("ended"), today' = today,
         strayed' = strayed
  PROVE  Onward /\ live' \in LiveStates /\ AtWork'
<1>1. Books /\ live \in LiveStates /\ AtWork
  BY DEF MirrorIInv
<1>2. live.run \in Runs
  BY <1>1 DEF AtWork, Begun
<1>3. live.scanned \in Nat
  BY <1>1 DEF LiveStates
<1>4. Onward /\ live.run \in Begun(sqlite)'
  BY <1>1, <1>2, <1>3, CountedLive, CompletionKept DEF Completed
<1>5. /\ live' \in LiveStates /\ live'.stage = "ended"
      /\ live'.run = live.run /\ live'.page = live.page
  BY <1>1, LiveTurns DEF RunStages
<1>6. AtWork'
  BY <1>1, <1>4, <1>5 DEF AtWork, Onward
<1> QED
  BY <1>4, <1>5, <1>6

\* upsert_catalogs, or a tree that cannot be had.
LEMMA TreeStoredKeeps == MirrorIInv /\ TreeStored => MirrorIInv'
<1> SUFFICES ASSUME MirrorIInv, TreeStored PROVE MirrorIInv'
  OBVIOUS
<1>1. /\ Books /\ Beside /\ SameCycles /\ mirror' = mirror
      /\ strayed' = strayed /\ strayed \in BOOLEAN
      /\ live \in LiveStates /\ live.stage = "tree" /\ AtWork
  BY DEF MirrorIInv, TreeStored, Works, At
<1>2. CASE sqlite' = [sqlite EXCEPT !.synced = [c \in Catalogs |-> today + 1]] /\ Stamps
           /\ Turns("synced")
  <2>1. today + 1 \in Nat /\ today + 1 # 0 /\ today' \in Nat
    BY <1>1, <1>2 DEF Books, Stamps
  <2>2. /\ sqlite' \in Ledger /\ sqlite'.store = sqlite.store /\ sqlite'.cycles = sqlite.cycles
        /\ sqlite'.synced = [c \in Catalogs |-> today + 1]
    BY <1>1, <1>2, <2>1 DEF Books, Ledger
  <2>3. SyncedOnes(sqlite)' = Catalogs
    BY <2>1, <2>2 DEF SyncedOnes
  <2>4. Onward
    BY <1>1, <2>1, <2>2, <2>3 DEF Books, Onward, Begun, SyncedOnes
  <2>5. /\ live' \in LiveStates /\ live'.stage = "synced"
        /\ live'.run = live.run /\ live'.page = live.page
    BY <1>1, <1>2, LiveTurns DEF RunStages
  <2>6. AtWork'
    BY <1>1, <2>3, <2>4, <2>5 DEF AtWork, RunStages, Onward
  <2> QED
    BY <1>1, <2>4, <2>5, <2>6, StoredKeeps
<1>3. CASE Completed("failed") /\ Turns("ended") /\ UNCHANGED today
  <2>1. Onward /\ live' \in LiveStates /\ AtWork'
    BY <1>1, <1>3, RunFails DEF RunStages
  <2> QED
    BY <1>1, <2>1, StoredKeeps
<1> QED
  BY <1>2, <1>3 DEF TreeStored

\* A page that came in, or not, is turned to.
LEMMA PageFetched ==
  ASSUME live \in LiveStates, NEW c \in Catalogs, NEW of \in SUBSET Listings, NEW ok \in Nat,
         NEW failed \in Nat, NEW unique \in SUBSET Listings, today \in Nat,
         Fetched(c, of, ok, failed, unique)
  PROVE  /\ live' \in LiveStates /\ live'.stage = "fetched" /\ live'.run = live.run
         /\ live'.page.catalog = c /\ live'.page.of = of
<1> DEFINE page == [catalog |-> c, of |-> of, at |-> today + 1, ok |-> ok, failed |-> failed,
                    unique |-> unique]
<1>1. page \in PageStates /\ page.catalog = c /\ page.of = of
  BY MirrorBounds DEF PageStates
<1>2. live' = [live EXCEPT !.stage = "fetched", !.todo = @ \ {c}, !.page = page]
  BY DEF Fetched
<1> HIDE DEF page
<1> QED
  BY <1>1, <1>2 DEF LiveStates, RunStages

\* A page of a catalog is stored, or recorded as failed.
LEMMA ScanStoredKeeps == MirrorIInv /\ ScanStored => MirrorIInv'
<1> SUFFICES ASSUME MirrorIInv, ScanStored PROVE MirrorIInv'
  OBVIOUS
<1>1. /\ Books /\ Beside /\ SameCycles /\ mirror' = mirror
      /\ strayed' = strayed /\ strayed \in BOOLEAN
      /\ live \in LiveStates /\ live.stage = "scans" /\ AtWork
      /\ today \in Nat /\ today + 1 \in Nat /\ today' \in Nat
  <2>1. At("scans") /\ Stamps /\ Works /\ mirror' = mirror
    BY Zenon DEF ScanStored
  <2> QED
    BY <2>1 DEF MirrorIInv, Works, At, Stamps, Books
<1> DEFINE d == sqlite.store
           r == live.run
           t == today + 1
<1>2. /\ d \in StoreOf(Nat) /\ r \in Runs /\ r \in Begun(sqlite)
      /\ Catalogs \subseteq SyncedOnes(sqlite)
  BY <1>1 DEF Books, Ledger, AtWork, RunStages, Begun
<1>3. ASSUME NEW c \in live.todo, NEW of \in SUBSET Listings, NEW ok \in Nat, NEW failed \in Nat,
             NEW unique \in SUBSET Listings, NEW e, Further(d, e),
             sqlite' = [sqlite EXCEPT !.store = e], of \subseteq Observed(e),
             Fetched(c, of, ok, failed, unique)
      PROVE  MirrorIInv'
  <2>1. c \in Catalogs
    BY <1>1 DEF LiveStates
  <2>2. /\ live' \in LiveStates /\ live'.stage = "fetched" /\ live'.run = live.run
        /\ live'.page.catalog = c /\ live'.page.of = of
    BY <1>1, <1>3, <2>1, PageFetched
  <2>3. Onward /\ sqlite'.store = e
    BY <1>1, <1>3, StoreOnward
  <2>4. AtWork'
    BY <1>2, <1>3, <2>1, <2>2, <2>3 DEF AtWork, Onward
  <2> QED
    BY <1>1, <2>2, <2>3, <2>4, StoredKeeps
<1>4. ASSUME NEW c \in live.todo, NEW of \in Shows[c],
             sqlite' = [sqlite EXCEPT !.store =
               RecordScan(FoldSet(LAMBDA l, b : Taken(b, live.run, c, 1, today + 1, l), @, of),
                          live.run, c, 1, today + 1, TRUE)],
             Fetched(c, of, 1, 0, of)
      PROVE  MirrorIInv'
  <2> DEFINE f == PageTaken(d, r, c, t, of)
             e == RecordScan(f, r, c, 1, t, TRUE)
  <2>1. c \in Catalogs /\ of \in SUBSET Listings
    BY <1>1, MirrorBounds DEF LiveStates
  <2>2. sqlite' = [sqlite EXCEPT !.store = e]
    BY <1>4 DEF PageTaken
  <2>3. Further(d, f) /\ Observed(f) = Observed(d) \cup of
    <3> HIDE DEF d, r, t, f
    <3> QED
      BY <1>1, <1>2, <2>1, PageObserves DEF f, t
  <2> HIDE DEF f
  <2>4. Further(d, e) /\ Observed(e) = Observed(f)
    <3> HIDE DEF d, r, t
    <3>1. t \in Nat /\ f \in StoreOf(Nat) /\ c \in Catalogs /\ TRUE \in BOOLEAN
      BY <1>1, <2>1, <2>3 DEF t, Further
    <3>2. r \in Runs /\ Further(d, f)
      BY <1>2, <2>3
    <3>3. /\ Further(d, RecordScan(f, r, c, 1, t, TRUE))
          /\ Observed(RecordScan(f, r, c, 1, t, TRUE)) = Observed(f)
      BY <3>1, <3>2, ScanFurther
    <3> QED
      BY <3>3
  <2> HIDE DEF e
  <2>5. 0 \in Nat /\ 1 \in Nat /\ of \subseteq Observed(e)
    BY <2>3, <2>4
  <2> QED
    BY <1>3, <1>4, <2>1, <2>2, <2>4, <2>5
<1>5. ASSUME NEW c \in live.todo,
             sqlite' = [sqlite EXCEPT !.store = RecordScan(@, live.run, c, 1, today + 1, FALSE)],
             Fetched(c, {}, 0, 1, {})
      PROVE  MirrorIInv'
  <2> DEFINE e == RecordScan(d, r, c, 1, t, FALSE)
  <2>1. c \in Catalogs
    BY <1>1 DEF LiveStates
  <2>2. sqlite' = [sqlite EXCEPT !.store = e]
    BY <1>5
  <2>3. Further(d, d)
    BY <1>2 DEF Further
  <2>4. Further(d, e)
    <3> HIDE DEF d, r, t
    <3>1. t \in Nat
      BY <1>1 DEF t
    <3> QED
      BY <1>2, <2>1, <2>3, <3>1, ScanFurther
  <2> HIDE DEF e
  <2>5. 0 \in Nat /\ 1 \in Nat /\ {} \in SUBSET Listings /\ {} \subseteq Observed(e)
    OBVIOUS
  <2> QED
    BY <1>3, <1>5, <2>2, <2>4, <2>5
<1> QED
  BY <1>4, <1>5 DEF ScanStored

\* SQLite takes nothing of a page, and it is projected all the same: from here on PostgreSQL may
\* have rows with nothing behind them.
LEMMA ScanTornKeeps == MirrorIInv /\ ScanTorn => MirrorIInv'
<1> SUFFICES ASSUME MirrorIInv, ScanTorn PROVE MirrorIInv'
  OBVIOUS
<1>1. /\ Books /\ Beside /\ SameCycles /\ mirror' = mirror /\ strayed' = TRUE
      /\ live \in LiveStates /\ live.stage = "scans" /\ AtWork
      /\ today \in Nat /\ today + 1 \in Nat /\ today' \in Nat
  BY DEF MirrorIInv, ScanTorn, At, Stamps, Books
<1>2. PICK c \in live.todo : \E of \in Shows[c] \ {{}} :
        /\ sqlite' = [sqlite EXCEPT !.store = RecordScan(@, live.run, c, 1, today + 1, FALSE)]
        /\ Fetched(c, of, 1, 1, {Min(of)})
  BY DEF ScanTorn
<1> PICK of \in Shows[c] \ {{}} :
        /\ sqlite' = [sqlite EXCEPT !.store = RecordScan(@, live.run, c, 1, today + 1, FALSE)]
        /\ Fetched(c, of, 1, 1, {Min(of)})
  BY <1>2
<1> DEFINE d == sqlite.store
           t == today + 1
           e == RecordScan(d, live.run, c, 1, t, FALSE)
<1>3. c \in Catalogs /\ of \in SUBSET Listings /\ of # {}
  BY <1>1, MirrorBounds DEF LiveStates
<1>4. {Min(of)} \in SUBSET Listings
  BY <1>3, MirrorBounds, LeastOfNats
<1>5. /\ d \in StoreOf(Nat) /\ live.run \in Runs /\ live.run \in Begun(sqlite)
      /\ Catalogs \subseteq SyncedOnes(sqlite)
  BY <1>1 DEF Books, Ledger, AtWork, RunStages, Begun
<1>6. sqlite' = [sqlite EXCEPT !.store = e]
  OBVIOUS
<1>7. Further(d, e)
  <2> HIDE DEF d, t
  <2>1. Further(d, d) /\ t \in Nat
    BY <1>1, <1>5 DEF Further, t
  <2> QED
    BY <1>3, <1>5, <2>1, ScanFurther
<1> HIDE DEF e
<1>8. Onward
  BY <1>1, <1>6, <1>7, StoreOnward
<1>9. /\ live' \in LiveStates /\ live'.stage = "fetched" /\ live'.run = live.run
      /\ live'.page.catalog = c
  <2>1. 1 \in Nat
    OBVIOUS
  <2> QED
    BY <1>1, <1>3, <1>4, <2>1, PageFetched
<1>10. AtWork'
  BY <1>1, <1>3, <1>5, <1>8, <1>9 DEF AtWork, Onward
<1> QED
  BY <1>1, <1>8, <1>9, <1>10, StoredKeeps

\* complete_run
LEMMA RunEndsKeeps == MirrorIInv /\ RunEnds => MirrorIInv'
<1> SUFFICES ASSUME MirrorIInv, RunEnds PROVE MirrorIInv'
  OBVIOUS
<1>1. /\ Books /\ Beside /\ SameCycles /\ mirror' = mirror
      /\ strayed' = strayed /\ strayed \in BOOLEAN
      /\ live \in LiveStates /\ live.stage = "scans" /\ AtWork /\ today' = today
  BY DEF MirrorIInv, RunEnds, Works, At
<1> DEFINE n == Cardinality(Routes[live.run])
           totals == [scanned |-> n, ok |-> live.ok, failed |-> live.failed,
                      unique |-> Cardinality(live.unique)]
<1>2. live.run \in Runs
  BY <1>1 DEF AtWork, Begun, RunStages
<1>3. n \in Nat
  <2>1. IsFiniteSet(Routes[live.run])
    BY <1>2, MirrorBounds, FS_Subset
  <2> QED
    BY <2>1, FS_CardinalityType
<1>4. /\ sqlite' = [sqlite EXCEPT !.store = CompleteRun(@, live.run, "completed", totals)]
      /\ live' = [live EXCEPT !.stage = "ended", !.scanned = n]
  BY DEF RunEnds
<1> HIDE DEF n
<1>5. totals \in TotalsShape
  BY <1>1, <1>3, CountedLive
<1> HIDE DEF totals
<1>6. Onward /\ live.run \in Begun(sqlite)'
  BY <1>1, <1>2, <1>4, <1>5, CompletionKept
<1>7. /\ live' \in LiveStates /\ live'.stage = "ended"
      /\ live'.run = live.run /\ live'.page = live.page
  BY <1>1, <1>3, <1>4 DEF LiveStates, RunStages
<1>8. AtWork'
  BY <1>1, <1>6, <1>7 DEF AtWork, Onward
<1> QED
  BY <1>1, <1>6, <1>7, <1>8, StoredKeeps

\* record_item_page_probe
LEMMA ProbeStoredKeeps == MirrorIInv /\ ProbeStored => MirrorIInv'
<1> SUFFICES ASSUME MirrorIInv, ProbeStored PROVE MirrorIInv'
  OBVIOUS
<1>1. /\ Books /\ Beside /\ SameCycles /\ mirror' = mirror
      /\ strayed' = strayed /\ strayed \in BOOLEAN
      /\ today \in Nat /\ today + 1 \in Nat /\ today' \in Nat
  BY DEF MirrorIInv, ProbeStored, Works, Stamps, Books
<1>2. PICK l \in Observed(sqlite.store), outcome \in Sayings :
        /\ sqlite' = [sqlite EXCEPT !.store = RecordProbe(@, l, today + 1, outcome)]
        /\ live' = [Resting EXCEPT !.stage = "probed", !.page.of = {l}, !.page.at = today + 1]
  BY DEF ProbeStored
<1> DEFINE d == sqlite.store
           t == today + 1
           e == RecordProbe(d, l, t, outcome)
<1>3. d \in StoreOf(Nat) /\ l \in Listings /\ outcome \in Outcomes \ {"none"}
  BY <1>1, MirrorBounds DEF Books, Ledger, StoreOf, Observed
<1>4. sqlite' = [sqlite EXCEPT !.store = e]
  BY <1>2
<1>5. Further(d, e)
  <2> HIDE DEF d, t
  <2>1. t \in Nat
    BY <1>1 DEF t
  <2> QED
    BY <1>3, <2>1, ProbeFurther
<1> HIDE DEF e
<1>6. Onward
  BY <1>1, <1>4, <1>5, StoreOnward
<1>7. live' \in LiveStates /\ live'.stage = "probed" /\ live'.page.of = {l}
  <2> DEFINE mid == [Resting EXCEPT !.stage = "probed"]
             page == [NoPage EXCEPT !.of = {l}]
  <2>1. mid \in LiveStates /\ mid.stage = "probed" /\ mid.page = NoPage
    BY RestingTyped DEF LiveStates, Resting
  <2>2. page \in PageStates /\ page.of = {l}
    BY <1>3, RestingTyped DEF PageStates
  <2>3. live' = [[mid EXCEPT !.page.of = {l}] EXCEPT !.page.at = t]
    BY <1>2
  <2> HIDE DEF mid
  <2>4. /\ [mid EXCEPT !.page.of = {l}] = [mid EXCEPT !.page = page]
    BY <2>1
  <2> HIDE DEF page
  <2> DEFINE more == [mid EXCEPT !.page = page]
  <2>5. more \in LiveStates /\ more.stage = "probed" /\ more.page = page
    BY <2>1, <2>2 DEF LiveStates
  <2>6. live' = [more EXCEPT !.page.at = t]
    BY <2>3, <2>4
  <2> HIDE DEF more
  <2>7. t \in Nat
    BY <1>1
  <2> HIDE DEF t
  <2> QED
    BY <2>2, <2>5, <2>6, <2>7 DEF LiveStates, PageStates
<1>8. AtWork'
  <2>1. l \in Observed(sqlite.store)'
    BY <1>2, <1>6 DEF Onward
  <2> QED
    BY <1>7, <2>1 DEF AtWork, RunStages
<1> QED
  BY <1>1, <1>6, <1>7, <1>8, StoredKeeps

\* A projection raises.
LEMMA ProjectionRaisesKeeps == MirrorIInv /\ ProjectionRaises => MirrorIInv'
<1> SUFFICES ASSUME MirrorIInv, ProjectionRaises PROVE MirrorIInv'
  OBVIOUS
<1>1. /\ Books /\ Beside /\ SameCycles /\ mirror' = mirror
      /\ strayed' = strayed /\ strayed \in BOOLEAN
      /\ live \in LiveStates /\ AtWork /\ today' = today
  BY DEF MirrorIInv, ProjectionRaises, Slips
<1>2. CASE live' = Resting /\ UNCHANGED sqlite
  BY <1>1, <1>2, AtRest, StoodOnward, StoredKeeps
<1>3. CASE /\ live.stage \in {"fetched", "seen"}
           /\ live' = [live EXCEPT !.stage = "scans", !.page = NoPage, !.failed = @ + 1]
           /\ UNCHANGED sqlite
  <2>1. /\ live' \in LiveStates /\ live'.stage = "scans" /\ live'.run = live.run
        /\ live'.page = NoPage
    <3> DEFINE failed == live.failed + 1
    <3>1. NoPage \in PageStates /\ failed \in Nat
      BY <1>1, RestingTyped DEF LiveStates
    <3>2. live' = [live EXCEPT !.stage = "scans", !.page = NoPage, !.failed = failed]
      BY <1>3
    <3> HIDE DEF failed
    <3> QED
      BY <1>1, <3>1, <3>2 DEF LiveStates, RunStages
  <2>2. NoPage.of = {}
    BY DEF NoPage
  <2>3. Onward
    BY <1>1, <1>3, StoodOnward
  <2>4. AtWork'
    BY <1>1, <1>3, <2>1, <2>2, <2>3 DEF AtWork, Onward, RunStages
  <2> QED
    BY <1>1, <2>1, <2>3, <2>4, StoredKeeps
<1>4. CASE live.stage \in {"synced", "ended"} /\ Completed("failed") /\ Turns("ended")
  <2>1. Onward /\ live' \in LiveStates /\ AtWork'
    BY <1>1, <1>4, RunFails DEF RunStages
  <2> QED
    BY <1>1, <2>1, StoredKeeps
<1> QED
  BY <1>2, <1>3, <1>4 DEF ProjectionRaises, At

\* The collector dies.
LEMMA CollectorDiesKeeps == MirrorIInv /\ CollectorDies => MirrorIInv'
<1> SUFFICES ASSUME MirrorIInv, CollectorDies PROVE MirrorIInv'
  OBVIOUS
<1>1. /\ Books /\ Beside /\ SameCycles /\ mirror' = mirror
      /\ strayed' = strayed /\ strayed \in BOOLEAN
      /\ live' = Resting /\ UNCHANGED <<sqlite, today>>
  BY DEF MirrorIInv, CollectorDies, Slips
<1> QED
  BY <1>1, AtRest, StoodOnward, StoredKeeps

-----------------------------------------------------------------------------
(* Mutable truth twice: what the collector projects.                       *)

\* A projection keeps the invariant if the rows it writes have theirs behind them.
LEMMA ProjectedKeeps ==
  ASSUME MirrorIInv, Beside, SameCycles, UNCHANGED <<sqlite, strayed>>,
         today' = today \/ today' = today + 1, Tables(mirror'),
         ~strayed => Backed(mirror', sqlite, elsewhere), live' \in LiveStates, AtWork'
  PROVE  MirrorIInv'
<1>1. Books
  BY DEF MirrorIInv
<1>2. Onward
  BY <1>1, StoodOnward
<1>3. fill' \in FillStates /\ ToFill'
  BY <1>2, FillBeside
<1>4. /\ strayed' \in BOOLEAN /\ elsewhere' \in BOOLEAN /\ turns' \in Nat
      /\ ~strayed' => Backed(mirror', sqlite', elsewhere')
  BY DEF MirrorIInv, SameCycles
<1> QED
  BY <1>2, <1>3, <1>4 DEF MirrorIInv, Onward

\* project_discovery_run_started
LEMMA StartProjectedKeeps == MirrorIInv /\ StartProjected => MirrorIInv'
<1> SUFFICES ASSUME MirrorIInv, StartProjected PROVE MirrorIInv'
  OBVIOUS
<1>1. /\ Beside /\ SameCycles /\ UNCHANGED <<sqlite, strayed>> /\ today' = today + 1
      /\ Tables(mirror)
      /\ (~strayed => Backed(mirror, sqlite, elsewhere))
      /\ live \in LiveStates /\ live.stage = "started" /\ AtWork
  BY DEF MirrorIInv, StartProjected, Works, Stamps, At
<1>2. PICK row : mirror' = WithRun(mirror, live.run, row)
  BY DEF StartProjected
<1>3. live.run \in Begun(sqlite)
  BY <1>1 DEF AtWork, RunStages
<1>4. Tables(mirror') /\ (~strayed => Backed(mirror', sqlite, elsewhere))
  BY <1>1, <1>2, <1>3, RunRowWritten
<1>5. /\ live' \in LiveStates /\ live'.stage = "tree"
      /\ live'.run = live.run /\ live'.page = live.page
  BY <1>1, LiveTurns DEF RunStages, StartProjected
<1>6. AtWork'
  BY <1>1, <1>3, <1>5 DEF AtWork
<1> QED
  BY <1>1, <1>4, <1>5, <1>6, ProjectedKeeps

\* project_discovery_catalogs_synced
LEMMA SyncProjectedKeeps == MirrorIInv /\ SyncProjected => MirrorIInv'
<1> SUFFICES ASSUME MirrorIInv, SyncProjected PROVE MirrorIInv'
  OBVIOUS
<1>1. /\ Beside /\ SameCycles /\ UNCHANGED <<sqlite, today, strayed>> /\ Tables(mirror)
      /\ (~strayed => Backed(mirror, sqlite, elsewhere))
      /\ live \in LiveStates /\ live.stage = "synced" /\ AtWork
  BY DEF MirrorIInv, SyncProjected, Works, At
<1> DEFINE rows == [c \in Catalogs |-> [synced |-> sqlite.synced[c], run |-> live.run]]
<1>2. mirror' = [mirror EXCEPT !.catalogs = rows]
  BY DEF SyncProjected
<1>3. live.run \in Begun(sqlite) /\ Catalogs \subseteq SyncedOnes(sqlite)
  BY <1>1 DEF AtWork, RunStages
<1>4. rows = [c \in Catalogs |-> rows[c]]
  OBVIOUS
<1> HIDE DEF rows
<1>5. mirror' = [runs |-> mirror.runs, catalogs |-> rows, identity |-> mirror.identity,
                 summary |-> mirror.summary, current |-> mirror.current, cycles |-> mirror.cycles]
  BY <1>1, <1>2 DEF Tables
<1>6. Tables(mirror')
  BY <1>1, <1>4, <1>5 DEF Tables
<1>7. ~strayed => Backed(mirror', sqlite, elsewhere)
  BY <1>1, <1>3, <1>5 DEF Backed
<1>8. /\ live' \in LiveStates /\ live'.stage = "scans"
      /\ live'.run = live.run /\ live'.page = live.page
  <2>1. Routes[live.run] \in SUBSET Catalogs
    BY <1>3, MirrorBounds DEF Begun
  <2> QED
    BY <1>1, <2>1 DEF SyncProjected, LiveStates, RunStages
<1>9. AtWork'
  BY <1>1, <1>3, <1>8 DEF AtWork
<1> QED
  BY <1>1, <1>6, <1>7, <1>9, <1>8, ProjectedKeeps

\* project_discovery_catalog_scan_completed, first half: identity and presence.
LEMMA SeenProjectedKeeps == MirrorIInv /\ SeenProjected => MirrorIInv'
<1> SUFFICES ASSUME MirrorIInv, SeenProjected PROVE MirrorIInv'
  OBVIOUS
<1>1. /\ Beside /\ SameCycles /\ UNCHANGED <<sqlite, today, strayed>> /\ Tables(mirror)
      /\ (~strayed => Backed(mirror, sqlite, elsewhere))
      /\ live \in LiveStates /\ live.stage = "fetched" /\ AtWork
  BY DEF MirrorIInv, SeenProjected, Works, At
<1> DEFINE p == live.page
           c == p.catalog
           identity == [l \in Listings |-> IF l \in p.of
                          THEN Known(mirror.identity[l], live.run, p.catalog, p.at)
                          ELSE mirror.identity[l]]
           summary == [l \in Listings |-> IF l \in p.of
                         THEN SummedUp(mirror.summary[l], live.run, p.at)
                         ELSE mirror.summary[l]]
           row == [mirror.catalogs[c] EXCEPT !.run = live.run]
           told == [mirror EXCEPT !.identity = identity, !.summary = summary]
<1>2. mirror' = [told EXCEPT !.catalogs[c].run = live.run]
  BY Zenon DEF SeenProjected
<1>3. /\ identity = [l \in Listings |-> identity[l]] /\ summary = [l \in Listings |-> summary[l]]
      /\ \A l \in Listings \ p.of : identity[l] = mirror.identity[l] /\ summary[l] = mirror.summary[l]
  OBVIOUS
<1> HIDE DEF identity, summary
<1>4. told = [runs |-> mirror.runs, catalogs |-> mirror.catalogs, identity |-> identity,
              summary |-> summary, current |-> mirror.current, cycles |-> mirror.cycles]
  <2> DEFINE mid == [mirror EXCEPT !.identity = identity]
  <2>1. mid = [runs |-> mirror.runs, catalogs |-> mirror.catalogs, identity |-> identity,
               summary |-> mirror.summary, current |-> mirror.current, cycles |-> mirror.cycles]
    BY <1>1 DEF Tables
  <2>2. told = [mid EXCEPT !.summary = summary]
    OBVIOUS
  <2> HIDE DEF mid, told
  <2> QED
    BY <2>1, <2>2
<1> HIDE DEF told
<1>5. Tables(told)
  BY <1>1, <1>3, <1>4 DEF Tables
<1>6. ~strayed => p.of \subseteq Observed(sqlite.store)
  BY <1>1 DEF AtWork
<1> HIDE DEF p
<1>7. ~strayed => Backed(told, sqlite, elsewhere)
  BY <1>1, <1>3, <1>4, <1>6 DEF Backed
<1>8. c \in SyncedOnes(sqlite)
  BY <1>1 DEF AtWork, p
<1>9. mirror' = WithCatalog(told, c, row)
  BY <1>2, <1>4 DEF WithCatalog
<1> HIDE DEF c, row
<1>10. Tables(mirror') /\ (~strayed => Backed(mirror', sqlite, elsewhere))
  BY <1>5, <1>7, <1>8, <1>9, CatalogRowWritten
<1>11. /\ live' \in LiveStates /\ live'.stage = "seen"
       /\ live'.run = live.run /\ live'.page = live.page
  BY <1>1, LiveTurns DEF RunStages, SeenProjected
<1>12. AtWork'
  BY <1>1, <1>11 DEF AtWork, RunStages
<1> QED
  BY <1>1, <1>10, <1>11, <1>12, ProjectedKeeps

\* The second half: the current state of every listing of the catalog, each of which has an
\* identity or is on the page.
LEMMA ScanProjectedKeeps == MirrorIInv /\ ScanProjected => MirrorIInv'
<1> SUFFICES ASSUME MirrorIInv, ScanProjected PROVE MirrorIInv'
  OBVIOUS
<1>1. /\ Beside /\ SameCycles /\ UNCHANGED <<sqlite, today, strayed>> /\ Tables(mirror)
      /\ (~strayed => Backed(mirror, sqlite, elsewhere))
      /\ live \in LiveStates /\ live.stage = "seen" /\ AtWork
  BY DEF MirrorIInv, ScanProjected, Works, At
<1> DEFINE p == live.page
           affected == p.of \cup {l \in Listings : mirror.identity[l].primary = p.catalog}
<1>2. PICK current : /\ mirror' = [mirror EXCEPT !.current = current]
                     /\ current = [l \in Listings |-> current[l]]
                     /\ \A l \in Listings \ affected : current[l] = mirror.current[l]
  <2> DEFINE told(row, l) == [row EXCEPT !.scan = live.run, !.seen = l \in p.of,
                                         !.misses = IF l \in p.of THEN 0 ELSE @ + 1, !.at = p.at]
             Row(l) == IF p.ok > 0 /\ l \in affected
                       THEN Refreshed(told(mirror.current[l], l), mirror.summary[l], p.at)
                       ELSE mirror.current[l]
             current == [l \in Listings |-> Row(l)]
  <2>1. mirror' = [mirror EXCEPT !.current = current]
    BY Zenon DEF ScanProjected
  <2>2. \A l \in Listings \ affected : Row(l) = mirror.current[l]
    OBVIOUS
  <2> HIDE DEF Row
  <2>3. /\ current = [l \in Listings |-> current[l]]
        /\ \A l \in Listings \ affected : current[l] = mirror.current[l]
    BY <2>2
  <2> QED
    BY <2>1, <2>3
<1>3. mirror' = [runs |-> mirror.runs, catalogs |-> mirror.catalogs, identity |-> mirror.identity,
                 summary |-> mirror.summary, current |-> current, cycles |-> mirror.cycles]
  BY <1>1, <1>2 DEF Tables
<1>4. Tables(mirror')
  BY <1>1, <1>2, <1>3 DEF Tables
<1>5. ASSUME ~strayed, NEW l \in affected
      PROVE  l \in Observed(sqlite.store)
  <2>1. p.catalog # 0 /\ p.of \subseteq Observed(sqlite.store)
    BY <1>1, <1>5, MirrorBounds DEF AtWork
  <2>2. mirror.identity[l].primary = p.catalog => mirror.identity[l] # NoIdentity
    BY <2>1 DEF NoIdentity
  <2> QED
    BY <1>1, <1>5, <2>1, <2>2 DEF Backed
<1> HIDE DEF affected
<1>6. ~strayed => Backed(mirror', sqlite, elsewhere)
  BY <1>1, <1>2, <1>3, <1>5 DEF Backed
<1>7. /\ live' \in LiveStates /\ live'.stage = "scans" /\ live'.run = live.run
      /\ live'.page = NoPage
  <2> DEFINE ok == live.ok + p.ok
             failed == live.failed + p.failed
             unique == live.unique \cup p.unique
  <2>1. ok \in Nat /\ failed \in Nat /\ unique \in SUBSET Listings /\ NoPage \in PageStates
    BY <1>1, RestingTyped DEF LiveStates, PageStates
  <2>2. live' = [live EXCEPT !.stage = "scans", !.page = NoPage, !.ok = ok, !.failed = failed,
                             !.unique = unique]
    BY DEF ScanProjected
  <2> HIDE DEF ok, failed, unique
  <2> QED
    BY <1>1, <2>1, <2>2 DEF LiveStates, RunStages
<1>8. AtWork'
  <2>1. NoPage.of = {}
    BY DEF NoPage
  <2> QED
    BY <1>1, <1>7, <2>1 DEF AtWork, RunStages
<1> QED
  BY <1>1, <1>4, <1>6, <1>7, <1>8, ProjectedKeeps

\* project_discovery_run_completed
LEMMA EndProjectedKeeps == MirrorIInv /\ EndProjected => MirrorIInv'
<1> SUFFICES ASSUME MirrorIInv, EndProjected PROVE MirrorIInv'
  OBVIOUS
<1>1. /\ Beside /\ SameCycles /\ UNCHANGED <<sqlite, today, strayed>> /\ Tables(mirror)
      /\ (~strayed => Backed(mirror, sqlite, elsewhere))
      /\ live \in LiveStates /\ live.stage = "ended" /\ AtWork /\ live' = Resting
  BY DEF MirrorIInv, EndProjected, Works, At
<1>2. PICK row : mirror' = WithRun(mirror, live.run, row)
  BY DEF EndProjected
<1>3. live.run \in Begun(sqlite)
  BY <1>1 DEF AtWork, RunStages
<1>4. Tables(mirror') /\ (~strayed => Backed(mirror', sqlite, elsewhere))
  BY <1>1, <1>2, <1>3, RunRowWritten
<1> QED
  BY <1>1, <1>4, AtRest, ProjectedKeeps

\* project_state_refresh_probes
LEMMA ProbeProjectedKeeps == MirrorIInv /\ ProbeProjected => MirrorIInv'
<1> SUFFICES ASSUME MirrorIInv, ProbeProjected PROVE MirrorIInv'
  OBVIOUS
<1>1. /\ Beside /\ SameCycles /\ UNCHANGED <<sqlite, today, strayed>> /\ Tables(mirror)
      /\ (~strayed => Backed(mirror, sqlite, elsewhere))
      /\ live \in LiveStates /\ live.stage = "probed" /\ AtWork /\ live' = Resting
  BY DEF MirrorIInv, ProbeProjected, Works, At
<1>2. PICK l \in live.page.of : \E known, row :
        /\ known = mirror \/ \E id : known = WithIdentity(mirror, l, id)
        /\ mirror' = [known EXCEPT !.current[l] = row]
  BY DEF ProbeProjected
<1>3. PICK known, row :
        /\ known = mirror \/ \E id : known = WithIdentity(mirror, l, id)
        /\ mirror' = [known EXCEPT !.current[l] = row]
  BY <1>2
<1>4. l \in Listings /\ (~strayed => l \in Observed(sqlite.store))
  BY <1>1 DEF AtWork, LiveStates, PageStates
<1>5. Tables(known) /\ (~strayed => Backed(known, sqlite, elsewhere))
  BY <1>1, <1>3, <1>4, IdentityRowWritten
<1>6. mirror' = WithCurrent(known, l, row)
  BY <1>3 DEF WithCurrent
<1>7. Tables(mirror') /\ (~strayed => Backed(mirror', sqlite, elsewhere))
  BY <1>4, <1>5, <1>6, CurrentRowWritten
<1> QED
  BY <1>1, <1>7, AtRest, ProjectedKeeps

-----------------------------------------------------------------------------
(* Mutable truth twice: what the backfill writes.                          *)

\* A step of the backfill keeps the invariant if the rows it writes have theirs behind them.
LEMMA FilledKeeps ==
  ASSUME MirrorIInv, Fills, Tables(mirror'), ~strayed => Backed(mirror', sqlite, elsewhere),
         fill' \in FillStates, ToFill'
  PROVE  MirrorIInv'
<1>1. UNCHANGED <<sqlite, live, today, strayed, elsewhere, turns>>
  BY DEF Fills, SameCycles
<1>2. Books' /\ AtWork' /\ live' \in LiveStates /\ strayed' \in BOOLEAN
      /\ elsewhere' \in BOOLEAN /\ turns' \in Nat
  BY <1>1 DEF MirrorIInv, Books, AtWork, Begun, SyncedOnes
<1>3. ~strayed' => Backed(mirror', sqlite', elsewhere')
  BY <1>1
<1> QED
  BY <1>2, <1>3 DEF MirrorIInv

\* What is to be filled, in the terms of the step before.
LEMMA StillToFill ==
  ASSUME Fills, fill' \in FillStates, ~fill'.half,
         fill'.stage = "runs" => fill'.todo \subseteq Begun(sqlite),
         fill'.stage = "catalogs" => fill'.todo \subseteq SyncedOnes(sqlite),
         fill'.stage = "listings" => fill'.todo \subseteq Observed(sqlite.store),
         fill'.stage = "cycles" => fill'.todo \subseteq sqlite.cycles
  PROVE  ToFill'
<1>1. sqlite' = sqlite
  BY DEF Fills
<1> QED
  BY <1>1 DEF ToFill, Begun, SyncedOnes

\* The next row is one of those to go.
LEMMA NextIsToGo ==
  ASSUME fill \in FillStates, fill.todo # {}
  PROVE  NextRow \in fill.todo
BY LeastOfNats DEF FillStates, NextRow

\* A row is behind.
LEMMA RowBehind ==
  ASSUME MirrorIInv, Fills, ~fill.half, RowDone
  PROVE  fill' \in FillStates /\ ToFill'
<1> DEFINE rest == fill.todo \ {NextRow}
<1>1. fill \in FillStates /\ ToFill /\ fill' = [fill EXCEPT !.todo = rest]
  BY DEF MirrorIInv, RowDone
<1>2. rest \subseteq fill.todo
  OBVIOUS
<1> HIDE DEF rest
<1>3. /\ fill' \in FillStates /\ fill'.stage = fill.stage /\ fill'.todo = rest
      /\ fill'.half = fill.half
  BY <1>1, <1>2 DEF FillStates
<1>4. ToFill'
  BY <1>1, <1>2, <1>3, StillToFill DEF ToFill
<1> QED
  BY <1>3, <1>4

\* A backfill begins with the runs.
LEMMA FillBeginsKeeps == MirrorIInv /\ FillBegins => MirrorIInv'
<1> SUFFICES ASSUME MirrorIInv, FillBegins PROVE MirrorIInv'
  OBVIOUS
<1>1. /\ Fills /\ mirror' = mirror /\ Books /\ Tables(mirror)
      /\ (~strayed => Backed(mirror, sqlite, elsewhere))
  BY DEF MirrorIInv, FillBegins
<1> DEFINE todo == Begun(sqlite)
           during == IF live = Resting THEN 0 ELSE 1
<1>2. todo \in SUBSET Nat /\ during \in Nat
  BY MirrorBounds DEF Begun
<1>3. fill' = [NoFill EXCEPT !.stage = "runs", !.read = sqlite, !.now = today, !.todo = todo,
                             !.during = during]
  BY DEF FillBegins
<1>4. NoFill.half = FALSE
  BY DEF NoFill
<1>5. todo \subseteq Begun(sqlite)
  OBVIOUS
<1> HIDE DEF todo, during
<1>6. /\ fill' \in FillStates /\ fill'.stage = "runs" /\ fill'.todo = todo /\ ~fill'.half
  BY <1>1, <1>2, <1>3, <1>4, RestingTyped DEF FillStates, Books
<1>7. ToFill'
  BY <1>1, <1>5, <1>6, StillToFill
<1> QED
  BY <1>1, <1>6, <1>7, FilledKeeps

\* The row of a run.
LEMMA FillRunKeeps == MirrorIInv /\ FillRun => MirrorIInv'
<1> SUFFICES ASSUME MirrorIInv, FillRun PROVE MirrorIInv'
  OBVIOUS
<1>1. /\ Fills /\ RowDone /\ Tables(mirror) /\ (~strayed => Backed(mirror, sqlite, elsewhere))
      /\ fill \in FillStates /\ ToFill /\ fill.stage = "runs" /\ fill.todo # {}
  BY DEF MirrorIInv, FillRun, Continues, Filling
<1>2. NextRow \in Begun(sqlite) /\ ~fill.half
  BY <1>1, NextIsToGo DEF ToFill
<1>3. fill' \in FillStates /\ ToFill'
  BY <1>1, <1>2, RowBehind
<1>4. PICK row : mirror' = WithRun(mirror, NextRow, row)
  BY DEF FillRun
<1> QED
  BY <1>1, <1>2, <1>3, <1>4, RunRowWritten, FilledKeeps

\* The row of a catalog.
LEMMA FillCatalogKeeps == MirrorIInv /\ FillCatalog => MirrorIInv'
<1> SUFFICES ASSUME MirrorIInv, FillCatalog PROVE MirrorIInv'
  OBVIOUS
<1>1. /\ Fills /\ RowDone /\ Tables(mirror) /\ (~strayed => Backed(mirror, sqlite, elsewhere))
      /\ fill \in FillStates /\ ToFill /\ fill.stage = "catalogs" /\ fill.todo # {}
  BY DEF MirrorIInv, FillCatalog, Continues, Filling
<1>2. NextRow \in SyncedOnes(sqlite) /\ ~fill.half
  BY <1>1, NextIsToGo DEF ToFill
<1>3. fill' \in FillStates /\ ToFill'
  BY <1>1, <1>2, RowBehind
<1>4. PICK row : mirror' = WithCatalog(mirror, NextRow, row)
  BY DEF FillCatalog
<1> QED
  BY <1>1, <1>2, <1>3, <1>4, CatalogRowWritten, FilledKeeps

\* A listing that was observed is one of the listings.
LEMMA ObservedListed ==
  ASSUME Books
  PROVE  Observed(sqlite.store) \subseteq Listings
BY DEF Books, Ledger, StoreOf, Observed

\* The three rows of a listing.
LEMMA FillListingKeeps == MirrorIInv /\ FillListing => MirrorIInv'
<1> SUFFICES ASSUME MirrorIInv, FillListing PROVE MirrorIInv'
  OBVIOUS
<1>1. /\ Fills /\ Books /\ Tables(mirror) /\ (~strayed => Backed(mirror, sqlite, elsewhere))
      /\ fill \in FillStates /\ ToFill /\ fill.stage = "listings" /\ fill.todo # {}
      /\ fill' = [fill EXCEPT !.half = TRUE]
  BY DEF MirrorIInv, FillListing, Continues, Filling
<1>2. NextRow \in Observed(sqlite.store) /\ NextRow \in Listings
  BY <1>1, NextIsToGo, ObservedListed DEF ToFill
<1>3. PICK id, summary, row :
        mirror' = [WithIdentity(mirror, NextRow, id) EXCEPT !.summary[NextRow] = summary,
                                                            !.current[NextRow] = row]
  BY DEF FillListing
<1> DEFINE one == WithIdentity(mirror, NextRow, id)
           two == WithSummary(one, NextRow, summary)
<1>4. Tables(one) /\ (~strayed => Backed(one, sqlite, elsewhere))
  BY <1>1, <1>2, IdentityRowWritten
<1>5. mirror' = WithCurrent(two, NextRow, row)
  BY <1>3 DEF WithSummary, WithCurrent
<1> HIDE DEF one
<1>6. Tables(two) /\ (~strayed => Backed(two, sqlite, elsewhere))
  BY <1>2, <1>4, SummaryRowWritten
<1> HIDE DEF two
<1>7. Tables(mirror') /\ (~strayed => Backed(mirror', sqlite, elsewhere))
  BY <1>2, <1>5, <1>6, CurrentRowWritten
<1>8. /\ fill' \in FillStates /\ fill'.stage = "listings" /\ fill'.todo = fill.todo
      /\ sqlite' = sqlite
  BY <1>1 DEF FillStates, Fills
<1>9. ToFill'
  BY <1>1, <1>8 DEF ToFill
<1> QED
  BY <1>1, <1>7, <1>8, <1>9, FilledKeeps

\* Its verdict.
LEMMA FillVerdictKeeps == MirrorIInv /\ FillVerdict => MirrorIInv'
<1> SUFFICES ASSUME MirrorIInv, FillVerdict PROVE MirrorIInv'
  OBVIOUS
<1>1. /\ Fills /\ Books /\ Tables(mirror) /\ (~strayed => Backed(mirror, sqlite, elsewhere))
      /\ fill \in FillStates /\ ToFill /\ fill.stage = "listings" /\ fill.todo # {}
  BY DEF MirrorIInv, FillVerdict, Continues, ToFill
<1>2. NextRow \in Observed(sqlite.store) /\ NextRow \in Listings
  BY <1>1, NextIsToGo, ObservedListed DEF ToFill
<1>3. PICK row : mirror' = WithCurrent(mirror, NextRow, row)
  BY DEF FillVerdict, WithCurrent
<1>4. Tables(mirror') /\ (~strayed => Backed(mirror', sqlite, elsewhere))
  BY <1>1, <1>2, <1>3, CurrentRowWritten
<1> DEFINE rest == fill.todo \ {NextRow}
<1>5. fill' = [fill EXCEPT !.half = FALSE, !.todo = rest]
  BY DEF FillVerdict
<1>6. rest \subseteq fill.todo
  OBVIOUS
<1> HIDE DEF rest
<1>7. /\ fill' \in FillStates /\ fill'.stage = "listings" /\ fill'.todo = rest /\ ~fill'.half
  BY <1>1, <1>5, <1>6 DEF FillStates
<1>8. ToFill'
  BY <1>1, <1>6, <1>7, StillToFill DEF ToFill
<1> QED
  BY <1>1, <1>4, <1>7, <1>8, FilledKeeps

\* A cycle of the runtime.
LEMMA FillCycleKeeps == MirrorIInv /\ FillCycle => MirrorIInv'
<1> SUFFICES ASSUME MirrorIInv, FillCycle PROVE MirrorIInv'
  OBVIOUS
<1>1. /\ Fills /\ RowDone /\ Tables(mirror) /\ (~strayed => Backed(mirror, sqlite, elsewhere))
      /\ fill \in FillStates /\ ToFill /\ fill.stage = "cycles" /\ fill.todo # {}
      /\ mirror' = WithCycle(mirror, NextRow)
  BY DEF MirrorIInv, FillCycle, Continues, Filling
<1>2. NextRow \in sqlite.cycles /\ ~fill.half
  BY <1>1, NextIsToGo DEF ToFill
<1>3. fill' \in FillStates /\ ToFill'
  BY <1>1, <1>2, RowBehind
<1> QED
  BY <1>1, <1>2, <1>3, CycleWritten, FilledKeeps

\* The next tables are read.
LEMMA FillGoesOnKeeps == MirrorIInv /\ FillGoesOn => MirrorIInv'
<1> SUFFICES ASSUME MirrorIInv, FillGoesOn PROVE MirrorIInv'
  OBVIOUS
<1>1. /\ Fills /\ mirror' = mirror /\ Books /\ Tables(mirror)
      /\ (~strayed => Backed(mirror, sqlite, elsewhere))
      /\ fill \in FillStates /\ ~fill.half
  BY DEF MirrorIInv, FillGoesOn, Continues, Filled
<1>2. ASSUME NEW stage \in {"catalogs", "listings", "cycles"}, NEW todo \in SUBSET Nat,
             TurnsTo(stage, todo)
      PROVE  fill' \in FillStates /\ fill'.stage = stage /\ fill'.todo = todo /\ ~fill'.half
  BY <1>1, <1>2 DEF TurnsTo, FillStates, Books
<1>3. CASE TurnsTo("catalogs", SyncedOnes(sqlite))
  <2>1. SyncedOnes(sqlite) \in SUBSET Nat
    BY MirrorBounds DEF SyncedOnes
  <2>2. /\ fill' \in FillStates /\ fill'.stage = "catalogs" /\ fill'.todo = SyncedOnes(sqlite)
        /\ ~fill'.half
    BY <1>2, <1>3, <2>1
  <2>3. ToFill'
    BY <1>1, <2>2, StillToFill
  <2> QED
    BY <1>1, <2>2, <2>3, FilledKeeps
<1>4. CASE TurnsTo("listings", Observed(sqlite.store))
  <2>1. Observed(sqlite.store) \in SUBSET Nat
    BY <1>1, MirrorBounds, ObservedListed
  <2>2. /\ fill' \in FillStates /\ fill'.stage = "listings" /\ fill'.todo = Observed(sqlite.store)
        /\ ~fill'.half
    BY <1>2, <1>4, <2>1
  <2>3. ToFill'
    BY <1>1, <2>2, StillToFill
  <2> QED
    BY <1>1, <2>2, <2>3, FilledKeeps
<1>5. CASE TurnsTo("cycles", sqlite.cycles)
  <2>1. sqlite.cycles \in SUBSET Nat
    BY <1>1 DEF Books, Ledger
  <2>2. /\ fill' \in FillStates /\ fill'.stage = "cycles" /\ fill'.todo = sqlite.cycles
        /\ ~fill'.half
    BY <1>2, <1>5, <2>1
  <2>3. ToFill'
    BY <1>1, <2>2, StillToFill
  <2> QED
    BY <1>1, <2>2, <2>3, FilledKeeps
<1> QED
  BY <1>3, <1>4, <1>5 DEF FillGoesOn

\* A backfill ends, or dies.
LEMMA FillOverKeeps == MirrorIInv /\ (FillEnds \/ FillDies) => MirrorIInv'
<1> SUFFICES ASSUME MirrorIInv, FillEnds \/ FillDies PROVE MirrorIInv'
  OBVIOUS
<1>1. /\ Fills /\ mirror' = mirror /\ Tables(mirror)
      /\ (~strayed => Backed(mirror, sqlite, elsewhere))
      /\ fill' = NoFill
  BY DEF MirrorIInv, FillEnds, FillDies
<1>2. NoFill.stage = "off" /\ NoFill.half = FALSE
  BY DEF NoFill
<1>3. fill' \in FillStates /\ ToFill'
  BY <1>1, <1>2, RestingTyped DEF ToFill
<1> QED
  BY <1>1, <1>3, FilledKeeps

-----------------------------------------------------------------------------
(* Mutable truth twice: the cycles of the runtime.                         *)

\* A step that only touches cycles keeps the invariant if none is taken out of SQLite.
LEMMA CyclesKeep ==
  ASSUME MirrorIInv, CyclesAlone, Onward, Tables(mirror'),
         ~strayed => Backed(mirror', sqlite', elsewhere'), elsewhere' \in BOOLEAN, turns' \in Nat
  PROVE  MirrorIInv'
<1>1. UNCHANGED <<live, fill, today, strayed>>
  BY DEF CyclesAlone
<1>2. live' \in LiveStates /\ AtWork'
  BY <1>1 DEF MirrorIInv, AtWork, Onward
<1>3. fill' \in FillStates /\ ToFill'
  BY <1>1 DEF MirrorIInv, ToFill, Onward
<1>4. strayed' \in BOOLEAN /\ (~strayed' => Backed(mirror', sqlite', elsewhere'))
  BY <1>1 DEF MirrorIInv
<1> QED
  BY <1>2, <1>3, <1>4 DEF MirrorIInv, Onward

\* Nothing of the tables but the cycles.
LEMMA CyclesOnly ==
  ASSUME NEW m, Tables(m), NEW cycles
  PROVE  LET e == [m EXCEPT !.cycles = cycles]
         IN /\ Tables(e) /\ e.cycles = cycles
            /\ \A ledger, alone :
                 Backed(m, ledger, alone) /\ (alone \/ cycles \subseteq ledger.cycles)
                   => Backed(e, ledger, alone)
<1> DEFINE e == [m EXCEPT !.cycles = cycles]
<1>1. e = [runs |-> m.runs, catalogs |-> m.catalogs, identity |-> m.identity,
           summary |-> m.summary, current |-> m.current, cycles |-> cycles]
  BY DEF Tables
<1> HIDE DEF e
<1>2. Tables(e) /\ e.cycles = cycles
  BY <1>1 DEF Tables
<1>3. ASSUME NEW ledger, NEW alone, Backed(m, ledger, alone),
             alone \/ cycles \subseteq ledger.cycles
      PROVE  Backed(e, ledger, alone)
  BY <1>1, <1>3 DEF Backed
<1> QED
  BY <1>2, <1>3 DEF e

\* start_runtime_cycle, in either store.
LEMMA CycleBeginsKeeps == MirrorIInv /\ CycleBegins => MirrorIInv'
<1> SUFFICES ASSUME MirrorIInv, CycleBegins PROVE MirrorIInv'
  OBVIOUS
<1>1. /\ Books /\ Tables(mirror) /\ (~strayed => Backed(mirror, sqlite, elsewhere))
      /\ elsewhere \in BOOLEAN /\ turns + 1 \in Nat /\ turns' = turns + 1
      /\ CyclesAlone /\ today' = today
  BY DEF MirrorIInv, CycleBegins, CyclesAlone
<1>2. CASE /\ sqlite' = [sqlite EXCEPT !.cycles = @ \cup {turns + 1}]
           /\ UNCHANGED <<mirror, elsewhere>>
  <2> DEFINE cycles == sqlite.cycles \cup {turns + 1}
  <2>1. IsFiniteSet(cycles) /\ cycles \in SUBSET Nat /\ sqlite.cycles \subseteq cycles
    BY <1>1, FS_AddElement DEF Books, Ledger
  <2>2. sqlite' = [sqlite EXCEPT !.cycles = cycles]
    BY <1>2
  <2> HIDE DEF cycles
  <2>3. /\ sqlite' \in Ledger /\ sqlite'.cycles = cycles /\ sqlite'.store = sqlite.store
        /\ sqlite'.synced = sqlite.synced
    BY <1>1, <2>1, <2>2 DEF Books, Ledger
  <2>4. Onward
    BY <1>1, <2>1, <2>3 DEF Books, Onward, Begun, SyncedOnes
  <2>5. ~strayed => Backed(mirror', sqlite', elsewhere')
    BY <1>1, <1>2, <2>4, BehindStill
  <2> QED
    BY <1>1, <1>2, <2>4, <2>5, CyclesKeep
<1>3. CASE mirror' = WithCycle(mirror, turns + 1) /\ elsewhere' = TRUE /\ UNCHANGED sqlite
  <2>1. PICK cycles : mirror' = [mirror EXCEPT !.cycles = cycles]
    BY <1>3 DEF WithCycle
  <2>2. Onward
    BY <1>1, <1>3, StoodOnward
  <2>3. Tables(mirror')
    BY <1>1, <2>1, CyclesOnly
  <2>4. ~strayed => Backed(mirror, sqlite, TRUE)
    BY <1>1 DEF Backed
  <2>5. ~strayed => Backed(mirror', sqlite, TRUE)
    BY <1>1, <2>1, <2>4, CyclesOnly
  <2> QED
    BY <1>1, <1>3, <2>2, <2>3, <2>5, CyclesKeep
<1> QED
  BY <1>2, <1>3 DEF CycleBegins

\* The retention, in PostgreSQL.
LEMMA CyclesPrunedKeeps == MirrorIInv /\ CyclesPruned => MirrorIInv'
<1> SUFFICES ASSUME MirrorIInv, CyclesPruned PROVE MirrorIInv'
  OBVIOUS
<1>1. /\ Books /\ Tables(mirror) /\ (~strayed => Backed(mirror, sqlite, elsewhere))
      /\ elsewhere \in BOOLEAN /\ turns \in Nat /\ SameCycles
      /\ CyclesAlone /\ today' = today /\ UNCHANGED sqlite
  BY DEF MirrorIInv, CyclesPruned, CyclesAlone
<1>2. PICK gone : mirror' = [mirror EXCEPT !.cycles = mirror.cycles \ gone]
  BY DEF CyclesPruned
<1>3. UNCHANGED <<turns, elsewhere>>
  BY <1>1 DEF SameCycles
<1> DEFINE left == mirror.cycles \ gone
<1>4. ~strayed => elsewhere \/ left \subseteq sqlite.cycles
  BY <1>1 DEF Backed
<1> HIDE DEF left
<1>5. Tables(mirror') /\ (~strayed => Backed(mirror', sqlite, elsewhere))
  BY <1>1, <1>2, <1>4, CyclesOnly DEF left
<1>6. Onward
  BY <1>1, StoodOnward
<1> QED
  BY <1>1, <1>3, <1>5, <1>6, CyclesKeep

-----------------------------------------------------------------------------
(* Mutable truth twice: the theorem.                                       *)

\* The last day of a ledger is one.
LEMMA LastDayTyped ==
  ASSUME NEW ledger \in Ledgers
  PROVE  LastDay(ledger) \in Nat
<1> DEFINE scanned == {s.at : s \in ledger.store.scans}
           days == {0} \cup Range(ledger.begun) \cup Range(ledger.synced) \cup scanned
<1>1. ledger \in Ledger /\ IsFiniteSet(ledger.store.scans)
  BY MirrorAssumption
<1>2. /\ Range(ledger.begun) = {ledger.begun[r] : r \in Runs}
      /\ Range(ledger.synced) = {ledger.synced[c] : c \in Catalogs}
  BY <1>1 DEF Range, Ledger
<1>3. /\ Range(ledger.begun) \subseteq Nat /\ Range(ledger.synced) \subseteq Nat
      /\ scanned \subseteq Nat
  BY <1>1, <1>2 DEF Ledger, StoreOf
<1>4. IsFiniteSet(Range(ledger.begun))
  <2>1. ledger.begun = [r \in Runs |-> ledger.begun[r]]
    BY <1>1 DEF Ledger
  <2> QED
    BY <1>2, <2>1, MirrorBounds, FiniteValues
<1>5. IsFiniteSet(Range(ledger.synced))
  <2>1. ledger.synced = [c \in Catalogs |-> ledger.synced[c]]
    BY <1>1 DEF Ledger
  <2> QED
    BY <1>2, <2>1, MirrorBounds, FiniteValues
<1>6. IsFiniteSet(scanned)
  <2> DEFINE at == [s \in ledger.store.scans |-> s.at]
  <2>1. at = [s \in ledger.store.scans |-> at[s]] /\ scanned = {at[s] : s \in ledger.store.scans}
    OBVIOUS
  <2> HIDE DEF at, scanned
  <2> QED
    BY <1>1, <2>1, FiniteValues
<1>7. IsFiniteSet({0})
  BY FS_Singleton
<1> HIDE DEF scanned
<1>8. IsFiniteSet(days)
  <2>1. IsFiniteSet({0} \cup Range(ledger.begun))
    BY <1>4, <1>7, FS_Union
  <2>2. IsFiniteSet({0} \cup Range(ledger.begun) \cup Range(ledger.synced))
    BY <1>5, <2>1, FS_Union
  <2> QED
    BY <1>6, <2>2, FS_Union
<1>9. days \subseteq Nat /\ days # {}
  <2>1. 0 \in days
    OBVIOUS
  <2>2. {0} \subseteq Nat
    OBVIOUS
  <2>3. days \subseteq Nat
    BY <1>3, <2>2 DEF scanned
  <2> QED
    BY <2>1, <2>3
<1> HIDE DEF days
<1>10. Max(days) \in Nat
  BY <1>8, <1>9, GreatestOfNats
<1> QED
  BY <1>10 DEF LastDay, days, scanned

\* It holds at first.
LEMMA MirrorStarts == MirrorInit => MirrorIInv
<1> SUFFICES ASSUME MirrorInit PROVE MirrorIInv
  OBVIOUS
<1>1. Books
  BY MirrorAssumption, LastDayTyped DEF MirrorInit, Books
<1>2. /\ mirror = NoMirror /\ live = Resting /\ fill = NoFill /\ strayed = FALSE
      /\ elsewhere = FALSE /\ turns = 0
  BY DEF MirrorInit
<1>3. Tables(mirror)
  BY <1>2 DEF NoMirror, Tables
<1>4. Backed(mirror, sqlite, elsewhere)
  <2>1. Unjudged.at = 0
    BY DEF Unjudged
  <2> QED
    BY <1>2, <2>1 DEF NoMirror, Backed
<1>5. live \in LiveStates /\ AtWork
  <2>1. Resting.stage = "off" /\ Resting.page.of = {}
    BY DEF Resting, NoPage
  <2> QED
    BY <1>2, <2>1, RestingTyped DEF AtWork, RunStages
<1>6. fill \in FillStates /\ ToFill
  <2>1. NoFill.stage = "off" /\ NoFill.half = FALSE
    BY DEF NoFill
  <2> QED
    BY <1>2, <2>1, RestingTyped DEF ToFill
<1> QED
  BY <1>1, <1>2, <1>3, <1>4, <1>5, <1>6 DEF MirrorIInv

\* Every step keeps it.
LEMMA MirrorGoesOn == MirrorIInv /\ [MirrorNext]_mirrorVars => MirrorIInv'
<1> SUFFICES ASSUME MirrorIInv, [MirrorNext]_mirrorVars PROVE MirrorIInv'
  OBVIOUS
<1>1. CASE UNCHANGED mirrorVars
  BY <1>1 DEF mirrorVars, MirrorIInv, Books, AtWork, ToFill, Begun, SyncedOnes
<1>2. CASE RunStarts \/ TreeStored \/ ScanStored \/ ScanTorn \/ RunEnds \/ ProbeStored
  BY <1>2, RunStartsKeeps, TreeStoredKeeps, ScanStoredKeeps, ScanTornKeeps, RunEndsKeeps,
     ProbeStoredKeeps
<1>3. CASE \/ StartProjected \/ SyncProjected \/ SeenProjected \/ ScanProjected \/ EndProjected
           \/ ProbeProjected
  BY <1>3, StartProjectedKeeps, SyncProjectedKeeps, SeenProjectedKeeps, ScanProjectedKeeps,
     EndProjectedKeeps, ProbeProjectedKeeps
<1>4. CASE ProjectionRaises \/ CollectorDies
  BY <1>4, ProjectionRaisesKeeps, CollectorDiesKeeps
<1>5. CASE FillBegins \/ FillRun \/ FillCatalog \/ FillListing \/ FillVerdict \/ FillCycle
  BY <1>5, FillBeginsKeeps, FillRunKeeps, FillCatalogKeeps, FillListingKeeps, FillVerdictKeeps,
     FillCycleKeeps
<1>6. CASE FillGoesOn \/ FillEnds \/ FillDies
  BY <1>6, FillGoesOnKeeps, FillOverKeeps
<1>7. CASE CycleBegins \/ CyclesPruned
  BY <1>7, CycleBeginsKeeps, CyclesPrunedKeeps
<1> QED
  BY <1>1, <1>2, <1>3, <1>4, <1>5, <1>6, <1>7 DEF MirrorNext

\* The mirror's invariant: behind every row of PostgreSQL stands one of SQLite, unless a page was
\* projected that SQLite did not take, and but for cycles once one was begun in PostgreSQL alone,
\* whatever was interrupted and in whatever order the collector and a backfill wrote.
\* (services/discovery.py projects after it stores, services/postgres_backfill.py writes what it
\* read.)
THEOREM MirrorInvariant == MirrorSpec => []MirrorIInv
<1> QED
  BY MirrorStarts, MirrorGoesOn, PTL DEF MirrorSpec

\* Of finite sets one in the other with as many members, each is the other.
LEMMA AsManyIsSame ==
  ASSUME NEW S, NEW T, IsFiniteSet(T), S \subseteq T, Cardinality(S) = Cardinality(T)
  PROVE  S = T
BY FS_Subset

\* Counts that match are the same rows, in every table the reconciliation compares, as long as every
\* page that was projected is in SQLite; of the cycles, as long as none was begun in PostgreSQL
\* alone, whatever the retention has taken out of it.  (services/reconciliation.py compares numbers
\* of rows.)
THEOREM CountsAlwaysTell == MirrorSpec => []CountsTell
<1>1. MirrorIInv => CountsTell
  <2> SUFFICES ASSUME MirrorIInv, ~strayed, NEW table \in Telling, CountsMatch(table)
               PROVE  Mirrored[table] = Baseline[table]
    BY DEF CountsTell
  <2>1. Books /\ Backed(mirror, sqlite, elsewhere)
    BY DEF MirrorIInv
  <2>2. table \in ComparedTables /\ (table = "cycles" => ~elsewhere)
    BY DEF Telling
  <2>6. Mirrored[table] \subseteq Baseline[table]
    BY <2>1, <2>2 DEF ComparedTables, Mirrored, Baseline, Backed
  <2>3. /\ IsFiniteSet(Begun(sqlite)) /\ IsFiniteSet(SyncedOnes(sqlite))
        /\ IsFiniteSet(Observed(sqlite.store)) /\ IsFiniteSet(sqlite.cycles)
    <3>1. /\ Begun(sqlite) \subseteq Runs /\ SyncedOnes(sqlite) \subseteq Catalogs
          /\ Observed(sqlite.store) \subseteq Listings
      BY <2>1, ObservedListed DEF Begun, SyncedOnes
    <3> QED
      BY <2>1, <3>1, MirrorBounds, FS_Subset DEF Books
  <2>4. IsFiniteSet(Baseline[table])
    BY <2>2, <2>3 DEF ComparedTables, Baseline
  <2>5. Cardinality(Mirrored[table]) = Cardinality(Baseline[table])
    BY DEF CountsMatch
  <2> HIDE DEF CountsMatch
  <2> QED
    BY <2>4, <2>5, <2>6, AsManyIsSame
<1> QED
  BY <1>1, MirrorInvariant, PTL
=============================================================================
