------------------------------- MODULE Evidence -------------------------------
(***************************************************************************)
(* The SQLite evidence store, repository.py: the tables a collector writes *)
(* (each operator below one committed statement) and the queries that read *)
(* verdicts, probe targets and coverage back from them.                    *)
(*                                                                         *)
(* Left out: the card's descriptive columns, except for how many of them   *)
(* are filled (a constant of the listing), and the caches of the overview. *)
(* Runs are numbered in the order of their identifiers, which begin with   *)
(* the time of their start; times are days, so that a sighting is recent   *)
(* (ACTIVE_RECENT_WITHOUT_RESCAN_HOURS) when at most one day old.          *)
(***************************************************************************)
EXTENDS ListingState, Sequences, FiniteSetsExt

CONSTANTS
  Listings,      \* listings, numbered
  Catalogs,      \* leaf catalogs, numbered
  Completeness,  \* how many columns of a listing's card are filled
  MaxRuns,       \* bound: discovery runs
  PageLimit,     \* options.page_limit
  Times          \* bound: the days on which something happens

ASSUME EvidenceAssumption ==
  /\ Listings \subseteq Nat /\ IsFiniteSet(Listings)
  /\ Catalogs \subseteq Nat /\ IsFiniteSet(Catalogs)
  /\ Completeness \in [Listings -> 0..7]
  /\ MaxRuns \in Nat /\ PageLimit \in Nat \ {0}
  /\ Times \subseteq Nat /\ IsFiniteSet(Times) /\ 0 \in Times

Runs == 1..MaxRuns

RunRow == [status : {"none", "running", "completed", "failed"}, scanned : Nat, ok : Nat,
           failed : Nat, unique : Nat]
NewRun == [status |-> "none", scanned |-> 0, ok |-> 0, failed |-> 0, unique |-> 0]

\* discovery_runs, catalog_scans, listing_discoveries, listing_observations, listings,
\* item_page_probes.
StoreOf(days) ==
  [runs : [Runs -> RunRow],
   scans : SUBSET [run : Runs, catalog : Catalogs, page : 1..PageLimit, at : days, ok : BOOLEAN],
   found : SUBSET [run : Runs, listing : Listings, catalog : Catalogs, page : 1..PageLimit,
                   at : days],
   observed : SUBSET [run : Runs, listing : Listings, at : days, catalog : Catalogs,
                      sightings : Nat],
   listings : SUBSET [listing : Listings, primary : Catalogs, run : Runs, first : days,
                      last : days],
   probes : SUBSET [listing : Listings, at : days, outcome : Outcomes \ {"none"}]]
Store == StoreOf(Times)

EmptyStore == [runs |-> [r \in Runs |-> NewRun], scans |-> {}, found |-> {}, observed |-> {},
               listings |-> {}, probes |-> {}]

-----------------------------------------------------------------------------
(* Writes.                                                                 *)

StartRun(db, r) == [db EXCEPT !.runs[r].status = "running"]

CompleteRun(db, r, status, totals) ==
  [db EXCEPT !.runs[r] = [status |-> status, scanned |-> totals.scanned, ok |-> totals.ok,
                          failed |-> totals.failed, unique |-> totals.unique]]

RecordScan(db, r, c, p, t, ok) ==
  [db EXCEPT !.scans = @ \cup {[run |-> r, catalog |-> c, page |-> p, at |-> t, ok |-> ok]}]

\* upsert_listing: the last page handled names the primary catalog, not the latest one fetched.
UpsertListing(db, r, c, t, l) ==
  LET old == {x \in db.listings : x.listing = l}
      first == IF old = {} THEN t ELSE (CHOOSE x \in old : TRUE).first
  IN [db EXCEPT !.listings = (@ \ old) \cup
        {[listing |-> l, primary |-> c, run |-> r, first |-> first, last |-> t]}]

RecordDiscovery(db, r, c, p, t, l) ==
  [db EXCEPT !.found =
     {x \in @ : <<x.run, x.listing, x.catalog, x.page>> # <<r, l, c, p>>}
       \cup {[run |-> r, listing |-> l, catalog |-> c, page |-> p, at |-> t]}]

\* Mutant: a further sighting in the run leaves the time of the first one recorded.
RecordObservationInOrder(db, r, c, t, l) ==
  LET old == {x \in db.observed : x.run = r /\ x.listing = l}
      new == [run |-> r, listing |-> l, at |-> t, catalog |-> c, sightings |-> 1]
      kept(x) == [x EXCEPT !.sightings = @ + 1]
  IN [db EXCEPT !.observed = (@ \ old) \cup IF old = {} THEN {new} ELSE {kept(x) : x \in old}]

\* record_listing_observation: one row a run, which keeps the earliest time and its catalog.
RecordObservation(db, r, c, t, l) ==
  LET old == {x \in db.observed : x.run = r /\ x.listing = l}
      new == [run |-> r, listing |-> l, at |-> t, catalog |-> c, sightings |-> 1]
      kept(x) == [x EXCEPT !.sightings = @ + 1,
                           !.at = IF t < @ THEN t ELSE @,
                           !.catalog = IF t < x.at THEN c ELSE @]
  IN [db EXCEPT !.observed = (@ \ old) \cup IF old = {} THEN {new} ELSE {kept(x) : x \in old}]

RecordProbe(db, l, t, outcome) ==
  [db EXCEPT !.probes = @ \cup {[listing |-> l, at |-> t, outcome |-> outcome]}]

-----------------------------------------------------------------------------
(* The parts the three large queries share, word for word in each.         *)

Observed(db) == {o.listing : o \in db.observed}
Of(db, l) == {o \in db.observed : o.listing = l}
LastSeen(db, l) == Max({o.at : o \in Of(db, l)})
LastRun(db, l) == Max({o.run : o \in {o \in Of(db, l) : o.at = LastSeen(db, l)}})
Primary(db, l) == (CHOOSE x \in db.listings : x.listing = l).primary

\* Successful scans of the primary catalog; 0 where there is none.
PrimaryScans(db, l) == {s \in db.scans : s.ok /\ s.catalog = Primary(db, l)}
LatestScanRun(db, l) ==
  LET S == PrimaryScans(db, l)
      at == Max({s.at : s \in S})
  IN IF S = {} THEN 0 ELSE Max({s.run : s \in {s \in S : s.at = at}})

\* follow_up_miss: the runs whose scans came after the last sighting and which did not see it.
Misses(db, l) ==
  Cardinality({s.run : s \in {s \in PrimaryScans(db, l) : s.at > LastSeen(db, l)}}
                \ {o.run : o \in Of(db, l)})

LatestProbe(db, l) ==
  LET P == {p \in db.probes : p.listing = l}
  IN IF P = {} THEN [listing |-> l, at |-> -1, outcome |-> "none"]
     ELSE CHOOSE p \in P : \A q \in P : q.at <= p.at

Age(db, l, now) ==
  LET days == now - LastSeen(db, l)
  IN IF days <= 1 THEN "recent" ELSE IF days <= 3 THEN "dated" ELSE "stale"

-----------------------------------------------------------------------------
(* Read in Python.                                                         *)

\* listing_state_inputs, judged by evaluate_listing_state.
Judged(db, l, now) ==
  LET scan == LatestScanRun(db, l)
  IN Evaluate(LatestProbe(db, l).outcome, scan # 0 /\ scan = LastRun(db, l), Misses(db, l),
              scan # 0, Age(db, l, now))

\* _needs_probe
NeedsProbe(db, l) ==
  /\ LatestProbe(db, l).outcome = "none" \/ LatestProbe(db, l).at < LastSeen(db, l)
  /\ Misses(db, l) > 0 \/ Cardinality(Of(db, l)) = 1

-----------------------------------------------------------------------------
(* Read in SQL.                                                            *)

\* Mutant: a probe of the very second of the sighting counts as stale.
TargetsStaleAtOnce(db) ==
  {l \in Observed(db) : /\ LatestProbe(db, l).at <= LastSeen(db, l)
                        /\ Misses(db, l) > 0 \/ Cardinality(Of(db, l)) = 1}

\* state_refresh_probe_targets, before its order and limit.
Targets(db) ==
  {l \in Observed(db) : /\ LatestProbe(db, l).at < LastSeen(db, l)
                        /\ Misses(db, l) > 0 \/ Cardinality(Of(db, l)) = 1}

\* Its order: more misses, a single observation, the longer ago, the fuller card, the number.
Urgency(db, l, now) ==
  <<-Misses(db, l), IF Cardinality(Of(db, l)) = 1 THEN 0 ELSE 1, LastSeen(db, l) - now,
    -Completeness[l], l>>
Precedes(x, y) == \E i \in DOMAIN x : x[i] < y[i] /\ \A j \in 1..(i - 1) : x[j] = y[j]

Chosen(db, now, limit) ==
  {l \in Targets(db) :
     Cardinality({m \in Targets(db) : Precedes(Urgency(db, m, now), Urgency(db, l, now))}) < limit}

\* classified of _overview_state_snapshot_ctes: the three ladders of its CASE expressions.
OverviewState(probe, seen, misses, scanned, age) ==
  CASE probe = "deleted" -> "deleted"
    [] probe = "sold" -> "sold_observed"
    [] probe = "active" -> "active"
    [] probe = "unavailable" -> "unavailable_non_conclusive"
    [] probe \in {"none", "unknown"} ->
         CASE seen -> "active"
           [] ~seen /\ misses >= 2 -> "sold_probable"
           [] ~seen /\ misses = 1 -> "unavailable_non_conclusive"
           [] ~seen /\ misses = 0 -> IF ~scanned /\ age = "recent" THEN "active" ELSE "unknown"

OverviewBasis(probe, seen, misses, scanned, age) ==
  CASE probe \in {"deleted", "sold", "active", "unavailable"} \/ seen -> "observed"
    [] OTHER -> IF misses >= 1 \/ (~scanned /\ age = "recent") THEN "inferred" ELSE "unknown"

OverviewConfidence(probe, seen, misses, scanned, age) ==
  CASE probe \in {"deleted", "sold", "active"} -> "high"
    [] probe = "unavailable" -> "medium"
    [] probe \in {"none", "unknown"} ->
         CASE seen -> "high"
           [] ~seen /\ misses = 2 -> "medium"
           [] ~seen /\ misses >= 3 -> "high"
           [] ~seen /\ misses = 1 -> "low"
           [] ~seen /\ misses = 0 -> IF ~scanned /\ age = "recent" THEN "medium" ELSE "low"

Overview(db, l, now) ==
  LET scan == LatestScanRun(db, l)
      seen == scan # 0 /\ scan = LastRun(db, l)
      probe == LatestProbe(db, l).outcome
      misses == Misses(db, l)
      age == Age(db, l, now)
  IN Verdict(OverviewState(probe, seen, misses, scan # 0, age),
             OverviewBasis(probe, seen, misses, scan # 0, age),
             OverviewConfidence(probe, seen, misses, scan # 0, age))

\* coverage_summary of a run, over all roots.
Coverage(db, r) ==
  [ok |-> Cardinality({s \in db.scans : s.run = r /\ s.ok}),
   failed |-> Cardinality({s \in db.scans : s.run = r /\ ~s.ok}),
   scanned |-> Cardinality({s.catalog : s \in {s \in db.scans : s.run = r}}),
   unique |-> Cardinality({f.listing : f \in {f \in db.found : f.run = r}})]
=============================================================================
