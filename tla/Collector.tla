------------------------------ MODULE Collector ------------------------------
(***************************************************************************)
(* The collector of one host: discovery runs (services/discovery.py) and   *)
(* state refreshes (services/state_refresh.py) that write the SQLite       *)
(* store, the lake and the outbox, none of which shares a transaction with *)
(* another.                                                                *)
(*                                                                         *)
(* The scans of a run share one event loop: a page that has come in is     *)
(* handled without an await, and is one step here that an exception, or    *)
(* the death of the process, may end after any of its writes.  Runs of     *)
(* several lanes may overlap.  The projection into PostgreSQL is modelled  *)
(* by CurrentState, and here only as a call that may raise.                *)
(***************************************************************************)
EXTENDS Evidence, Lake, SequencesExt

CONSTANTS
  Depth,             \* pages a catalog has, as the answers say (pagination.total_pages)
  Options,           \* of each run: the catalogs it scans, and the pages it asks for at most
  Pages,             \* what a catalog may list on a page: the cards accepted, in order
  Answers,           \* what an item page may say
  ProbeLimit,        \* targets of a refresh
  MaxRefreshes,      \* bound: state refreshes
  MaxCollectFaults   \* bound: exceptions of a store, deaths of a process

ASSUME CollectorAssumption ==
  /\ Depth \in [Catalogs -> Nat \ {0}]
  /\ Options \in [Runs -> [catalogs : (SUBSET Catalogs) \ {{}}, pages : 1..PageLimit]]
  /\ Pages \subseteq Seq(Listings)
  /\ Answers \subseteq Outcomes \ {"none"}
  /\ ProbeLimit \in Nat /\ MaxRefreshes \in Nat /\ MaxCollectFaults \in Nat

NoTotals == [scanned |-> 0, ok |-> 0, failed |-> 0, unique |-> 0]

VARIABLES
  db,         \* the SQLite store
  lake,       \* the objects of the lake
  published,  \* batches in the outbox
  now,        \* the day
  scan,       \* a run's scan of a catalog: page and time asked for, what it has counted
  refresh,    \* the state refresh: its stage, targets to go, probes it has recorded
  refreshes,  \* state refreshes begun
  collectFaults

collectVars == <<db, lake, published, now, scan, refresh, refreshes, collectFaults>>

Idle == [stage |-> "none", page |-> 1, at |-> 0, ok |-> 0, failed |-> 0, unique |-> {}]
NoRefresh == [stage |-> "none", todo |-> {}, told |-> {}, from |-> 0]

CollectInit ==
  /\ db = EmptyStore
  /\ lake = {}
  /\ published = {}
  /\ now = 0
  /\ scan = [r \in Runs |-> [c \in Catalogs |-> Idle]]
  /\ refresh = NoRefresh
  /\ refreshes = 0
  /\ collectFaults = MaxCollectFaults

Soon == {t \in Times : t >= now}

-----------------------------------------------------------------------------
(* Discovery.                                                              *)

\* start_run, the catalog tree, upsert_catalogs: the scans of the chosen catalogs ask for their
\* first page.  A tree that cannot be had fails the run.
Launch(r) ==
  /\ db.runs[r].status = "none" /\ \A q \in 1..(r - 1) : db.runs[q].status # "none"
  /\ \/ \E t \in Soon :
          /\ now' = t
          /\ db' = StartRun(db, r)
          /\ scan' = [scan EXCEPT ![r] = [c \in Catalogs |->
                        IF c \in Options[r].catalogs THEN [Idle EXCEPT !.stage = "asks", !.at = t]
                        ELSE Idle]]
     \/ /\ db' = CompleteRun(db, r, "failed", NoTotals)
        /\ UNCHANGED <<now, scan>>
  /\ UNCHANGED <<lake, published, refresh, refreshes, collectFaults>>

World == [db |-> db, lake |-> lake, published |-> published]

\* The event's identity, its payload, and the rows accepted from a page.
PageBatch(r, c, p, t, of) ==
  [id |-> <<"page", r, c, p, t>>, told |-> ToSet(of),
   rows |-> {[listing |-> l, at |-> t] : l \in ToSet(of)}]

BatchDeeds(b) == <<[do |-> "put", of |-> Objects(b)[1]], [do |-> "put", of |-> Objects(b)[2]],
                   [do |-> "put", of |-> Objects(b)[3]], [do |-> "publish", of |-> b]>>
CardDeeds(of) ==
  [i \in 1..(3 * Len(of)) |-> [do |-> <<"upsert", "discover", "observe">>[((i - 1) % 3) + 1],
                               of |-> of[((i - 1) \div 3) + 1]]]

\* Mutant: the rows are stored before the evidence is emitted.
DeedsStoreFirst(r, c, p, t, of) ==
  IF of = <<>> THEN <<>> ELSE CardDeeds(of) \o BatchDeeds(PageBatch(r, c, p, t, of))

\* What the handling of a page writes, in order: the batch, if it has rows, then each card.
Deeds(r, c, p, t, of) ==
  IF of = <<>> THEN <<>> ELSE BatchDeeds(PageBatch(r, c, p, t, of)) \o CardDeeds(of)

Does(w, r, c, p, t, d) ==
  CASE d.do = "put" -> [w EXCEPT !.lake = Put(@, d.of)]
    [] d.do = "publish" -> [w EXCEPT !.published = @ \cup {d.of}]
    [] d.do = "upsert" -> [w EXCEPT !.db = UpsertListing(@, r, c, t, d.of)]
    [] d.do = "discover" -> [w EXCEPT !.db = RecordDiscovery(@, r, c, p, t, d.of)]
    [] d.do = "observe" -> [w EXCEPT !.db = RecordObservation(@, r, c, t, d.of)]

\* The world after the first n of them.
After(r, c, p, t, of, n) ==
  LET deeds == Deeds(r, c, p, t, of)
      w[i \in 0..n] == IF i = 0 THEN World ELSE Does(w[i - 1], r, c, p, t, deeds[i])
  IN w[n]

Becomes(w) == /\ db' = w.db
              /\ lake' = w.lake
              /\ published' = w.published

MaxDeeds == 4 + 3 * Cardinality(Listings)

Asks(r, c) == scan[r][c].stage = "asks" /\ db.runs[r].status = "running"

\* A page comes in and is handled to its end; the next one is asked for unless it was the last
\* one or the limit, or has no listing at all (one with none accepted does not end the scan).
PageHandled(r, c, of) ==
  LET s == scan[r][c]
      w == After(r, c, s.page, s.at, of, Len(Deeds(r, c, s.page, s.at, of)))
  IN /\ Becomes([w EXCEPT !.db = RecordScan(@, r, c, s.page, s.at, TRUE)])
     /\ LET counted == [s EXCEPT !.ok = @ + 1, !.unique = @ \cup ToSet(of)]
            last == s.page >= Depth[c] \/ s.page >= Options[r].pages
        IN \/ /\ ~last
              /\ \E t \in Soon :
                   /\ now' = t
                   /\ scan' = [scan EXCEPT ![r][c] = [counted EXCEPT !.page = @ + 1, !.at = t]]
           \/ /\ last \/ of = <<>>
              /\ scan' = [scan EXCEPT ![r][c] = [counted EXCEPT !.stage = "done"]]
              /\ UNCHANGED now
     /\ UNCHANGED <<refresh, refreshes, collectFaults>>

\* A page that cannot be had, or is no page, ends the scan of its catalog.
PageFails(r, c) ==
  LET s == scan[r][c]
  IN /\ db' = RecordScan(db, r, c, s.page, s.at, FALSE)
     /\ scan' = [scan EXCEPT ![r][c] = [s EXCEPT !.failed = @ + 1, !.stage = "done"]]
     /\ UNCHANGED <<lake, published, now, refresh, refreshes, collectFaults>>

Faulty == collectFaults > 0 /\ collectFaults' = collectFaults - 1

\* An exception after n of the writes: the page is recorded as failed, and counted as successful
\* as well if its batch was out.  When the record of the failure fails too, the coroutine crashes.
PageBreaks(r, c, of, n) ==
  LET s == scan[r][c]
      w == After(r, c, s.page, s.at, of, n)
      emitted == of = <<>> \/ n >= 4
      reached == IF emitted /\ of # <<>> THEN {of[i] : i \in {i \in 1..Len(of) : 3 * (i - 1) <= n - 4}}
                 ELSE {}
  IN /\ Faulty /\ n <= Len(Deeds(r, c, s.page, s.at, of))
     /\ \/ /\ Becomes([w EXCEPT !.db = RecordScan(@, r, c, s.page, s.at, FALSE)])
           /\ scan' = [scan EXCEPT ![r][c] =
                [s EXCEPT !.failed = @ + 1, !.ok = IF emitted THEN @ + 1 ELSE @,
                          !.unique = @ \cup reached, !.stage = "done"]]
        \/ /\ Becomes(w)
           /\ scan' = [scan EXCEPT ![r][c].stage = "crashed"]
     /\ UNCHANGED <<now, refresh, refreshes>>

\* The projection of a finished scan raises: its coroutine crashes.
ScanCrashes(r, c) ==
  /\ scan[r][c].stage = "done" /\ db.runs[r].status = "running"
  /\ Faulty
  /\ scan' = [scan EXCEPT ![r][c].stage = "crashed"]
  /\ UNCHANGED <<db, lake, published, now, refresh, refreshes>>

Scanned(r) == {c \in Catalogs : scan[r][c].stage # "none"}
Counted(r, S) ==
  [scanned |-> Cardinality(Scanned(r)),
   ok |-> MapThenSumSet(LAMBDA c : scan[r][c].ok, S),
   failed |-> MapThenSumSet(LAMBDA c : scan[r][c].failed, S),
   unique |-> Cardinality(UNION {scan[r][c].unique : c \in S})]

\* Mutant: crashed coroutines are passed over.
TotalsOfReturned(r) == Counted(r, {c \in Scanned(r) : scan[r][c].stage = "done"})

\* The results are added up; a crashed coroutine is a failed scan, and what it counted is lost.
Totals(r) ==
  LET crashed == {c \in Scanned(r) : scan[r][c].stage = "crashed"}
  IN [Counted(r, Scanned(r) \ crashed) EXCEPT !.failed = @ + Cardinality(crashed)]

Forgotten(r) == [scan EXCEPT ![r] = [c \in Catalogs |-> Idle]]

\* Every coroutine has returned: complete_run, and again with "failed" when the projection of the
\* completed run raises.
Finish(r) ==
  /\ db.runs[r].status = "running" /\ Scanned(r) # {}
  /\ \A c \in Scanned(r) : scan[r][c].stage \in {"done", "crashed"}
  /\ \/ /\ db' = CompleteRun(db, r, "completed", Totals(r))
        /\ UNCHANGED collectFaults
     \/ /\ Faulty
        /\ db' = CompleteRun(db, r, "failed", Totals(r))
  /\ scan' = Forgotten(r)
  /\ UNCHANGED <<lake, published, now, refresh, refreshes>>

\* The process dies, or is cancelled: the run stays running, and nobody goes on with it.
Abandoned(r) ==
  /\ Scanned(r) # {} /\ Faulty
  /\ scan' = Forgotten(r)
  /\ UNCHANGED <<db, lake, published, now, refresh, refreshes>>

-----------------------------------------------------------------------------
(* State refresh.                                                          *)

RefreshBegins ==
  /\ refresh = NoRefresh /\ refreshes < MaxRefreshes
  /\ \E t \in Soon : /\ Chosen(db, t, ProbeLimit) # {}
                     /\ now' = t
                     /\ refresh' = [NoRefresh EXCEPT !.stage = "probes", !.from = t,
                                                     !.todo = Chosen(db, t, ProbeLimit)]
  /\ refreshes' = refreshes + 1
  /\ UNCHANGED <<db, lake, published, scan, collectFaults>>

\* A target's page is asked for; what it says, "unknown" after an exception, is recorded at once,
\* under the time of the request.
Probe(l) ==
  /\ l \in refresh.todo
  /\ \E answer \in Answers :
       /\ db' = RecordProbe(db, l, now, answer)
       /\ refresh' = [refresh EXCEPT !.todo = @ \ {l},
                        !.told = @ \cup {[listing |-> l, at |-> now, outcome |-> answer]}]
  /\ UNCHANGED <<lake, published, now, scan, refreshes, collectFaults>>

ProbeBatch ==
  LET of == {p.listing : p \in refresh.told}
  IN [id |-> <<"probes", refresh.from, of>>, told |-> of, rows |-> refresh.told]

\* One batch carries all of them: its first n objects are put, before an exception or because the
\* store refuses the next one, or all are and the batch is published.
EmitProbes ==
  LET o == Objects(ProbeBatch)
  IN /\ refresh.stage = "probes" /\ refresh.todo = {}
     /\ \E n \in 0..3 :
          /\ \A i \in 1..n : Takes(lake, o[i])
          /\ lake' = lake \cup {o[i] : i \in 1..n}
          /\ published' = published \cup IF n = 3 THEN {ProbeBatch} ELSE {}
          /\ IF n < 3 /\ Takes(lake, o[n + 1]) THEN Faulty ELSE UNCHANGED collectFaults
     /\ refresh' = NoRefresh
     /\ UNCHANGED <<db, now, scan, refreshes>>

\* The refresh ends on an exception of the store, or dies: what it recorded stays in SQLite only.
RefreshAborts ==
  /\ refresh.stage = "probes" /\ Faulty
  /\ refresh' = NoRefresh
  /\ UNCHANGED <<db, lake, published, now, scan, refreshes>>

CollectNext ==
  \/ \E r \in Runs : Launch(r) \/ Finish(r) \/ Abandoned(r)
  \/ \E r \in Runs, c \in Catalogs : /\ Asks(r, c)
                                     /\ \/ PageFails(r, c)
                                        \/ \E of \in Pages : PageHandled(r, c, of)
                                        \/ \E of \in Pages, n \in 0..MaxDeeds : PageBreaks(r, c, of, n)
  \/ \E r \in Runs, c \in Catalogs : ScanCrashes(r, c)
  \/ RefreshBegins \/ EmitProbes \/ RefreshAborts
  \/ \E l \in Listings : Probe(l)

CollectSpec == CollectInit /\ [][CollectNext]_collectVars

-----------------------------------------------------------------------------
CollectTypeOK ==
  /\ db \in Store
  /\ now \in Times /\ refreshes \in 0..MaxRefreshes /\ collectFaults \in 0..MaxCollectFaults
  /\ refresh.stage \in {"none", "probes"} /\ refresh.todo \subseteq Listings
  /\ \A r \in Runs, c \in Catalogs : /\ scan[r][c].stage \in {"none", "asks", "done", "crashed"}
                                     /\ scan[r][c].page \in 1..PageLimit
                                     /\ scan[r][c].unique \subseteq Listings

\* What SQLite knows of a listing from a page, the outbox has in a batch the lake can show; what the
\* outbox has from an item page, SQLite knows.  (_scan_catalog emits before it stores, refresh the
\* other way round, and either may stop between the two.)
StoresOrdered ==
  /\ \A f \in db.found :
       \E b \in published : /\ b.id = <<"page", f.run, f.catalog, f.page, f.at>>
                            /\ [listing |-> f.listing, at |-> f.at] \in b.rows
  /\ \A b \in published : Readable(lake, b)
  /\ \A b \in published : b.id[1] = "probes" => b.rows \subseteq db.probes

\* The one observation of a listing in a run sums up its sightings there, whatever the order in
\* which the pages of concurrent catalogs were handled: it has the earliest time, a catalog it was
\* seen in then, and as many sightings as there were, give or take those of pages that broke off.
ObservationsSummarise ==
  \A r \in Runs, l \in Listings :
    LET all == {f \in db.found : f.run = r /\ f.listing = l}
        sound == {f \in all : \E s \in db.scans : /\ s.ok /\ s.run = r
                                                  /\ s.catalog = f.catalog /\ s.page = f.page}
        rows == {o \in Of(db, l) : o.run = r}
    IN /\ sound # {} => rows # {}
       /\ \A o \in rows : /\ o.sightings \in Cardinality(sound)..Cardinality(all)
                          /\ \E f \in all : f.at = o.at /\ f.catalog = o.catalog
                          /\ \A f \in sound : o.at <= f.at

\* A run that says it completed with no scan failed has the totals of its rows, and has recorded
\* every listing of every page it published.
TotalsHonest ==
  \A r \in Runs :
    LET row == db.runs[r]
    IN row.status = "completed" /\ row.failed = 0 =>
         /\ Coverage(db, r) = [ok |-> row.ok, failed |-> 0, scanned |-> row.scanned,
                               unique |-> row.unique]
         /\ \A b \in published : b.id[1] = "page" /\ b.id[2] = r =>
              \A x \in b.rows : \E o \in Of(db, x.listing) : o.run = r

\* On any evidence a store may give of a listing.
LaddersAgree ==
  \A probe \in Outcomes, seen, scanned \in BOOLEAN, misses \in 0..4, age \in Ages :
    (seen \/ misses > 0 => scanned) =>
      Verdict(OverviewState(probe, seen, misses, scanned, age),
              OverviewBasis(probe, seen, misses, scanned, age),
              OverviewConfidence(probe, seen, misses, scanned, age))
        = Evaluate(probe, seen, misses, scanned, age)

\* The queries written twice, in SQL and in Python, agree on every store a collector leaves: whom to
\* probe, and the verdict on every listing.  (state_refresh_probe_targets and _needs_probe;
\* _overview_state_snapshot_ctes and evaluate_listing_state.)
QueriesAgree ==
  /\ LaddersAgree
  /\ Targets(db) = {l \in Observed(db) : NeedsProbe(db, l)}
  /\ \A l \in Observed(db) : Overview(db, l, now) = Judged(db, l, now)
=============================================================================
