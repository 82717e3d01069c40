-------------------------------- MODULE Mirror --------------------------------
(***************************************************************************)
(* Mutable truth twice: the SQLite store a collector writes, and the       *)
(* tables of PostgreSQL that mirror it.  Rows get there from the collector *)
(* itself, which projects each step of a run once SQLite has it            *)
(* (services/discovery.py, services/state_refresh.py), and from the        *)
(* backfill, which reads SQLite and writes the same rows again             *)
(* (services/postgres_backfill.py).  services/reconciliation.py compares.  *)
(* The cycles of the runtime are in the one store or in the other, as its  *)
(* control plane is; the backfill brings those of SQLite over.             *)
(*                                                                         *)
(* A catalog has one page here (Collector has several), so that a page is  *)
(* stored with no await in between, and a refresh one probe.  There is no  *)
(* projector beside the collector (CurrentState has them, and the single   *)
(* reads and upserts of a projection).  A row stands for its columns other *)
(* than the card's and the time a run ended; the controller's row is left  *)
(* out; every reading of the clock is a day of its own.                    *)
(***************************************************************************)
EXTENDS Evidence

CONSTANTS
  Ledgers,     \* bound: what SQLite may hold at first
  Routes,      \* of each run: the catalogs it scans
  Shows,       \* of each catalog: the pages it may show
  Sayings,     \* probe outcomes
  MaxProbes,   \* bound: probes in the store
  MaxFills,    \* bound: backfills
  MaxDuringFill,  \* bound: what the collector does during one
  MaxTurns,    \* bound: cycles the runtime begins, 1..MaxTurns
  MaxSlips     \* bound: exceptions of a store, deaths of a process

NoLedger == [store |-> EmptyStore, begun |-> [r \in Runs |-> 0],
             synced |-> [c \in Catalogs |-> 0], cycles |-> {}]
Ledger == [store : StoreOf(Nat), begun : [Runs -> Nat], synced : [Catalogs -> Nat],
           cycles : SUBSET Nat]

\* 0 stands for no catalog; tables have finitely many rows; cycles begun later have other numbers.
ASSUME MirrorAssumption ==
  /\ 0 \notin Catalogs
  /\ NoLedger \in Ledgers /\ Ledgers \subseteq Ledger
  /\ \A ledger \in Ledgers : IsFiniteSet(ledger.store.scans) /\ IsFiniteSet(ledger.cycles)
  /\ \A ledger \in Ledgers : ledger.cycles \cap 1..MaxTurns = {}
  /\ Routes \in [Runs -> SUBSET Catalogs] /\ Shows \in [Catalogs -> SUBSET SUBSET Listings]
  /\ Sayings \subseteq Outcomes \ {"none"}
  /\ {MaxProbes, MaxFills, MaxDuringFill, MaxTurns, MaxSlips} \subseteq Nat

VARIABLES
  sqlite,   \* the store, when runs began and catalogs were synced, the runtime's cycles
  mirror,   \* the tables of PostgreSQL
  live,     \* the collector at work
  fill,     \* the backfill at work
  today,    \* the last day something was stamped with
  fills, slips,
  turns,    \* cycles begun
  strayed,  \* history: a page was projected that SQLite did not take
  apart,    \* history: something came between the two since a backfill put them in step
  elsewhere \* history: a cycle was begun in PostgreSQL alone

mirrorVars == <<sqlite, mirror, live, fill, today, fills, slips, turns, strayed, apart, elsewhere>>

-----------------------------------------------------------------------------
(* PostgreSQL.  A row that is not there has a zero for its time.           *)

NoRun == [status |-> "none", begun |-> 0, scanned |-> 0, ok |-> 0, failed |-> 0, unique |-> 0]
NoCatalog == [synced |-> 0, run |-> 0]
NoIdentity == [primary |-> 0, first |-> 0, firstRun |-> 0, last |-> 0, lastRun |-> 0]
NoSummary == [count |-> 0, sightings |-> 0, first |-> 0, last |-> 0, lastRun |-> 0]

\* _default_listing_current_state
Unjudged == [scan |-> 0, seen |-> FALSE, misses |-> 0, probe |-> "none",
             verdict |-> Verdict("unknown", "unknown", "low"), at |-> 0]

NoMirror == [runs |-> [r \in Runs |-> NoRun], catalogs |-> [c \in Catalogs |-> NoCatalog],
             identity |-> [l \in Listings |-> NoIdentity],
             summary |-> [l \in Listings |-> NoSummary],
             current |-> [l \in Listings |-> Unjudged], cycles |-> {}]

\* _upsert_discovery_run, _upsert_catalog, _upsert_listing_identity, _upsert_runtime_cycle: whatever
\* the row was.
WithRun(tables, r, row) == [tables EXCEPT !.runs[r] = row]
WithCatalog(tables, c, row) == [tables EXCEPT !.catalogs[c] = row]
WithIdentity(tables, l, row) == [tables EXCEPT !.identity[l] = row]
WithCycle(tables, k) == [tables EXCEPT !.cycles = @ \cup {k}]

\* _merge_listing_identity
Known(row, r, c, t) ==
  IF row.first = 0 THEN [primary |-> c, first |-> t, firstRun |-> r, last |-> t, lastRun |-> r]
  ELSE [row EXCEPT !.primary = c,
                   !.first = IF t < @ THEN t ELSE @, !.firstRun = IF t < row.first THEN r ELSE @,
                   !.last = IF t >= @ THEN t ELSE @, !.lastRun = IF t >= row.last THEN r ELSE @]

\* Mutant: what another run saw is not taken for an observation of its own.
SummedUpOnce(row, r, t) ==
  IF row.count = 0 THEN [count |-> 1, sightings |-> 1, first |-> t, last |-> t, lastRun |-> r]
  ELSE [row EXCEPT !.sightings = @ + 1, !.last = IF t > @ THEN t ELSE @, !.lastRun = r]

\* _merge_listing_presence_summary
SummedUp(row, r, t) ==
  IF row.count = 0 THEN [count |-> 1, sightings |-> 1, first |-> t, last |-> t, lastRun |-> r]
  ELSE IF row.lastRun = r THEN [row EXCEPT !.sightings = @ + 1, !.last = IF t > @ THEN t ELSE @]
  ELSE IF t <= row.last THEN row
  ELSE [row EXCEPT !.count = @ + 1, !.sightings = @ + 1, !.last = t, !.lastRun = r]

AgeOn(last, t) == IF t - last <= 1 THEN "recent" ELSE IF t - last <= 3 THEN "dated" ELSE "stale"

\* _refresh_projected_listing; without a presence row it returns.
Refreshed(row, summary, t) ==
  IF summary.count = 0 THEN row
  ELSE [row EXCEPT !.at = t,
          !.verdict = Evaluate(row.probe, row.seen, row.misses, row.scan # 0, AgeOn(summary.last, t))]

-----------------------------------------------------------------------------
(* SQLite, as the backfill reads it: listing_state_inputs and the ranked   *)
(* observations.                                                           *)

FirstSeen(db, l) == Min({o.at : o \in Of(db, l)})
FirstRun(db, l) == Min({o.run : o \in {o \in Of(db, l) : o.at = FirstSeen(db, l)}})

IdentityOf(db, l) == [primary |-> Primary(db, l), first |-> FirstSeen(db, l),
                      firstRun |-> FirstRun(db, l), last |-> LastSeen(db, l),
                      lastRun |-> LastRun(db, l)]
SummaryOf(db, l) == [count |-> Cardinality(Of(db, l)),
                     sightings |-> MapThenSumSet(LAMBDA o : o.sightings, Of(db, l)),
                     first |-> FirstSeen(db, l), last |-> LastSeen(db, l),
                     lastRun |-> LastRun(db, l)]

\* The columns of a current-state row before its verdict.
EvidenceOf(db, l) ==
  [Unjudged EXCEPT !.scan = LatestScanRun(db, l),
     !.seen = LatestScanRun(db, l) # 0 /\ LatestScanRun(db, l) = LastRun(db, l),
     !.misses = Misses(db, l), !.probe = LatestProbe(db, l).outcome]

RunOf(ledger, r) ==
  LET row == ledger.store.runs[r]
  IN [status |-> row.status, begun |-> ledger.begun[r], scanned |-> row.scanned, ok |-> row.ok,
      failed |-> row.failed, unique |-> row.unique]

\* The catalog's latest scan, successful or not.
ScannedBy(db, c) ==
  LET S == {s \in db.scans : s.catalog = c}
      at == Max({s.at : s \in S})
  IN IF S = {} THEN 0 ELSE Max({s.run : s \in {s \in S : s.at = at}})

Begun(ledger) == {r \in Runs : ledger.store.runs[r].status # "none"}
SyncedOnes(ledger) == {c \in Catalogs : ledger.synced[c] # 0}
LastDay(ledger) == Max({0} \cup Range(ledger.begun) \cup Range(ledger.synced)
                       \cup {s.at : s \in ledger.store.scans})

-----------------------------------------------------------------------------
(* The collector.  What it does while a backfill is at work sets the two   *)
(* apart: the backfill may write what it read before.                      *)

NoPage == [catalog |-> 0, of |-> {}, at |-> 0, ok |-> 0, failed |-> 0, unique |-> {}]
Resting == [stage |-> "off", run |-> 0, todo |-> {}, page |-> NoPage, scanned |-> 0, ok |-> 0,
            failed |-> 0, unique |-> {}]
NoFill == [stage |-> "off", read |-> NoLedger, now |-> 0, todo |-> {}, half |-> FALSE,
           during |-> 0]

MirrorInit ==
  /\ sqlite \in Ledgers
  /\ mirror = NoMirror
  /\ live = Resting /\ fill = NoFill
  /\ today = LastDay(sqlite)
  /\ fills = 0 /\ slips = 0 /\ turns = 0
  /\ strayed = FALSE /\ apart = (sqlite # NoLedger) /\ elsewhere = FALSE

SameCycles == UNCHANGED <<turns, elsewhere>>
Beside == /\ fill.during < MaxDuringFill
          /\ fill' = IF fill = NoFill THEN fill ELSE [fill EXCEPT !.during = @ + 1]
Works == /\ Beside
         /\ apart' = (apart \/ fill # NoFill)
         /\ SameCycles /\ UNCHANGED <<fills, slips, strayed>>
Stamps == today' = today + 1
Turns(stage) == live' = [live EXCEPT !.stage = stage]
At(stage) == live.stage = stage

\* Mutant: the run is announced before SQLite has it.
RunAnnounced ==
  /\ live = Resting
  /\ \E r \in Runs \ Begun(sqlite) :
       /\ 1..(r - 1) \subseteq Begun(sqlite)
       /\ live' = [Resting EXCEPT !.stage = "started", !.run = r]
  /\ Stamps /\ Works /\ UNCHANGED <<sqlite, mirror>>

\* start_run
RunStarts ==
  /\ live = Resting
  /\ \E r \in Runs \ Begun(sqlite) :
       /\ 1..(r - 1) \subseteq Begun(sqlite)
       /\ sqlite' = [sqlite EXCEPT !.store = StartRun(@, r), !.begun[r] = today + 1]
       /\ live' = [Resting EXCEPT !.stage = "started", !.run = r]
  /\ Stamps /\ Works /\ UNCHANGED mirror

\* project_discovery_run_started, with a time read anew.
StartProjected ==
  /\ At("started")
  /\ mirror' = WithRun(mirror, live.run, [NoRun EXCEPT !.status = "running", !.begun = today + 1])
  /\ Stamps /\ Turns("tree") /\ Works /\ UNCHANGED sqlite

Completed(status) ==
  sqlite' = [sqlite EXCEPT !.store = CompleteRun(@, live.run, status,
    [scanned |-> live.scanned, ok |-> live.ok, failed |-> live.failed,
     unique |-> Cardinality(live.unique)])]

\* The catalog tree is stored, or cannot be had.
TreeStored ==
  /\ At("tree")
  /\ \/ /\ sqlite' = [sqlite EXCEPT !.synced = [c \in Catalogs |-> today + 1]]
        /\ Stamps /\ Turns("synced")
     \/ Completed("failed") /\ Turns("ended") /\ UNCHANGED today
  /\ Works /\ UNCHANGED mirror

\* project_discovery_catalogs_synced
SyncProjected ==
  /\ At("synced")
  /\ mirror' = [mirror EXCEPT !.catalogs =
                  [c \in Catalogs |-> [synced |-> sqlite.synced[c], run |-> live.run]]]
  /\ live' = [live EXCEPT !.stage = "scans", !.todo = Routes[live.run]]
  /\ Works /\ UNCHANGED <<sqlite, today>>

\* The three statements of a listing on a page.
Taken(db, r, c, p, t, l) ==
  RecordObservation(RecordDiscovery(UpsertListing(db, r, c, t, l), r, c, p, t, l), r, c, t, l)

Fetched(c, of, ok, failed, unique) ==
  live' = [live EXCEPT !.stage = "fetched", !.todo = @ \ {c},
             !.page = [catalog |-> c, of |-> of, at |-> today + 1, ok |-> ok, failed |-> failed,
                       unique |-> unique]]

\* The page of a catalog comes in and is stored, or cannot be had.
ScanStored ==
  /\ At("scans")
  /\ \E c \in live.todo :
       \/ \E of \in Shows[c] :
            /\ sqlite' = [sqlite EXCEPT !.store =
                 RecordScan(FoldSet(LAMBDA l, db : Taken(db, live.run, c, 1, today + 1, l), @, of),
                            live.run, c, 1, today + 1, TRUE)]
            /\ Fetched(c, of, 1, 0, of)
       \/ /\ sqlite' = [sqlite EXCEPT !.store = RecordScan(@, live.run, c, 1, today + 1, FALSE)]
          /\ Fetched(c, {}, 0, 1, {})
  /\ Stamps /\ Works /\ UNCHANGED mirror

\* SQLite takes no listing of the page: it is recorded as failed, counted as successful too, and
\* its rows are projected all the same.
ScanTorn ==
  /\ At("scans") /\ slips < MaxSlips
  /\ \E c \in live.todo : \E of \in Shows[c] \ {{}} :
       /\ sqlite' = [sqlite EXCEPT !.store = RecordScan(@, live.run, c, 1, today + 1, FALSE)]
       /\ Fetched(c, of, 1, 1, {Min(of)})
  /\ slips' = slips + 1 /\ strayed' = TRUE /\ apart' = TRUE
  /\ Stamps /\ Beside /\ SameCycles /\ UNCHANGED <<mirror, fills>>

\* project_discovery_catalog_scan_completed: identity and presence of the listings on the page,
\* the catalog, ...
SeenProjected ==
  /\ At("fetched")
  /\ LET p == live.page
     IN mirror' = [mirror EXCEPT
          !.identity = [l \in Listings |-> IF l \in p.of THEN Known(@[l], live.run, p.catalog, p.at)
                                           ELSE @[l]],
          !.summary = [l \in Listings |-> IF l \in p.of THEN SummedUp(@[l], live.run, p.at)
                                          ELSE @[l]],
          !.catalogs[p.catalog].run = live.run]
  /\ Turns("seen") /\ Works /\ UNCHANGED <<sqlite, today>>

\* ... then, if a page was good, the current state of every listing of the catalog.
ScanProjected ==
  /\ At("seen")
  /\ LET p == live.page
         affected == p.of \cup {l \in Listings : mirror.identity[l].primary = p.catalog}
         told(row, l) == [row EXCEPT !.scan = live.run, !.seen = l \in p.of,
                                     !.misses = IF l \in p.of THEN 0 ELSE @ + 1, !.at = p.at]
     IN /\ mirror' = [mirror EXCEPT !.current = [l \in Listings |->
             IF p.ok > 0 /\ l \in affected
               THEN Refreshed(told(@[l], l), mirror.summary[l], p.at) ELSE @[l]]]
        /\ live' = [live EXCEPT !.stage = "scans", !.page = NoPage, !.ok = @ + p.ok,
                                !.failed = @ + p.failed, !.unique = @ \cup p.unique]
  /\ Works /\ UNCHANGED <<sqlite, today>>

\* complete_run
RunEnds ==
  /\ At("scans") /\ live.todo = {}
  /\ sqlite' = [sqlite EXCEPT !.store = CompleteRun(@, live.run, "completed",
       [scanned |-> Cardinality(Routes[live.run]), ok |-> live.ok, failed |-> live.failed,
        unique |-> Cardinality(live.unique)])]
  /\ live' = [live EXCEPT !.stage = "ended", !.scanned = Cardinality(Routes[live.run])]
  /\ Works /\ UNCHANGED <<mirror, today>>

\* project_discovery_run_completed
EndProjected ==
  /\ At("ended")
  /\ mirror' = WithRun(mirror, live.run,
                       [RunOf(sqlite, live.run) EXCEPT !.begun = mirror.runs[live.run].begun])
  /\ live' = Resting
  /\ Works /\ UNCHANGED <<sqlite, today>>

\* A state refresh records a probe ...
ProbeStored ==
  /\ live = Resting /\ Cardinality(sqlite.store.probes) < MaxProbes
  /\ \E l \in Observed(sqlite.store), outcome \in Sayings :
       /\ sqlite' = [sqlite EXCEPT !.store = RecordProbe(@, l, today + 1, outcome)]
       /\ live' = [Resting EXCEPT !.stage = "probed", !.page.of = {l}, !.page.at = today + 1]
  /\ Stamps /\ Works /\ UNCHANGED mirror

\* ... and project_state_refresh_probes makes up for a missing identity.
ProbeProjected ==
  /\ At("probed")
  /\ \E l \in live.page.of :
       LET told == [mirror.current[l] EXCEPT !.probe = LatestProbe(sqlite.store, l).outcome,
                                             !.at = live.page.at]
           known == IF mirror.identity[l].first # 0 THEN mirror
                    ELSE WithIdentity(mirror, l, [IdentityOf(sqlite.store, l) EXCEPT !.firstRun = 0])
       IN mirror' = [known EXCEPT !.current[l] = Refreshed(told, mirror.summary[l], live.page.at)]
  /\ live' = Resting
  /\ Works /\ UNCHANGED <<sqlite, today>>

Slips == /\ slips < MaxSlips /\ slips' = slips + 1
         /\ apart' = TRUE
         /\ Beside /\ SameCycles /\ UNCHANGED <<fills, strayed, mirror, today>>
RunIs(status) == sqlite.store.runs[live.run].status = status

\* A projection raises.  The run's first one and that of its failure, and a refresh's, nobody
\* catches; one of a scan is a crashed coroutine; any other fails the run.
ProjectionRaises ==
  /\ Slips
  /\ \/ /\ \/ At("started")
           \/ At("probed")
           \/ At("ended") /\ RunIs("failed")
        /\ live' = Resting /\ UNCHANGED sqlite
     \/ /\ At("fetched") \/ At("seen")
        /\ live' = [live EXCEPT !.stage = "scans", !.page = NoPage, !.failed = @ + 1]
        /\ UNCHANGED sqlite
     \/ /\ \/ At("synced")
           \/ At("ended") /\ RunIs("completed")
        /\ Completed("failed") /\ Turns("ended")

\* The collector dies.
CollectorDies == live # Resting /\ Slips /\ live' = Resting /\ UNCHANGED sqlite

-----------------------------------------------------------------------------
(* The runtime and the retention, as far as the table of cycles goes; what *)
(* they do beside is in RuntimeControl and Lifecycle.                      *)

CyclesAlone == UNCHANGED <<live, fill, today, fills, slips, strayed, apart>>

\* start_runtime_cycle, in the store the control plane is in: SQLite, or PostgreSQL alone.
CycleBegins ==
  /\ turns < MaxTurns /\ turns' = turns + 1
  /\ \/ /\ sqlite' = [sqlite EXCEPT !.cycles = @ \cup {turns + 1}]
        /\ UNCHANGED <<mirror, elsewhere>>
     \/ /\ mirror' = WithCycle(mirror, turns + 1)
        /\ elsewhere' = TRUE
        /\ UNCHANGED sqlite
  /\ CyclesAlone

\* The retention deletes cycles from PostgreSQL; SQLite has none.
CyclesPruned ==
  /\ \E gone \in SUBSET mirror.cycles \ {{}} : mirror' = [mirror EXCEPT !.cycles = @ \ gone]
  /\ SameCycles /\ CyclesAlone /\ UNCHANGED sqlite

-----------------------------------------------------------------------------
(* The backfill.  A stage reads its tables and then writes them row by     *)
(* row, every row a commit.                                                *)

Fills == SameCycles /\ UNCHANGED <<sqlite, live, today, strayed>>
Continues == Fills /\ UNCHANGED <<fills, slips, apart>>
TurnsTo(stage, todo) ==
  fill' = [fill EXCEPT !.stage = stage, !.read = sqlite, !.todo = todo]
Filling(stage) == fill.stage = stage /\ fill.todo # {}
Filled(stage) == fill.stage = stage /\ fill.todo = {} /\ ~fill.half
NextRow == Min(fill.todo)
RowDone == fill' = [fill EXCEPT !.todo = @ \ {NextRow}]

FillBegins ==
  /\ fill = NoFill /\ fills < MaxFills
  /\ fill' = [NoFill EXCEPT !.stage = "runs", !.read = sqlite, !.now = today,
                            !.todo = Begun(sqlite), !.during = IF live = Resting THEN 0 ELSE 1]
  /\ fills' = fills + 1 /\ apart' = (apart \/ live # Resting)
  /\ Fills /\ UNCHANGED <<mirror, slips>>

FillRun ==
  /\ Filling("runs") /\ RowDone
  /\ mirror' = WithRun(mirror, NextRow, RunOf(fill.read, NextRow))
  /\ Continues

FillCatalog ==
  /\ Filling("catalogs") /\ RowDone
  /\ mirror' = WithCatalog(mirror, NextRow,
       [synced |-> fill.read.synced[NextRow], run |-> ScannedBy(fill.read.store, NextRow)])
  /\ Continues

\* The three rows of a listing are written ...
FillListing ==
  /\ Filling("listings") /\ ~fill.half
  /\ LET db == fill.read.store
     IN mirror' = [WithIdentity(mirror, NextRow, IdentityOf(db, NextRow)) EXCEPT
                     !.summary[NextRow] = SummaryOf(db, NextRow),
                     !.current[NextRow] = [EvidenceOf(db, NextRow) EXCEPT !.at = fill.now]]
  /\ fill' = [fill EXCEPT !.half = TRUE]
  /\ Continues

\* ... and then judged.
FillVerdict ==
  /\ fill.half
  /\ mirror' = [mirror EXCEPT !.current[NextRow] = Refreshed(@, mirror.summary[NextRow], fill.now)]
  /\ fill' = [fill EXCEPT !.half = FALSE, !.todo = @ \ {NextRow}]
  /\ Continues

FillCycle ==
  /\ Filling("cycles") /\ RowDone
  /\ mirror' = WithCycle(mirror, NextRow)
  /\ Continues

FillGoesOn ==
  /\ \/ Filled("runs") /\ TurnsTo("catalogs", SyncedOnes(sqlite))
     \/ Filled("catalogs") /\ TurnsTo("listings", Observed(sqlite.store))
     \/ Filled("listings") /\ TurnsTo("cycles", sqlite.cycles)
  /\ Continues /\ UNCHANGED mirror

FillEnds ==
  /\ Filled("cycles")
  /\ fill' = NoFill
  /\ apart' = (apart /\ (strayed \/ fill.during > 0))
  /\ Fills /\ UNCHANGED <<mirror, fills, slips>>

\* The backfill dies, or PostgreSQL raises.
FillDies ==
  /\ fill # NoFill /\ slips < MaxSlips
  /\ slips' = slips + 1 /\ fill' = NoFill
  /\ apart' = (apart \/ fill.half)
  /\ Fills /\ UNCHANGED <<mirror, fills>>

MirrorNext ==
  \/ RunStarts \/ StartProjected \/ TreeStored \/ SyncProjected
  \/ ScanStored \/ ScanTorn \/ SeenProjected \/ ScanProjected
  \/ RunEnds \/ EndProjected \/ ProbeStored \/ ProbeProjected
  \/ ProjectionRaises \/ CollectorDies
  \/ CycleBegins \/ CyclesPruned
  \/ FillBegins \/ FillRun \/ FillCatalog \/ FillListing \/ FillVerdict \/ FillCycle
  \/ FillGoesOn \/ FillEnds \/ FillDies

MirrorSpec == MirrorInit /\ [][MirrorNext]_mirrorVars

-----------------------------------------------------------------------------
(* The reconciliation counts the rows of each table; its windows of time   *)
(* are left out.                                                           *)

ComparedTables == {"runs", "catalogs", "identity", "summary", "current", "cycles"}

\* _collect_sqlite_baselines
Baseline == LET observed == Observed(sqlite.store)
            IN [runs |-> Begun(sqlite), catalogs |-> SyncedOnes(sqlite), identity |-> observed,
                summary |-> observed, current |-> observed, cycles |-> sqlite.cycles]

\* _build_postgres_section
Mirrored == [runs |-> {r \in Runs : mirror.runs[r] # NoRun},
             catalogs |-> {c \in Catalogs : mirror.catalogs[c] # NoCatalog},
             identity |-> {l \in Listings : mirror.identity[l] # NoIdentity},
             summary |-> {l \in Listings : mirror.summary[l] # NoSummary},
             current |-> {l \in Listings : mirror.current[l].at # 0},
             cycles |-> mirror.cycles]

\* _build_dataset_reconciliation
CountsMatch(table) == Cardinality(Mirrored[table]) = Cardinality(Baseline[table])

-----------------------------------------------------------------------------
(* What should hold.                                                       *)

\* Rows and progress stay in their domains.
MirrorTypeOK ==
  /\ DOMAIN sqlite = DOMAIN NoLedger /\ DOMAIN mirror = DOMAIN NoMirror
  /\ sqlite.begun \in [Runs -> 0..today] /\ sqlite.synced \in [Catalogs -> 0..today]
  /\ \A l \in Listings : /\ mirror.current[l].verdict.state \in States
                         /\ mirror.summary[l].last \in 0..today
  /\ live.todo \subseteq Catalogs /\ live.page.of \subseteq Listings
  /\ fill.now \in 0..today /\ fills \in 0..MaxFills /\ slips \in 0..MaxSlips
  /\ turns \in 0..MaxTurns
  /\ strayed \in BOOLEAN /\ apart \in BOOLEAN /\ elsewhere \in BOOLEAN

\* A listing that was only ever found in one catalog.
AtHome(l) == Cardinality({f.catalog : f \in {f \in sqlite.store.found : f.listing = l}}) = 1

\* The two ways a row gets to PostgreSQL come to the same: with nobody at work, and nothing gone
\* wrong since a backfill had the field for itself, runs, catalogs and listings there, which the
\* collector merged a sighting at a time, are what the queries of SQLite make of all it holds, and
\* every verdict is what that evidence gave on the day it was written.  Of a listing found in two
\* catalogs it is not so, and a run the collector projected began, there, at a later time.
InStep ==
  live = Resting /\ fill = NoFill /\ ~apart =>
    LET db == sqlite.store IN
    /\ \A r \in Runs : LET run == mirror.runs[r]
                      IN /\ [run EXCEPT !.begun = sqlite.begun[r]] = RunOf(sqlite, r)
                         /\ sqlite.begun[r] <= run.begun
    /\ \A c \in Catalogs : mirror.catalogs[c].synced = sqlite.synced[c]
    /\ \A l \in Observed(db) : AtHome(l) =>
         /\ mirror.identity[l] = IdentityOf(db, l)
         /\ mirror.summary[l] = SummaryOf(db, l)
         /\ mirror.current[l] = Refreshed(EvidenceOf(db, l), SummaryOf(db, l), mirror.current[l].at)

\* The tables whose counts can tell: of cycles no more once one was begun in PostgreSQL alone, where
\* the retention takes others away.
Telling == IF elsewhere THEN ComparedTables \ {"cycles"} ELSE ComparedTables

\* As long as every page that was projected is in SQLite, and for cycles as long as all began there,
\* counts that match are the same rows, whatever was interrupted or deleted on the way: for current
\* states the reconciliation compares no more.
CountsTell ==
  mirror # NoMirror /\ ~strayed =>
    \A table \in Telling : CountsMatch(table) => Mirrored[table] = Baseline[table]
=============================================================================
