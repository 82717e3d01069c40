# Vinted Radar: a TLA+ development

Vinted Radar scans catalogs of a marketplace, keeps the history of every listing it sees, and says of
each whether it is active, probably sold, sold or gone. It began on one SQLite file and is being moved
to a platform of PostgreSQL (an outbox and the *mutable truth*), ClickHouse (facts) and an object store
(evidence batches). This directory models the parts whose correctness depends on the order in which
processes take their steps, and the queries that must agree with one another; it checks them with TLC
on small instances, and proves the most important results with TLAPS for every instance. Paths below
are relative to `src/vinted_radar/` unless they start otherwise.

## 1. Inventory

| Component | State | Operations | Talks to | What makes it correct |
|---|---|---|---|---|
| Outbox, `platform/outbox.py` | `platform_events`, `platform_evidence_manifests`, `platform_outbox` | `publish`, `claim_batch`, `mark_delivered`, `mark_failed` | collector and backfill publish; two consumer loops claim | at least once, no receipt before its effect, nothing stranded, delivered is final |
| ClickHouse ingest, `platform/clickhouse_ingest.py` | facts, change facts, a checkpoint a consumer | `ingest_available` | outbox, lake, ClickHouse | each batch inserted once; changes follow the facts; the drain goes on |
| Mutable-truth projector, `services/projectors.py` | manifest status, checkpoint | `project_available` | outbox, lake, PostgreSQL repository | manifest status follows the effect; replays change nothing |
| PostgreSQL mutable truth, `platform/postgres_repository.py` | identity, presence, current state, catalogs, runs, cycles, controller | `project_*`, `_upsert_*`, runtime calls | collector (directly), projector, backfill, runtime | replays not counted, states follow their evidence, misses follow sightings, it says what SQLite says |
| Listing state machine, `state_machine.py` | none | `evaluate_listing_state` | every reader of listing states | a verdict for any evidence |
| Runtime loop, `services/runtime.py` | its program counter, the controller row | `run_continuous`, `run_cycle`, `run_multi_lane_continuous` | control plane, discovery, state refresh | pause and resume obeyed, restarts resume what was |
| Control plane, `repository.py` and its PostgreSQL twin | a controller row a lane, the singleton row of older releases, `runtime_cycles` | start, phase, complete, set, request pause / resume, status | loops, batch command, operator commands, migration of an older database | the row is true of the cycles, the status shown is true of the lanes |
| Discovery, `services/discovery.py` | run and scan rows, evidence batches | `run_async`, `_scan_catalog` | transport, SQLite, lake + outbox, PostgreSQL | evidence before rows, honest totals, one observation a run |
| State refresh, `services/state_refresh.py` | probe rows | `refresh` | transport, SQLite, lake + outbox, PostgreSQL | the right targets, rows before evidence |
| SQLite evidence, `repository.py` | runs, scans, discoveries, observations, listings, probes | `record_*`, `upsert_listing`, queries | collector, dashboard, backfill | queries written twice agree |
| Transport, `http.py` | routes: session, warm-up, cool-down, requests in flight | `get_text_async`, reserve / release, rebuild | discovery, state refresh | requests on live, warmed sessions, every call returns |
| Lake writer, `platform/lake_writer.py`, `object_store.py` | objects by key with checksums | `write_batch`, `emit_batch` | object store, outbox | published batches have their objects, an object never changes |
| Lifecycle, `services/lifecycle.py` | retention cut-offs | select, archive, delete | outbox and cycle tables, object store | only finished rows pruned, archived first |
| Full backfill, `services/full_backfill.py` | JSON checkpoint | batches: write, publish, ingest one | SQLite, lake, outbox, ingest | resume neither skips nor repeats |
| PostgreSQL backfill, `services/postgres_backfill.py` | none | runs, catalogs, listings, cycles: read from SQLite, upsert | SQLite, PostgreSQL, a collector that goes on | what it writes is what the collector would have projected |
| Reconciliation, `services/reconciliation.py` | none | row counts of both stores | SQLite, PostgreSQL, ClickHouse, objects | counts that match mean the same rows |
| Read side, `dashboard.py`, `query/`, `scoring.py`, queries of `repository.py` | a snapshot a request | explorer, home page, page of a listing, rankings | SQLite or ClickHouse | what one answer says adds up; both servers answer alike |
| Migrations, `platform/migrations.py`, `bootstrap.py` | ledger of versions | `run_versioned_migrations`, bootstrap, doctor | PostgreSQL, ClickHouse | ledger and schema agree |

The rest keeps no state of its own or runs alone: HTML and routing of the dashboard, audits, exports,
feature marts, benchmarks, configuration. `PROJECT.json` lists every component with its status and every hazard with
its line.

What is hard here: consumers run in parallel and die; leases expire under workers that are still at
work; a failing record is retried among others; loop, batch command and operators share one controller
row without a lock around read and write; collector and projector update the same rows, the second late
and repeatedly; requests are spread over sessions that tasks rebuild under one another; ClickHouse has
no transaction, so that an ingest may stop between facts and changes; a page's writes go to three stores
and may stop after any; hosts of two releases migrate one database; several loops and one operator share a
status; a backfill overwrites what a collector is projecting; one answer takes several queries, and every
query exists twice, in SQL over SQLite and in SQL and Python over ClickHouse.

## 2. Modules

```
Delivery <--- refined by --- Outbox  <--- OutboxProofs           MCOutbox          3 configurations
         <--- refined by --- Warehouse <--- WarehouseProofs      MCWarehouse       1
                             Warehouse ---> ChangeFacts
RuntimeControl <--- RuntimeControlProofs                         MCRuntimeControl  3
ListingState <--- CurrentState <--- CurrentStateProofs           MCCurrentState    2
             <--- ChangeFacts, Evidence
Transport <--- TransportProofs                                   MCTransport       1
Jobs ---> Collector ---> Evidence, Lake  <--- EvidenceProofs     MCJobs            1
     ---> Backfill ----> Evidence, Lake  <--- EvidenceProofs
     ---> Lifecycle  <--- UpkeepProofs
     ---> Migrations <--- UpkeepProofs
     ---> Serving -----> Evidence                                MCServing         1
     ---> Lanes      <--- LanesProofs
     ---> Mirror ------> Evidence        <--- EvidenceProofs
```

* **Delivery** is what the outbox promises: a delivery is owed once committed, its effect precedes its
  receipt, a receipt is final; every delivery that can be made is made.
* **Outbox** is the table and its two loops. Each SQL statement of `PostgresOutbox` commits by itself,
  so each is one action: `Publish`, `Claim` (`FOR UPDATE SKIP LOCKED`, `ORDER BY available_at,
  outbox_id`, `LIMIT`), `MarkDelivered`, `MarkFailed`. The loops go record by record: `Take`, for the
  projector `Register` (manifest pending), `Apply`, `MarkDelivered`, `Note` (checkpoint); on an
  exception `Unregister` (manifest failed), `MarkFailed`, `FailNote`, and the pass ends with the rest of
  its batch still leased. `Raise` is an exception anywhere in the try block, `RaisePoison` the record
  that fails every time, `Abandon` a crash or an exception where no handler is. Times are relative to
  now; due times in the past count by their order only, which keeps the model finite without a clock.
* **Warehouse** opens up what `Outbox` calls `Apply` for ClickHouse: a consumer asks whether the batch's
  facts are there, reads for each row the listing's rows before it, inserts the facts, then the changes
  `ChangeFacts` derives from the two, then takes the receipt. Two consumers may hold one batch (a lease
  ran out), and each may die between any two of these. `ChangeFacts` is `_build_listing_change_facts` as
  functions of the rows before and the row that came: price, state, follow-up misses.
* **RuntimeControl** is one lane's controller row with the processes that write it: the continuous loop
  (`Boot`, `Poll`, `Heartbeat`, `Kick`, `Start`, `Complete`, `Settle`, `Stop`), batch cycles, operator
  commands in their three steps (`Command` reads and decides, `Load` reads again, `Write`), crashes and
  restarts. Every repository call opens its own connection, so a read and the write that follows from it
  are two actions. The variable `order` is history: what the last command asked for, and whether it fell
  where the code can still keep it.
* **ListingState** is `evaluate_listing_state` as a function: what probe, last scan, misses and age say.
* **CurrentState** is the PostgreSQL projection of the listings of a catalog. A direct catalog scan
  (`Scan`), a probe (`Check`) and the projector's deliveries (`Deliver`) each run a handler whose reads
  and upserts are separate transactions, so each is an action: identity and presence (`Seen`, `Merge`),
  current state (`Row`, `Store`), and the refresh (`Reload`, `Note`, `Derive`), which reads both rows
  again and writes both again. `Fail` cuts a handler short anywhere. One page stands for the pages of a
  scan, and one delivered batch for the batch of that page.
* **Transport** is the asynchronous side of `http.py`: what a task does between two awaits is one step
  of that task. Routes are reserved (least in flight, spacing, cool-down), warmed up under their lock,
  used, and marked as succeeded or failed; a route that failed closes and rebuilds its session.
* **Evidence** is the SQLite store as a record of tables, each write one operator, with the queries that
  decide on verdicts, probe targets and coverage: those in SQL beside those in Python.
  **Lake** is the object store under `write_batch`: three objects in order, the same bytes accepted
  again, other bytes under the same key refused.
* **Collector** is discovery and state refresh over both. A page that came in is handled without an
  await, so it is one step, which an exception or the death of the process may end after any of its
  writes (`PageHandled`, `PageFails`, `PageBreaks`); `Finish` adds up the totals; `Probe` and `EmitProbes`
  are the refresh.
* **Backfill** replays a SQLite store into lake and outbox in batches, with the JSON checkpoint saved
  after each, deaths anywhere, resumed and fresh starts, and a collector that goes on meanwhile: a listing
  on a page of any run that has not ended, at a time that may lie before those of rows the store has, and
  may date an observation back; as much of its statements as are committed; a probe.
* **Lifecycle** is retention over three tables whose rows live on: select, archive, delete, with the
  rows changed by others between any two of these.
* **Migrations** is the versioned migrations of both stores, run by hosts of different releases at once,
  and the doctor that compares.
* **Serving** is the read side twice. Items, filters, options, comparisons, pages, price contexts, scores
  and timelines are operators: those of `repository.py` over the tables of Evidence as sets, those of
  `query/*_clickhouse.py` and `scoring.py` over ingested facts, as sequences where Python goes over lists.
  The state machine around them is the collector and the ingest (`Shelve`, `ScanFails`, `ProbeOne`,
  `IngestOne`) and one explorer request, a query at a time (`AskFor`, `Answer`) with its snapshot.
* **Lanes** is the runtime with several lanes under either control plane: a loop a lane (`BootLane`,
  `PollLane`, `StartCycle`, `NextPhase`, `CycleOver`, `SettleLane`, `StopLane`), the three steps of a
  write of the controller row (`Calls`, `LoadRow`, `WriteRow`), operator commands (`Order`), Ctrl-C, a
  lane that raises and stops the others, deaths, what migrations make of an older database, and the status
  shown. SQLite writes a cycle and its controller row in one transaction, PostgreSQL in two (`Together`).
  RuntimeControl has the pauses of one lane in full, with a batch command beside the loop, restarts and
  time; Lanes has phases, interruptions, the copy of a row and the aggregation.
* **Mirror** is mutable truth in both stores: a collector that projects each step of a run once SQLite has
  it, and the PostgreSQL backfill, which reads table by table and writes row by row, at any moment of the
  other. Each store's row of a run has a time of its own, since the clock is read again for the projection.
  The runtime begins cycles in SQLite or, under the other control plane, in PostgreSQL alone, where the
  retention deletes some. Exceptions and deaths cut either short. The reconciliation's counts are
  operators over both.
* **Jobs** puts the last seven on stages of their own, of which they share none: a behaviour plays one
  scene, and the other scenes' variables keep their first values.

The `map` of `PROJECT.json` gives the lines of every definition.

## 3. What the runs check

| Run | Instance | Question | Answer |
|---|---|---|---|
| `outbox_safety` | 2 events, 1 sink, 2 projectors, claim of 2, lease 2, retry 1, 2 faults; 976 002 states | receipts, stranding, leases, refinement of `Delivery` | hold |
| `outbox_drain` | the same for ingest with claims of 1, a poison event, 1 fault | is everything deliverable delivered? | yes |
| `outbox_blocked` | claims of 2 | the same | **no** (finding) |
| `runtime_safety` | 1 loop, 1 batch process, 1 operator, interval 1; 3 849 754 states | is the row true, does a pause hold? | hold |
| `runtime_resume` | 1 loop, 1 operator, interval 2 | does a lane that is not paused run cycles? | yes |
| `runtime_lostpause` | 1 loop, 1 operator | does a pause hold wherever it falls? | **no** (finding) |
| `current_states` | 1 listing, 1 probe, 1 projector with 2 deliveries; 2 scans with 2 handlers at a time, or 3 scans with one; 2 178 950 states | runs counted once, verdicts coherent; are misses the scans since the last sighting? | hold |
| `current_replay` | 2 scans, 1 delivery, one handler at a time | are sightings counted once? | **no** (finding) |
| `transport_pool` | 2 routes, 2 tasks of 2 calls, 2 retries, 2 warm-up tries, delay 1, cool-down 2 | in-flight counts exact, sound sessions, giving up only after every try; does every call return? | hold |
| `warehouse_ledger` | 2 listings, 2 consumers, 3 batches, a price that changes from run to run and back, 1 fault; 1 784 159 states | facts once, an opening change for each listing, the ledger is the history, refinement of `Delivery` | hold |
| `jobs_scenes` | seven scenes, see below; 2 256 387 states, about four minutes | the properties of Collector, Backfill, Lifecycle, Migrations, Serving, Lanes and Mirror | hold |
| `serving_parity` | Serving alone, as in the scene | do the explorer routes answer alike from both stores? | **no** (finding) |

**Bounds.** *Outbox*: two workers and two rows are the least for stealing an expired lease while its
worker goes on, for a batch with a rest, and for a claim that must choose; two faults let both workers
fail, or one fail in its own error handling. A lease of two ticks can run out while retries come due.
*RuntimeControl*: one loop (a lane has at most one), whose two latest cycles are told apart so that a
stale cycle id is seen as such; one batch process and one operator may each come back any number of
times. *CurrentState*: evidence is bounded by the sets of scans and checks, and a behaviour follows one of
`Plans`, the named bounds of scans, of redeliveries and of handlers at work. Two handlers at a time give
every pairwise interleaving; listings do not read one another's rows, so one suffices. Three scans are
seen-missed-seen and seen-missed-missed, the histories that tell a miss before a sighting from one after.
Scans are interchangeable and TLC may permute them. *Transport*: two routes are the least to choose
among, two tasks the least to rebuild a session under one another, two calls each let a call find a route
another one left cooling down, and two tries reach both the retry and the giving up. *Warehouse*: two
consumers of one batch are the least for facts inserted under a reader; three batches give a listing
a first row, a change and a change back; one fault suffices to leave facts without their changes.
*Collector*: two runs that may overlap, the first over both catalogs and two pages deep; pages with no
accepted card or with both listings; days 0 and 2, so that a sighting is recent or dated; one fault after
any write, one refresh of one target. *Backfill*: a store with a run that goes on, of two
pages and two times, and an identifier that leaves room for a lesser one; batches of one row, two fresh
starts, one death, and one row that comes while it runs: anywhere in the order, so that it pushes others
on, or dates one of them back. *Lifecycle*:
two rows over three tables, two days with retention one day, two retention runs, one fault: a run whose
archive was written is the earlier of the two. *Migrations*: two hosts whose texts of version 2 differ,
the second with a version the first lacks, two statements a version, four bootstraps or doctors, one
break: each host can break, come back, and look after the other. *Serving*: two listings, one without a
brand, two catalogs of one root, pages with none, one or both; three scans or probes, one of them or an
ingest while a request is served; two requests, an option that filters by state on the first page and two
filters on the second, pages of one. Three events are a sighting, a miss and a probe, or sightings in two
runs and catalogs; two listings are the least for an order, a next page and a price context with a peer.
*Lanes*: two lanes of which one is the default, a process of one or both, two phases, two cycles and two
processes, one operator command, one mishap, three pasts (a new database, a cycle at work, a pause before
any cycle), both control planes: the least for a lane to be at work while another writes. *Mirror*: two
runs over one and two catalogs, two listings of which one may be in both, an empty store or one with an
old run, one probe, one backfill during which the collector takes one step, one exception or death, one cycle
begun in either store beside one of an older time. Four
larger instances were run alone, each to the end and without a violation: Mirror with any number of steps
during a backfill but no exceptions, deaths or new cycles (1.3 million states), Backfill with two moments at
which it may begin (0.5 million), the same with batches of two (0.3 million), Lifecycle with three rows (0.4
million). What Backfill and Lifecycle are asked is also proved, for any bounds.

Deadlock is not checked in CurrentState, Transport, Warehouse, Jobs and Serving: their evidence, calls,
batches, events and faults are bounded, and they stop when these are used up.

**Fairness.** `Outbox!FairSpec`: time passes and every worker keeps taking its steps, weakly fair, since
`scripts/` and cron restart the passes; nothing is assumed of faults, which are bounded, or of
publication. `RuntimeControl!FairSpec`: time passes, a loop that runs goes on and a cycle ends, since
every request has a timeout and every retry a limit; restarts and operators owe nothing.
`Transport!FairSpec`: time passes and each task that can go on does, since the event loop runs every
ready task and every request is answered or times out; calls owe nothing.

**Findings.** (1) A record that always fails can block the records claimed with it for good, when its
retry and their leases come round together: the pass re-raises at the first failure. The drain holds
for claims of one row. (2) A pause written between the loop's read of the controller row and its write
is lost. `PauseHolds` is the guarantee that is left: a pause written elsewhere holds, through crashes and
restarts. (3) A batch projected again is counted again in `total_sightings` once the refresh of a scan or
a probe has replaced the row's last event id. `ObservationsCountedOnce` is what is left. (4) A catalog
page that came in with no accepted listing counts as a scan in SQLite, where it makes every listing last
seen in that catalog missed once, and never reaches ClickHouse, which infers scans from sightings: the two
servers differ in misses, states and totals. `ServersAgree` is what is left.

**Conditions.** `MissesFollowSighting` is said of handlers that neither overlap nor are cut short. Both
conditions are needed: a refresh that began before a sighting may write the misses of then back after
it, and a scan cut short after the presence row leaves the misses counted before. `LedgerTrue` and
`LedgerChains` are said while batches were taken in the order of their times, by one consumer at a time:
the changes are derived from the rows that are there, so a late batch is compared with the wrong row, and
two consumers of one batch may each derive from rows the other has since added. `QueriesAgree`
also compares the SQL ladders with the Python one on every evidence there may be, up to four misses.
`ServersAgree` is said once everything is ingested, while every successful page listed something and no
listing was seen twice in a run (`Comparable`), with joins that give NULL where they find nothing, or
defaults as long as nothing was missed; `ScoresAgree` of listings whose brand and condition are known.
`StatusHonest` is said of rows that no loop is between two writes of, that no death left half written, and
that no command wrote back over a newer one (`Sound`, with the history variable `torn`). `InStep` is said
with nobody at work and nothing gone wrong since a backfill had the field for itself (`apart`), of
listings found in one catalog (`AtHome`), and of all columns of a run but the time it began, which in
PostgreSQL is that of SQLite or later. `CountsTell` is said while every projected page is in SQLite
(`strayed`), and of cycles (`Telling`) while none was begun in PostgreSQL alone (`elsewhere`).
`BackfillComplete` excepts the observations dated back since the checkpoint was begun (`DatedBack`): the
row of such an observation moves forward in the enumeration, perhaps into a batch that is counted as done.
No document promises more.

**Observed while modelling**, and true of the models as of the code. *Transport*: after a failure mark
during a warm-up, a request may go out on a session that was not warmed up; two tasks that close the
same route lose track of one session; a late success ends a cool-down set since the request left; the
wait for the warm-up lock is not spaced. *Collector*: a page whose handling broke is counted as
successful and as failed; the last page handled names the primary catalog, so that times go backwards;
a probe whose refresh aborts never reaches the outbox; one miss is counted though another catalog saw
the listing. *Backfill*: probes are replayed after all pages, so the rebuilt ledger differs from the
live one; a fresh start at another moment, or over rows changed since, gives the same event other bytes, which the lake refuses for
good; rows that come among those already counted as done push others on, which go out a second time, and
are left out themselves; so is, to a backfill that is resumed, an observation that a page with an earlier
time dates back meanwhile, though the store had it when the backfill began; batches are counted but not
tied to their size. *Lifecycle*: a failed row that was claimed again after
the selection is deleted under its worker; a publication after pruning makes the row anew; the archive
has the row as it was selected, and a run repeated with the same time overwrites it. *Migrations*: on
ClickHouse a version may be recorded twice, and two releases with different texts may both be told that
all is healthy. *Serving*: links to a narrower filter keep the page number; with ClickHouse's default
joins an unprobed listing shows a probe of 1970, and no listing is ever missed; the page of a listing is
put together from several moments; rankings and the page of a listing take different price contexts when
its brand or condition is missing. *Lanes*: two lanes neither of which is the default leave the singleton
row at the first one's; cycles cut off by a death are shown as running for good in the totals; operator
commands reach the default lane only; on PostgreSQL the phase call writes back a row that a command has
changed since, and a death between the row of a cycle and the controller's leaves them apart. *Mirror*: a
listing seen in two catalogs has another primary catalog, and so other misses, in each store; a catalog's
last run is the latest synced or scanned one if projected live and the latest scanned one if filled; a
page SQLite refuses after its batch went out leaves listings in PostgreSQL that SQLite lacks, and the
counts may match all the same; a fill that dies between a listing's rows and its verdict leaves it unknown;
what a backfill and a collector wrote over one another stays until either writes the row again; a run that
was projected began, in PostgreSQL, a moment later than in SQLite, so that the edges of the time windows
which the reconciliation compares can differ; once cycles are begun in PostgreSQL alone its counts of cycles
differ, or match over different rows when the retention has deleted as many. Not in the
models, but in the same code: those edges are compared as text, written with a space by one store and with
a T by the other; and a backfill repeated after the cut-over puts back the controller row of SQLite.

## 4. What is proved

Every theorem holds for any constants that satisfy the one named assumption of its module (finite sets,
positive limits, NULL distinct from names).

| Module | Theorem | Result |
|---|---|---|
| `OutboxProofs` | `Soundness`, `TypeCorrect` | `Spec => []Sound`, `Spec => []TypeOK` |
| | `ReceiptsAreEarned` | `Spec => []EffectBeforeReceipt` |
| | `NothingStranded` | `Spec => []NeverStranded` |
| | `LeasesExclude` | `Spec => []LeaseExcludes` |
| | `ReceiptsAreFinal` | `Spec => DeliveredIsFinal` |
| | `ImplementsDelivery` | `Spec => Implements` |
| `RuntimeControlProofs` | `TypesHold` | `Spec => []TypeOK` |
| | `ControllerTellsTheTruth` | `Spec => []ControllerTruth` |
| | `PausesHold` | `Spec => []PauseHolds` |
| `TransportProofs` | `Invariance`, `TypeCorrect` | `Spec => []IInv`, `Spec => []TypeOK` |
| | `CountsExact` | `Spec => []InFlightExact` |
| | `AllRoutesTried` | `Spec => []GivesUpOnlyAfterAll` |
| | `LockExcludes` | `Spec => []OneHolder`: the lock of a route is one task's |
| | `SoundSends` | `Spec => SendsOnSoundSession` |
| `WarehouseProofs` | `Invariance`, `TypeCorrect` | `Spec => []IInv`, `Spec => []TypeOK` |
| | `InsertedOnce` | `Spec => []CountedOnce` |
| | `OpeningKept` | `Spec => []OpeningRecorded` |
| | `LedgerTellsTruth` | `Spec => []LedgerTrue` |
| | `LedgerFollows` | `Spec => []LedgerChains` |
| | `DeliversToWarehouse` | `Spec => Implements` |
| `CurrentStateProofs` | `Invariance`, `TypeCorrect` | `Spec => []IInv`, `Spec => []TypeOK` |
| | `RunsCountedOnce` | `Spec => []ObservationsCountedOnce` |
| | `VerdictsFollowEvidence` | `Spec => []Coherent` |
| | `OrderKept`, `MissesCounted` | `Spec => []Tidy`, `Spec => []MissesFollowSighting` |
| `UpkeepProofs` | `LifecycleInvariant` | `LifecycleSpec => []RetentionInv` |
| | `GoneMeansArchived` | `LifecycleSpec => []ArchivedBeforeGone` |
| | `ControllerAlwaysFound` | `LifecycleSpec => []ControllerFound` |
| | `HealthyStoresBuilt` | `MigrationsSpec => []HealthyMeansBuilt` |
| | `VersionsBuiltInOrder` | `MigrationsSpec => VersionsInOrder` |
| `LanesProofs` | `LanesInvariant`, `LanesTyped` | `LanesSpec => []IInv`, `LanesSpec => []LanesTypeOK` |
| | `SingletonIsTheDefault` | `LanesSpec => []SingletonFollows` |
| | `ShownIsTrue` | `LanesSpec => []StatusHonest` |
| `EvidenceProofs` | `CollectorInvariant`, `CollectTyped` | `CollectSpec => []CollectIInv`, `CollectSpec => []CollectTypeOK` |
| | `StoresStayOrdered` | `CollectSpec => []StoresOrdered` |
| | `QueriesAlwaysAgree` | `CollectSpec => []QueriesAgree` |
| | `TotalsStayHonest` | `CollectSpec => []TotalsHonest` |
| | `ObservationsSumUp` | `ListedOnce` implies `CollectSpec => []ObservationsSummarise` |
| | `LakeNeverChanges` | `BackfillSpec => LakeImmutable` |
| | `OwedStaysReadable` | `BackfillSpec => []OwedReadable` |
| | `BackfillInvariant` | `BackfillSpec => []BackfillIInv` |
| | `CompletedIsWhole` | `BackfillSpec => []BackfillComplete` |
| | `MirrorInvariant` | `MirrorSpec => []MirrorIInv` |
| | `CountsAlwaysTell` | `MirrorSpec => []CountsTell` |

**Outbox.** None of the three safety invariants is inductive: `mark_delivered` is right only because the
worker has applied the record it holds. `Sound` adds what a worker knows at each place of its loop
(`Handling`: its record is applied before it is delivered, in its batch or delivered before it is failed),
that checkpoints name events (`Named`), and, while no lease has run out on its worker, that what is in a
batch is under lease and not yet delivered (`Leased`). Refinement follows from `Sound`: `Apply` is an
effect, `MarkDelivered` a settlement or, by a late worker, a stutter.

**RuntimeControl.** The row is written from what was read before, so the invariant must speak of what
each process has decided to write. `PlansSound`: a plan of a loop or of a command names no cycle, or the
one that runs. `OneRunner`, `AskedSound` and `HeldSound` say that at most one loop runs a lane, what the
history variable means for the row, and that a pause that can still be kept is in the row or in the plan.

**Transport.** A task's step changes its own record and that of one route, so `Moves` says what such a
step may do to the two, every action is shown to be a move, and one lemma shows that a move keeps the
invariant. `CallFit`: what a call has tried is what has failed on it, but for the attempt that is on, and
it counts its tries. `LineFit`: the line of a lock holds each task once, and only its head is past the
wait. `SessionFit`: a session that is closing or condemned is marked to be rebuilt before anyone can
reach it, which is why a send, which reads the session and uses it in one step, has a sound one.

**Warehouse.** The truth of a listing up to a batch is what the log of published batches says (`Said`);
a row of the ledger is right when it goes from the truth before its batch to the truth at it. A consumer
derives a row from the latest one it reads, which may be stale, so the invariant has four parts.
`Shape`: what a consumer holds agrees with where it stands. `Apart`: while no two consumers hold a
batch, what one is about to insert is not there yet. `Opening`: the opening row of a listing is with
whoever holds its first batch, or in the ledger. `TrueLedger`: while batches are taken in turn, every
row is right (`Recorded`), and every batch that changes the truth has its row in the ledger or on the way
(`Due`); so between the latest row before a batch and that batch nothing has changed, by the least batch
that would be an exception. The one assumption it adds to the bounds is that no snapshot is NULL. Batches that
two consumers apply at once, or that are taken out of turn, are outside `LedgerTrue` and `LedgerChains`,
as both say; `OpeningRecorded` and `Implements` hold of them too.

**CurrentState.** `Pending(h, l)`: handler `h` has still to write the verdict of listing `l`. `Covered`:
unless a handler was cut short, a verdict that is not the one its evidence implies has such a handler.
`Coherent` is the case in which nobody is at work. Each step may leave a verdict to be written, write it,
or find that nothing was to be written (`Minds`). For the observations, `SawBy` are the scans that saw
a listing up to the one its row names, and a row counts no more than these. `Orderly` is the invariant
behind the misses, which holds while handlers neither overlap nor are cut short: rows in hand are the
stored ones, the time of a presence row is that of a scan that saw the listing, a scan at work is the last
fetch, and the misses are the scans since the last sighting, but for what the handler at work is still
`Ahead` of, or a sighting that will reset them is on its way.

**Lifecycle.** The deletion is right only because of what was true at the selection and has stayed so.
`PickedSound`: a row that was picked keeps its table, and a picked cycle stays finished, since a finished
cycle never runs again. `ControllerSpared`: the controller comes to name only cycles that run, so a
picked cycle it does not name it will not name. `ArchiveSound`: the object of the run in progress belongs
to a section behind it, and rows gone in this run are in it.

**Migrations.** `RecordedBuilt`: a recorded version has all its statements. `CountedRan`: so has, up to
its count, the version a host is at. `AppliedRecorded`: what a host believes applied is recorded. The
next version is the least pending one, which exists since pending versions are a finite set of numbers.

**Lanes.** `WorkSound`: a loop at work is at the latest cycle of its lane, which runs, and its row, if
`Sound`, names that cycle. `CallsSound` says what a call that is not yet written will write (`Pending`): a
change after which no cycle is named, by a loop that is no longer at work; or, in PostgreSQL, the opening of
the cycle the loop is at, or the phase that cycle is in, over a row read when it named the cycle. `RowsHonest`
is the lane's part of `StatusHonest`; the other follows since running has the highest priority. The row that
a command wrote back over a newer one, or a death left half written, is outside both. `PastsAssumption` says
what an older release may have left: the controller was written with its cycles.

**Collector.** A page is one step, but its writes may stop after any, so the step's effect is stated for
every n: `PageStores` says what the three stores hold after n of a page's writes (its first n objects, its
batch once n is 4, the sightings of the cards reached), and follows by induction over n (`NextDeed`,
`PageReached`). It needs the page to be new: were anything of it left from before, an object would be put
over another or a sighting would replace one with an older time, and `StoresOrdered` would name a batch
that is not there. That is `PagesAhead`: pages of a catalog are numbered upwards within a run, and no run
is taken up twice. `QueriesAgree` is proved of any store whose rows are of their types (`StoreReadAlike`),
days and runs being finite sets of numbers in which a last sighting, a last scan and a latest probe exist;
so what is needed of the collector is `CollectorTyped`, for which the totals of a run must be shown to be
numbers: sums over the catalogs of a run whose coroutines returned (`AddedUp`).

`CollectTallied` is what makes `TotalsHonest` inductive: a scan that has neither failed nor crashed has
counted exactly its rows in `scans` and lists exactly what it found, all of it observed (`Tallied`); a
page that breaks off after its batch may count itself twice, but then it also counts as failed and the
scan is spoilt (`Unspoilt`). A run that completes with no scan failed has only unspoilt scans, whose rows
are apart, so that the sums of their counters are the counts of its rows (`RowsAddUp`, by
induction over the set of catalogs).

`Summed` does the same for `ObservationsSummarise`: the row of a listing in a run sums up (`SumsUp`) some
of its sightings, which ones depends on where pages broke off, but those of pages recorded as read always.
A page adds its sighting to that set, and the set has not had it, the page being new. So it does only if a
page lists no card twice (`ListedOnce`): `record_listing_observation` adds one to the count of sightings for
every card while the key of `listing_discoveries` makes them one row. The API parser does not remove such
cards; the pages of the runs have none.

**Backfill.** `PutSound`: of the batch in hand, the objects counted as put are in the lake. The lake only
grows, so what was readable once remains so. `BackfillComplete` says nothing before the end, and what it
then says rests on a number, of batches; `BackfillIInv` says what the number means. Of the rows the store had
when the checkpoint was begun, those are delivered that fall into a batch not above the number, with the
batches numbered as the store is now (`BehindDelivered`). Rows are added anywhere, so a row does change its
batch, but only for a later one. As a store goes on (`Follows`), each of its rows keeps its key or, an
observation dated back, takes an earlier one within its group (`GoneOn`); so of the rows before a given one,
in its group and in those before it, none is gone (`SlideIn`), and a row that keeps its key never comes
into a batch of a smaller number (`NumbersGrow`, by counting, through the least row of a set and the rows
before it): what the grown store shows behind the number was behind it before. A row that has its key at the end had it all
the while (`KeptBetween`), since a time only ever goes back; of the others the property says nothing
(`DatedBack`). The same is said of the store the cursor was opened on (`CursorSound`), in whose numbering the
batch in hand is counted, and of the checkpoint a job holds beside the file. What it needs is that a table
has no two rows of one key (`Keyed`) and that no row leaves. An observation may be counted up meanwhile:
then the batch shows it with more sightings (`SeenSince`).

**Mirror.** Equal counts mean equal rows if the rows of one store are among those of the other and both are
finite: `Backed`, behind each row of PostgreSQL stands one of SQLite, until a page is projected that SQLite
refused, and behind each cycle until one is begun in PostgreSQL alone. Retention takes rows from the smaller
side only. The collector projects only what it has stored (`AtWork`: the run, the catalogs it synced, the
listings of the page at hand), and what the backfill has still to write it read from SQLite (`ToFill`),
which forgets no run, synced catalog, observed listing or cycle (`Onward`); so neither an exception between
the two stores, nor a death, nor one writing over the other takes a row out of that order. It needs that 0
is no catalog and that the tables of an older store are finite.

**Only model-checked**: liveness (`Drains`, `ResumeRuns`, `CallsReturn`), which the prover does not
reach; the properties of Serving; `InStep`; `JobsTypeOK`, which joins the types of the seven scenes.
Serving is built from folds over sequences and could be compared for every input only by induction over
data. `InStep` compares the values of the rows, and so needs of an older store that its own rows agree with
one another, besides an account of every statement that merges two of them.

## 5. Not modelled, and what is left

The synchronous transport, which serves one caller; the runtime datasets of the backfill, its
`--dry-run` and the consumer it drives inline; the controller row in the PostgreSQL backfill and the
option that leaves runtime control out; time windows and the ClickHouse and object sections of the
reconciliation; ClickHouse TTLs and bucket rules, which are declarations to other systems; likes, views,
estimated publication and the search text of the read side, which filter, count and sort as prices and
brands do. In Mirror a projection raises before its first write or between its two halves, not between
single listings (CurrentState has that), no two stamps are equal, and the time a run ended is left out. In
Backfill a checkpoint is always resumed with the batch size it was begun with. Next in line for proofs:
`Mirror` (`InStep`).

Left to tests: HTML, routing and wording of the read side, parsers, feature marts, audits, exports,
benchmarks, configuration. They compute without interleaving anything.

To run: `tlc -config MCOutbox_safety.cfg MCOutbox`, and likewise for each configuration;
`tlapm OutboxProofs.tla` for the proofs, and likewise for each proof module.
