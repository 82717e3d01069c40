------------------------------- MODULE Backfill -------------------------------
(***************************************************************************)
(* The full backfill of a SQLite store into the lake and the outbox        *)
(* (services/full_backfill.py), resumed from a checkpoint file after a     *)
(* crash, while a collector may go on adding to the store.                 *)
(*                                                                         *)
(* A batch is a chunk of the rows of one group (a page, a run, a day of    *)
(* probes) in the order of the query; the checkpoint says how many batches *)
(* of each dataset are behind.  Each dataset is read by one cursor, which  *)
(* sees the store as it was when it was opened.  What the collector adds   *)
(* may come anywhere in that order, also before rows that are behind: a    *)
(* time is taken before the lock is waited for.                            *)
(*                                                                         *)
(* Left out: the projection into PostgreSQL but for its place in the order *)
(* (CurrentState models what it writes), the runtime datasets, which go    *)
(* the way of the observations, and the consumer the backfill drives       *)
(* (Outbox).                                                               *)
(***************************************************************************)
EXTENDS Evidence, Lake

CONSTANTS
  Sources,         \* stores a backfill may start from
  Moments,         \* values of --now
  BatchSize,
  MaxGrowth,       \* bound: rows the collector adds
  MaxRestarts,     \* bound: runs of the backfill that start afresh
  MaxStops         \* bound: deaths of the process

\* A store never holds a card of a page or a listing of a run twice.  Nor, here, two probes of a
\* listing at one time: the random identifiers that tell them apart are not modelled.
Keyed(db) ==
  /\ \A f, g \in db.found :
       <<f.run, f.catalog, f.page, f.listing>> = <<g.run, g.catalog, g.page, g.listing>> => f = g
  /\ \A o, p \in db.observed : <<o.run, o.listing>> = <<p.run, p.listing>> => o = p
  /\ \A p, q \in db.probes : <<p.at, p.listing>> = <<q.at, q.listing>> => p = q

ASSUME BackfillAssumption ==
  /\ Sources \subseteq Store /\ \A db \in Sources : Keyed(db)
  /\ MaxRuns # 0 /\ Moments \subseteq Nat /\ BatchSize \in Nat \ {0}
  /\ MaxGrowth \in Nat /\ MaxRestarts \in Nat /\ MaxStops \in Nat

Datasets == <<"discoveries", "observations", "probes">>

VARIABLES
  source,    \* the SQLite store
  vault,     \* the objects of the lake
  owed,      \* the batches in the outbox
  file,      \* the checkpoint file
  job,       \* the running backfill
  grown, restarts, stops

backfillVars == <<source, vault, owed, file, job, grown, restarts, stops>>

-----------------------------------------------------------------------------
(* What is read.                                                           *)

\* The rows of a dataset, as hydrated: each carries columns of its listing as they are now.
\* Their order, their group, and the time that goes into the batch's identity.
DiscoveryRows(db) ==
  {[order |-> <<f.run, f.catalog, f.page, f.at, f.listing>>, listing |-> f.listing,
    group |-> <<f.run, f.catalog, f.page>>, at |-> f.at,
    holds |-> <<f, Primary(db, f.listing)>>] : f \in db.found}

ObservationRows(db) ==
  {[order |-> <<o.run, o.at, o.listing>>, listing |-> o.listing, group |-> <<o.run>>,
    at |-> o.at, holds |-> <<o, Primary(db, o.listing)>>] : o \in db.observed}

ProbeRows(db, moment) ==
  {[order |-> <<p.at, p.listing>>, listing |-> p.listing, group |-> <<p.at>>, at |-> p.at,
    holds |-> <<p, Primary(db, p.listing), moment>>] : p \in db.probes}

RowsOf(db, dataset, moment) ==
  CASE dataset = "discoveries" -> DiscoveryRows(db)
    [] dataset = "observations" -> ObservationRows(db)
    [] dataset = "probes" -> ProbeRows(db, moment)

\* The rows the cursor gives before a row.
Earlier(rows, x) == {y \in rows : Precedes(y.order, x.order)}

\* The chunk a row falls into: its group, cut every BatchSize rows.
Chunk(rows, x) ==
  <<x.group, Cardinality({y \in Earlier(rows, x) : y.group = x.group}) \div BatchSize>>

\* The number of its batch: the chunks begun once the cursor has come to the row.
Number(rows, x) == Cardinality({Chunk(rows, y) : y \in Earlier(rows, x) \cup {x}})

\* What the event of a batch tells beside its identity: the listings, of a page also how many
\* chunks it has, of probes the moment.
DiscoveryTells(listings, chunks) == [listings |-> listings, page_chunk_count |-> chunks]
ObservationTells(listings) == [listings |-> listings]
ProbeTells(listings, moment) == [listings |-> listings, reference_now |-> moment]

\* The batch of some rows, all of them of one chunk.
BatchOf(rows, dataset, moment, mine) ==
  LET first == CHOOSE x \in mine : Earlier(mine, x) = {}
      chunks == {Chunk(rows, x) : x \in {x \in rows : x.group = first.group}}
      listings == {x.listing : x \in mine}
  IN [id |-> <<dataset, Chunk(rows, first), first.at>>,
      told |-> CASE dataset = "discoveries" -> DiscoveryTells(listings, Cardinality(chunks))
                 [] dataset = "observations" -> ObservationTells(listings)
                 [] dataset = "probes" -> ProbeTells(listings, moment),
      rows |-> {x.holds : x \in mine}]

BatchesOf(db, dataset, moment) ==
  LET rows == RowsOf(db, dataset, moment)
  IN [k \in 1..Cardinality({Chunk(rows, x) : x \in rows}) |->
        BatchOf(rows, dataset, moment, {x \in rows : Number(rows, x) = k})]

-----------------------------------------------------------------------------
(* What is done.                                                           *)

\* A checkpoint: the moment, whether PostgreSQL is filled, batches behind in each dataset, and
\* whether all is done.  since is the store as it was when the checkpoint was begun (not in the
\* code; for the property).
Fresh(moment, db) == [moment |-> moment, postgres |-> FALSE, done |-> <<0, 0, 0>>,
                      completed |-> FALSE, since |-> db]
NoFile == Fresh(0, EmptyStore)
NoJob == [stage |-> "none", memo |-> NoFile, dataset |-> 1, batches |-> <<>>, put |-> 0]

BackfillInit ==
  /\ source \in Sources
  /\ vault = {} /\ owed = {}
  /\ file = NoFile
  /\ job = NoJob
  /\ grown = 0 /\ restarts = 0 /\ stops = 0

Same == UNCHANGED <<grown, restarts, stops>>

\* run: afresh (no file yet, or --reset-checkpoint) at some moment, or on from the file, whose
\* moment it takes.  A completed file is only reported.
Begin(memo) == job' = [NoJob EXCEPT !.stage = "postgres", !.memo = memo]

StartAfresh ==
  /\ job = NoJob /\ restarts < MaxRestarts
  /\ \E moment \in Moments : Begin(Fresh(moment, source))
  /\ restarts' = restarts + 1
  /\ UNCHANGED <<source, vault, owed, file, grown, stops>>

Resume ==
  /\ job = NoJob /\ file # NoFile /\ ~file.completed
  /\ Begin(file)
  /\ UNCHANGED <<source, vault, owed, file>> /\ Same

\* PostgreSQL is filled once; the cursor of the first dataset is opened.
Opened(j, dataset) ==
  [j EXCEPT !.stage = "batch", !.dataset = dataset, !.put = 0,
            !.batches = BatchesOf(source, Datasets[dataset], j.memo.moment)]

FillPostgres ==
  /\ job.stage = "postgres"
  /\ LET filled == [job EXCEPT !.memo.postgres = TRUE]
     IN /\ job' = Opened(filled, 1)
        /\ file' = IF job.memo.postgres THEN file ELSE filled.memo
  /\ UNCHANGED <<source, vault, owed>> /\ Same

\* Mutant: the batch after the last one delivered is taken as delivered.
BehindTooFar == job.memo.done[job.dataset] + 1

\* The batches the checkpoint says are behind, and the one in hand.
Behind == job.memo.done[job.dataset]
InHand == job.batches[Behind + 1]
HasMore == job.stage = "batch" /\ Behind < Len(job.batches)

\* write_batch, an object at a time; one the store refuses ends the backfill with an exception.
PutNext ==
  /\ HasMore /\ job.put < 3
  /\ LET o == Objects(InHand)[job.put + 1]
     IN \/ /\ Takes(vault, o)
           /\ vault' = Put(vault, o)
           /\ job' = [job EXCEPT !.put = @ + 1]
        \/ /\ ~Takes(vault, o)
           /\ job' = NoJob
           /\ UNCHANGED vault
  /\ UNCHANGED <<source, owed, file>> /\ Same

\* Mutant: a batch is published before its manifest is written.
WrittenSoon == job.put >= 2
Written == job.put = 3

Published == Datasets[job.dataset] \in {"discoveries", "probes"}

Publish ==
  /\ HasMore /\ Written /\ Published
  /\ owed' = owed \cup {InHand}
  /\ job' = [job EXCEPT !.put = 4]
  /\ UNCHANGED <<source, vault, file>> /\ Same

\* The batch is behind, and the file says so.
Checkpoint ==
  /\ HasMore /\ job.put = IF Published THEN 4 ELSE 3
  /\ LET counted == [job EXCEPT !.put = 0, !.memo.done[job.dataset] = @ + 1]
     IN job' = counted /\ file' = counted.memo
  /\ UNCHANGED <<source, vault, owed>> /\ Same

\* The cursor is at its end: the next dataset, or the end.
NextDataset ==
  /\ job.stage = "batch" /\ ~HasMore
  /\ \/ /\ job.dataset < Len(Datasets)
        /\ job' = Opened(job, job.dataset + 1)
        /\ UNCHANGED file
     \/ /\ job.dataset = Len(Datasets)
        /\ file' = [job.memo EXCEPT !.completed = TRUE]
        /\ job' = NoJob
  /\ UNCHANGED <<source, vault, owed>> /\ Same

\* The process dies.
Stop ==
  /\ job # NoJob /\ stops < MaxStops
  /\ job' = NoJob
  /\ stops' = stops + 1
  /\ UNCHANGED <<source, vault, owed, file, grown, restarts>>

\* The collector: a listing on a page of a run that goes on, or of a new one, which may have a lesser
\* identifier than one begun in the same second; or as much of its three statements as is committed;
\* or a probe.  A page has one time, of any day: it may come before those of rows the store has, and
\* date an observation back.
Grow ==
  /\ grown < MaxGrowth
  /\ \E l \in Listings, t \in Times :
       \/ \E r \in Runs, c \in Catalogs, p \in 1..PageLimit :
            LET upserted == UpsertListing(StartRun(source, r), r, c, t, l)
                found == RecordDiscovery(upserted, r, c, p, t, l)
            IN /\ source.runs[r].status \in {"none", "running"}
               /\ \A f \in source.found : <<f.run, f.catalog, f.page>> = <<r, c, p>> => f.at = t
               /\ source' \in {upserted, found, RecordObservation(found, r, c, t, l)}
       \/ /\ \E x \in source.listings : x.listing = l
          /\ \A p \in source.probes : <<p.at, p.listing>> # <<t, l>>
          /\ source' = RecordProbe(source, l, t, "unknown")
  /\ grown' = grown + 1
  /\ UNCHANGED <<vault, owed, file, job, restarts, stops>>

BackfillNext == \/ StartAfresh \/ Resume \/ FillPostgres \/ PutNext \/ Publish \/ Checkpoint
                \/ NextDataset \/ Stop \/ Grow

BackfillSpec == BackfillInit /\ [][BackfillNext]_backfillVars

-----------------------------------------------------------------------------
BackfillTypeOK ==
  /\ source \in Store
  /\ file.moment \in Moments \cup {0} /\ file.done \in [1..3 -> Nat]
  /\ job.stage \in {"none", "postgres", "batch"} /\ job.dataset \in 1..3 /\ job.put \in 0..4
  /\ grown \in 0..MaxGrowth /\ restarts \in 0..MaxRestarts /\ stops \in 0..MaxStops

\* The row of a run's listing, of the same time, after more sightings perhaps.
SeenSince(o, p) == p = [o EXCEPT !.sightings = p.sightings] /\ o.sightings <= p.sightings

\* The store has the listing earlier in that run by now.
DatedBack(o) == \E p \in source.observed : p.run = o.run /\ p.listing = o.listing /\ p.at < o.at

\* When the checkpoint says completed, every row the store had when the checkpoint was begun is in a
\* batch the lake can show, and every page and probe in one the outbox has: across deaths, resumed
\* runs, and rows added anywhere among them meanwhile, which only push them on to later batches.
\* Excepted are observations dated back meanwhile: such a row moves, perhaps into a batch that is
\* behind, and is then in none.
BackfillComplete ==
  file.completed =>
    /\ \A f \in file.since.found : \E b \in owed : \E row \in b.rows : row[1] = f
    /\ \A p \in file.since.probes : \E b \in owed : \E row \in b.rows : row[1] = p
    /\ \A o \in file.since.observed :
         \/ DatedBack(o)
         \/ \E x \in vault : /\ x.key[1] = "parquet" /\ x.key[2][1] = "observations"
                           /\ \E row \in x.holds.rows : SeenSince(o, row[1])

\* What the outbox owes to ClickHouse can be read back from the lake, whatever was put since.
OwedReadable == \A b \in owed : Readable(vault, b)

\* An object of the lake is never replaced by other bytes and never removed, though the same event
\* is written again after a death or a restart, from rows that may have changed.
LakeImmutable == [][vault \subseteq vault']_vault
=============================================================================
