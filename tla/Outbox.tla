------------------------------- MODULE Outbox -------------------------------
(***************************************************************************)
(* The leased transactional outbox of the data platform and the two loops  *)
(* that drain it: platform/outbox.py, the claim loop of                    *)
(* ClickHouseIngestService.ingest_available and the one of                 *)
(* MutableTruthProjectorService.project_available.                         *)
(*                                                                         *)
(* Every SQL statement of PostgresOutbox commits by itself, so each is one *)
(* action.  Times are kept relative to the present: lease[r] is            *)
(* locked_until - now, and due[r] is available_at - now while that is in   *)
(* the future.  Of due times in the past only the order matters: they are  *)
(* ranked, 0 the latest, -1 the one before.                                *)
(***************************************************************************)
EXTENDS Integers, FiniteSets

CONSTANTS
  Events,       \* event ids of published envelopes
  Sinks,        \* consumers' streams: ClickHouse facts, PostgreSQL current state
  Workers,      \* processes that run one of the two loops
  SinkOf,       \* the sink a worker drains
  Projectors,   \* sinks drained by the mutable-truth projector; the others by ClickHouse ingest
  Poison,       \* events whose effect raises every time it is tried
  Limit,        \* rows a claim may take
  LeaseTicks,   \* lease_seconds
  RetryTicks,   \* retry_delay_seconds
  MaxFaults,    \* exceptions, process crashes and lost connections in a behaviour
  None          \* no worker, no event: SQL NULL

ASSUME OutboxAssumption ==
  /\ SinkOf \in [Workers -> Sinks]
  /\ Projectors \subseteq Sinks
  /\ Poison \subseteq Events
  /\ Limit \in Nat \ {0}
  /\ LeaseTicks \in Nat \ {0}
  /\ RetryTicks \in Nat \ {0}
  /\ IsFiniteSet(Events)
  /\ IsFiniteSet(Sinks)
  /\ MaxFaults \in Nat
  /\ None \notin Events \cup Workers

Rows == Events \X Sinks
NoLease == -1                       \* locked_until IS NULL
Statuses == {"absent", "pending", "processing", "delivered", "failed"}
Stages == {"idle", "take", "register", "apply", "deliver", "note",
           "unregister", "fail", "failnote"}

VARIABLES
  oid,          \* outbox_id among the rows of its sink, 0 before the row exists
  status,       \* platform_outbox.status
  due,          \* available_at: ticks to come, or the rank of a time past
  lease,        \* locked_until, relative to now
  owner,        \* claimed_by
  delivered,    \* delivered_at IS NOT NULL
  manifest,     \* projection_status in platform_mutable_manifests
  checkpoint,   \* platform_outbox_checkpoints, one record a sink
  pc,           \* where a worker stands in its loop
  batch,        \* the claimed records a worker has not handed back yet
  cur,          \* the record it is handling
  applied,      \* history: the effects that have taken place at least once
  late,         \* history: a lease ran out while its worker still held the row
  faults        \* exceptions and crashes left

table == <<oid, status, due, lease, owner, delivered>>
worker == <<pc, batch, cur>>
vars == <<table, manifest, checkpoint, worker, applied, late, faults>>

Absent(r) == status[r] = "absent"
Lowest(a, b) == IF a < b THEN a ELSE b
SinkRows(s) == {r \in Rows : r[2] = s}
Goes(w, stage) == pc' = [pc EXCEPT ![w] = stage]

\* The pass ends, whatever is left of the batch.
Leaves(w) ==
  /\ pc' = [pc EXCEPT ![w] = "idle"]
  /\ batch' = [batch EXCEPT ![w] = {}]
  /\ cur' = [cur EXCEPT ![w] = None]

\* _update_checkpoint: what it is told, over what the checkpoint says.
Updated(s, told) ==
  [k \in DOMAIN checkpoint[s] |-> IF k \in DOMAIN told THEN told[k] ELSE checkpoint[s][k]]

\* update_outbox_checkpoint and upsert_mutable_manifest: rows of their own tables.
Checkpointed(s, told) == checkpoint' = [checkpoint EXCEPT ![s] = Updated(s, told)]
Manifested(r, state) == manifest' = [manifest EXCEPT ![r] = state]

\* The rows still to deliver.
Open == {r \in Rows : ~Absent(r) /\ ~delivered[r]}

\* Due times d of the rows R, the past ones ranked among the rows of the same sink.
Ranked(d, R) ==
  [r \in Rows |->
    IF r \notin R THEN 0
    ELSE IF d[r] > 0 THEN d[r]
    ELSE -Cardinality({d[q] : q \in {p \in R : p[2] = r[2] /\ d[p] \in (d[r] + 1) .. 0}})]

-----------------------------------------------------------------------------
Init ==
  /\ oid = [r \in Rows |-> 0]
  /\ status = [r \in Rows |-> "absent"]
  /\ due = [r \in Rows |-> 0]
  /\ lease = [r \in Rows |-> NoLease]
  /\ owner = [r \in Rows |-> None]
  /\ delivered = [r \in Rows |-> FALSE]
  /\ manifest = [r \in Rows |-> "none"]
  /\ checkpoint = [s \in Sinks |-> [status |-> "none", event |-> None, got |-> FALSE]]
  /\ pc = [w \in Workers |-> "idle"]
  /\ batch = [w \in Workers |-> {}]
  /\ cur = [w \in Workers |-> None]
  /\ applied = [r \in Rows |-> FALSE]
  /\ late = FALSE
  /\ faults = MaxFaults

\* PostgresOutbox.publish: one transaction inserts the event, its manifest and one row
\* a sink; ON CONFLICT DO NOTHING leaves the rows of a replayed publication alone.  A row
\* is due since the event occurred, which may be before any other row came due.
Publish(e, targets) ==
  LET fresh == {r \in {e} \X targets : Absent(r)} IN
  /\ targets # {}
  /\ oid' = [r \in Rows |-> IF r \in fresh
                              THEN 1 + Cardinality({q \in SinkRows(r[2]) : ~Absent(q)})
                              ELSE oid[r]]
  /\ status' = [r \in Rows |-> IF r \in fresh THEN "pending" ELSE status[r]]
  /\ \E age \in 0 .. Cardinality(Events) :
       due' = Ranked([r \in Rows |-> IF r \in fresh THEN -age ELSE due[r]], Open \cup fresh)
  /\ UNCHANGED <<lease, owner, delivered, manifest, checkpoint, worker,
                 applied, late, faults>>

\* Mutant: the claim does not look at the lease.
ClaimableAnyLease(r) ==
  /\ r \in Open
  /\ due[r] <= 0
  /\ status[r] \in {"pending", "failed", "processing"}

\* The WHERE clause of the claim.
Claimable(r) ==
  /\ ~Absent(r)
  /\ ~delivered[r]
  /\ due[r] <= 0
  /\ \/ status[r] \in {"pending", "failed"}
     \/ status[r] = "processing" /\ lease[r] # NoLease /\ lease[r] <= 0

\* ORDER BY available_at, outbox_id
Before(r, q) == due[r] < due[q] \/ (due[r] = due[q] /\ oid[r] < oid[q])

Claims(s, R) ==
  LET ready == {r \in SinkRows(s) : Claimable(r)} IN
  /\ R \subseteq ready
  /\ Cardinality(R) = Lowest(Limit, Cardinality(ready))
  /\ \A r \in R, q \in ready \ R : Before(r, q)

\* Mutant: locked_until left NULL.
LeaseUntilNull == NoLease

\* claim_time + lease_seconds
LeaseUntil == LeaseTicks

\* PostgresOutbox.claim_batch, the first call of both loops.
Claim(w) ==
  /\ pc[w] = "idle"
  /\ \E R \in SUBSET SinkRows(SinkOf[w]) :
       /\ R # {}
       /\ Claims(SinkOf[w], R)
       /\ status' = [r \in Rows |-> IF r \in R THEN "processing" ELSE status[r]]
       /\ lease' = [r \in Rows |-> IF r \in R THEN LeaseUntil ELSE lease[r]]
       /\ owner' = [r \in Rows |-> IF r \in R THEN w ELSE owner[r]]
       /\ batch' = [batch EXCEPT ![w] = R]
  /\ Goes(w, "take")
  /\ UNCHANGED <<oid, due, delivered, manifest, checkpoint, cur, applied, late, faults>>

\* Nothing to claim: the loop records an idle checkpoint and returns.
ClaimNothing(w) ==
  /\ pc[w] = "idle"
  /\ \A r \in SinkRows(SinkOf[w]) : ~Claimable(r)
  /\ Checkpointed(SinkOf[w], [status |-> "idle"])
  /\ UNCHANGED <<table, manifest, worker, applied, late, faults>>

\* The next record of the batch, in outbox_id order; none left ends the pass.
Take(w) ==
  /\ pc[w] = "take"
  /\ \E r \in batch[w] :
       /\ \A q \in batch[w] : oid[r] <= oid[q]
       /\ cur' = [cur EXCEPT ![w] = r]
       /\ Goes(w, IF SinkOf[w] \in Projectors THEN "register" ELSE "apply")
  /\ UNCHANGED <<table, manifest, checkpoint, batch, applied, late, faults>>

\* Mutant: the manifest is recorded as projected up front.
RegisterProjected(w) ==
  /\ pc[w] = "register"
  /\ Manifested(cur[w], "projected")
  /\ Goes(w, "apply")
  /\ UNCHANGED <<table, checkpoint, batch, cur, applied, late, faults>>

\* Projector: fetch the manifest and record it as pending, before the try block.
Register(w) ==
  /\ pc[w] = "register"
  /\ Manifested(cur[w], "pending")
  /\ Goes(w, "apply")
  /\ UNCHANGED <<table, checkpoint, batch, cur, applied, late, faults>>

\* The effect in the sink succeeds; the projector then records the manifest as projected.
Apply(w) ==
  /\ pc[w] = "apply"
  /\ cur[w][1] \notin Poison
  /\ applied' = [applied EXCEPT ![cur[w]] = TRUE]
  /\ IF SinkOf[w] \in Projectors THEN Manifested(cur[w], "projected") ELSE UNCHANGED manifest
  /\ Goes(w, "deliver")
  /\ UNCHANGED <<table, checkpoint, batch, cur, late, faults>>

\* Mutant: the receipt covers the rest of the claimed batch.
MarkDeliveredBatch(w) ==
  /\ pc[w] = "deliver"
  /\ status' = [r \in Rows |-> IF r \in batch[w] THEN "delivered" ELSE status[r]]
  /\ delivered' = [r \in Rows |-> delivered[r] \/ r \in batch[w]]
  /\ lease' = [r \in Rows |-> IF r \in batch[w] THEN NoLease ELSE lease[r]]
  /\ owner' = [r \in Rows |-> IF r \in batch[w] THEN None ELSE owner[r]]
  /\ batch' = [batch EXCEPT ![w] = {}]
  /\ Goes(w, "note")
  /\ UNCHANGED <<oid, due, manifest, checkpoint, cur, applied, late, faults>>

\* PostgresOutbox.mark_delivered: by (event_id, sink) alone, whoever holds the lease.
MarkDelivered(w) ==
  /\ pc[w] = "deliver"
  /\ status' = [status EXCEPT ![cur[w]] = "delivered"]
  /\ delivered' = [delivered EXCEPT ![cur[w]] = TRUE]
  /\ lease' = [lease EXCEPT ![cur[w]] = NoLease]
  /\ owner' = [owner EXCEPT ![cur[w]] = None]
  /\ batch' = [batch EXCEPT ![w] = @ \ {cur[w]}]
  /\ Goes(w, "note")
  /\ UNCHANGED <<oid, due, manifest, checkpoint, cur, applied, late, faults>>

\* The success checkpoint: lagging, running and idle differ only in wording here.
Note(w) ==
  /\ pc[w] = "note"
  /\ Checkpointed(SinkOf[w], [status |-> "running", event |-> cur[w][1], got |-> TRUE])
  /\ IF batch[w] = {} THEN Leaves(w) ELSE Goes(w, "take") /\ UNCHANGED <<batch, cur>>
  /\ UNCHANGED <<table, manifest, applied, late, faults>>

\* An exception inside the try block goes to its handler.
Handles(w) ==
  /\ Goes(w, IF SinkOf[w] \in Projectors THEN "unregister" ELSE "fail")
  /\ UNCHANGED <<table, manifest, checkpoint, batch, cur, applied, late>>

\* The effect of a poison event fails, every time.
RaisePoison(w) ==
  /\ pc[w] = "apply"
  /\ cur[w][1] \in Poison
  /\ Handles(w)
  /\ UNCHANGED faults

\* Any other failure of the effect, of mark_delivered or of the success checkpoint.
Raise(w) ==
  /\ pc[w] \in {"apply", "deliver", "note"}
  /\ faults > 0
  /\ faults' = faults - 1
  /\ Handles(w)

\* Projector: the manifest is recorded as failed before the row is.
Unregister(w) ==
  /\ pc[w] = "unregister"
  /\ Manifested(cur[w], "failed")
  /\ Goes(w, "fail")
  /\ UNCHANGED <<table, checkpoint, batch, cur, applied, late, faults>>

\* The projector counts the retry delay from before the work, so any part of it may have
\* gone by; ingest counts it from the failure.
RetryDelays(w) == IF SinkOf[w] \in Projectors THEN 0 .. RetryTicks ELSE {RetryTicks}

\* Mutant: mark_failed called without its retry_at, and available_at left alone.
PostponedNot(failing, delay) == due

\* available_at = retry_at: the failing row becomes due after all that are due already.
Postponed(failing, delay) ==
  Ranked([r \in Rows |-> IF r = failing THEN delay
                         ELSE IF due[r] <= 0 THEN due[r] - 1 ELSE due[r]], Open)

\* PostgresOutbox.mark_failed: by (event_id, sink) alone; delivered_at keeps its value.
MarkFailed(w) ==
  /\ pc[w] = "fail"
  /\ status' = [status EXCEPT ![cur[w]] = "failed"]
  /\ \E delay \in RetryDelays(w) : due' = Postponed(cur[w], delay)
  /\ lease' = [lease EXCEPT ![cur[w]] = NoLease]
  /\ owner' = [owner EXCEPT ![cur[w]] = None]
  /\ batch' = [batch EXCEPT ![w] = @ \ {cur[w]}]
  /\ Goes(w, "failnote")
  /\ UNCHANGED <<oid, delivered, manifest, checkpoint, cur, applied, late, faults>>

\* The failure checkpoint, then the exception leaves the loop with the rest of the batch
\* still leased.
FailNote(w) ==
  /\ pc[w] = "failnote"
  /\ Checkpointed(SinkOf[w], [status |-> "failed", event |-> cur[w][1], got |-> FALSE])
  /\ Leaves(w)
  /\ UNCHANGED <<table, manifest, applied, late, faults>>

\* A crash of the process, or an exception where no handler is: in the projector's
\* registration and in the handlers themselves.  The rows stay leased.
Abandon(w) ==
  /\ pc[w] # "idle"
  /\ faults > 0
  /\ faults' = faults - 1
  /\ Leaves(w)
  /\ UNCHANGED <<table, manifest, checkpoint, applied, late>>

Tick ==
  /\ due' = Ranked([r \in Rows |-> due[r] - 1], Open)
  /\ lease' = [r \in Rows |-> IF lease[r] > 0 THEN lease[r] - 1 ELSE lease[r]]
  /\ late' = (late \/ \E w \in Workers : \E r \in batch[w] : owner[r] = w /\ lease[r] = 1)
  /\ UNCHANGED <<oid, status, owner, delivered, manifest, checkpoint, pc, batch, cur,
                 applied, faults>>

Work(w) ==
  \/ Claim(w) \/ ClaimNothing(w) \/ Take(w) \/ Register(w) \/ Apply(w) \/ RaisePoison(w)
  \/ MarkDelivered(w) \/ Note(w) \/ Unregister(w) \/ MarkFailed(w) \/ FailNote(w)

Next ==
  \/ \E e \in Events, targets \in SUBSET Sinks : Publish(e, targets)
  \/ \E w \in Workers : Work(w) \/ Raise(w) \/ Abandon(w)
  \/ Tick

Spec == Init /\ [][Next]_vars

\* Time passes, passes of the loops keep being started and go on; faults are not owed.
FairSpec == Spec /\ WF_vars(Tick) /\ \A w \in Workers : WF_vars(Work(w))

-----------------------------------------------------------------------------
TypeOK ==
  /\ oid \in [Rows -> Nat]
  /\ status \in [Rows -> Statuses]
  /\ due \in [Rows -> Int]
  /\ lease \in [Rows -> NoLease .. LeaseTicks]
  /\ owner \in [Rows -> Workers \cup {None}]
  /\ delivered \in [Rows -> BOOLEAN]
  /\ manifest \in [Rows -> {"none", "pending", "projected", "failed"}]
  /\ checkpoint \in [Sinks -> [status : {"none", "idle", "running", "failed"},
                               event : Events \cup {None}, got : BOOLEAN]]
  /\ pc \in [Workers -> Stages]
  /\ batch \in [Workers -> SUBSET Rows]
  /\ cur \in [Workers -> Rows \cup {None}]
  /\ applied \in [Rows -> BOOLEAN]
  /\ late \in BOOLEAN
  /\ faults \in 0 .. MaxFaults

\* A receipt is never written ahead of the effect it stands for: a delivered row has been
\* applied, a manifest shown as projected has been applied, and the event a checkpoint
\* names as last delivered is delivered, whatever crashes, stale workers and retries do.
EffectBeforeReceipt ==
  /\ \A r \in Rows : delivered[r] \/ manifest[r] = "projected" => applied[r]
  /\ \A s \in Sinks : checkpoint[s].got => delivered[<<checkpoint[s].event, s>>]

\* No row is out of reach of the claim for good: one that is not delivered is waiting, or is
\* leased with a lease that can run out.  (A processing row without a lease is never claimed.)
NeverStranded ==
  \A r \in Rows : ~Absent(r) /\ ~delivered[r] =>
     \/ status[r] \in {"pending", "failed"}
     \/ status[r] = "processing" /\ lease[r] # NoLease

\* Parallel workers: as long as every worker gets through its batch before the lease is up,
\* no record is in the hands of two of them, and what a worker holds is leased to it.
LeaseExcludes ==
  ~late => \A w \in Workers : \A r \in batch[w] :
              /\ \A v \in Workers \ {w} : r \notin batch[v]
              /\ owner[r] = w /\ status[r] = "processing"

\* A delivered row is never handed out again: nothing claims it, and delivered_at stays.
DeliveredIsFinal ==
  [][\A r \in Rows : delivered[r] =>
        /\ delivered'[r]
        /\ \A w \in Workers : r \in batch'[w] => r \in batch[w]]_<<delivered, batch>>

\* The abstract outbox this one implements.
Abstract == INSTANCE Delivery WITH
  Poison <- Poison \X Sinks,
  owed <- Open,
  done <- {r \in Rows : delivered[r]},
  applied <- {r \in Rows : applied[r]}

\* The loops implement the abstract outbox step by step.
Implements == Abstract!DeliverySpec

\* Every row that can be delivered is delivered, also after crashes and behind rows that
\* always fail.
Drains == Abstract!EventuallySettled
=============================================================================
