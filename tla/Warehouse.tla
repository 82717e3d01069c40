----------------------------- MODULE Warehouse -----------------------------
(***************************************************************************)
(* The ClickHouse side of the platform: the batches the collector          *)
(* publishes, and the consumers of platform/clickhouse_ingest.py that turn *)
(* each into fact rows and change rows, then settle its outbox row.        *)
(*                                                                         *)
(* ClickHouse has no transactions here: what a consumer reads, the facts   *)
(* it inserts, the change rows it inserts and the receipt are steps of     *)
(* their own, between which it may die or another consumer may hold the    *)
(* same batch (a lease ran out).  The outbox hands out any batch not yet   *)
(* delivered, in any order: retries and several workers reorder them       *)
(* (see Outbox).  The reads of one batch are taken together.               *)
(***************************************************************************)
EXTENDS ChangeFacts

CONSTANTS
  Consumers,    \* ingest workers; the inline one of a backfill is one more
  Priced,       \* bound: the prices the pages of each run may show
  MaxBatches,   \* bound: batches captured
  MaxFaults     \* bound: consumers that die, raise or outstay their lease

ASSUME WarehouseAssumption ==
  /\ IsFiniteSet(Listings) /\ IsFiniteSet(Consumers)
  /\ MaxBatches \in Nat /\ MaxFaults \in Nat
  /\ Priced \in [1..MaxBatches -> SUBSET Prices]

Numbers == 1..MaxBatches

VARIABLES
  log,         \* the batches published, in the order of their times
  done,        \* outbox rows delivered
  facts,       \* times the rows of a batch were inserted: what the rollups add up
  ledger,      \* fact_listing_change_events
  repeated,    \* change rows inserted again under an identifier the table had
  stage,       \* where a consumer stands
  taken,       \* the batch it holds
  lacking,     \* whether it found the batch's facts missing
  derived,     \* change rows it has yet to insert
  faults,      \* deaths, errors and lost leases still to come
  disordered,  \* history: a batch was read before an earlier one was in
  overlapped   \* history: two consumers held a batch

feed == <<log, done>>
tables == <<facts, ledger, repeated>>
consumer == <<stage, taken, lacking, derived>>
vars == <<feed, tables, consumer, faults, disordered, overlapped>>

Known == {i \in Numbers : facts[i] > 0}
Captured == 1..Len(log)
Pages == {i \in Captured : IsPage(log[i])}

Init ==
  /\ log = <<>>
  /\ done = {}
  /\ facts = [i \in Numbers |-> 0]
  /\ ledger = {}
  /\ repeated = FALSE
  /\ stage = [c \in Consumers |-> "idle"]
  /\ taken = [c \in Consumers |-> 0]
  /\ lacking = [c \in Consumers |-> FALSE]
  /\ derived = [c \in Consumers |-> {}]
  /\ faults = MaxFaults
  /\ disordered = FALSE
  /\ overlapped = FALSE

\* The runs a page may belong to: the one at work unless it has had its last page, or the next.
RunsNow ==
  IF Pages = {} THEN {1}
  ELSE LET p == log[Max(Pages)] IN {p.run + 1} \cup (IF p.last THEN {} ELSE {p.run})

Publish(b) ==
  /\ Len(log) < MaxBatches
  /\ log' = Append(log, b)
  /\ UNCHANGED <<done, tables, consumer, faults, disordered, overlapped>>

\* Discovery publishes a page with its accepted listings; a page without any has no batch.
CapturePage ==
  \E of \in SUBSET Listings \ {{}}, r \in RunsNow \cap Numbers, last \in BOOLEAN : \E p \in Priced[r] :
    Publish([run |-> r, of |-> of, price |-> p, last |-> last, probe |-> "none"])

\* State refresh publishes the probe of a listing it knows.
CaptureProbe ==
  \E l \in UNION {log[i].of : i \in Pages}, a \in Answers :
    Publish([run |-> 0, of |-> {l}, price |-> NoPrice, last |-> FALSE, probe |-> a])

Goes(c, s) == stage' = [stage EXCEPT ![c] = s]
Leaves(c) ==
  /\ Goes(c, "idle")
  /\ taken' = [taken EXCEPT ![c] = 0]
  /\ lacking' = [lacking EXCEPT ![c] = FALSE]
  /\ derived' = [derived EXCEPT ![c] = {}]

Held == {taken[c] : c \in Consumers} \ {0}

\* A batch not yet delivered is claimed: one that nobody holds, or one whose holder has let the
\* lease run out.
Claim(c, i) ==
  /\ stage[c] = "idle"
  /\ i \in Captured \ done
  /\ i \in Held => faults > 0
  /\ taken' = [taken EXCEPT ![c] = i]
  /\ faults' = IF i \in Held THEN faults - 1 ELSE faults
  /\ overlapped' = (overlapped \/ i \in Held)
  /\ Goes(c, "read")
  /\ UNCHANGED <<feed, tables, lacking, derived, disordered>>

\* Every earlier batch is in, and no later one.
InTurn(i) == /\ 1..(i - 1) \subseteq done
             /\ \A j \in Known : j <= i

\* The change rows are derived, and the fact rows looked for.
Read(c) ==
  /\ stage[c] = "read"
  /\ derived' = [derived EXCEPT ![c] = Derived(log, Known, ledger, taken[c])]
  /\ lacking' = [lacking EXCEPT ![c] = facts[taken[c]] = 0]
  /\ disordered' = (disordered \/ ~InTurn(taken[c]))
  /\ Goes(c, "facts")
  /\ UNCHANGED <<feed, tables, taken, faults, overlapped>>

\* Mutant: the facts are inserted without a look at the table.
InsertFactsBlindly(c) ==
  /\ stage[c] = "facts"
  /\ facts' = [facts EXCEPT ![taken[c]] = @ + 1]
  /\ derived' = [derived EXCEPT ![c] = {r \in @ : \A s \in ledger : Key(s) # Key(r)}]
  /\ Goes(c, "changes")
  /\ UNCHANGED <<feed, ledger, repeated, taken, lacking, faults, disordered, overlapped>>

\* The missing fact rows are inserted, and the change rows looked for.
InsertFacts(c) ==
  /\ stage[c] = "facts"
  /\ facts' = [facts EXCEPT ![taken[c]] = IF lacking[c] THEN @ + 1 ELSE @]
  /\ derived' = [derived EXCEPT ![c] = {r \in @ : \A s \in ledger : Key(s) # Key(r)}]
  /\ Goes(c, "changes")
  /\ UNCHANGED <<feed, ledger, repeated, taken, lacking, faults, disordered, overlapped>>

\* The missing change rows are inserted.
InsertChanges(c) ==
  /\ stage[c] = "changes"
  /\ ledger' = ledger \cup derived[c]
  /\ repeated' = (repeated \/ \E r \in derived[c], s \in ledger : Key(r) = Key(s))
  /\ derived' = [derived EXCEPT ![c] = {}]
  /\ Goes(c, "settle")
  /\ UNCHANGED <<feed, facts, taken, lacking, faults, disordered, overlapped>>

\* Mutant: the row is settled once the facts are in.
SettleEarly(c) ==
  /\ stage[c] \in {"facts", "settle"}
  /\ done' = done \cup {taken[c]}
  /\ Leaves(c)
  /\ UNCHANGED <<log, tables, faults, disordered, overlapped>>

\* mark_delivered: the outbox row is settled.
Settle(c) ==
  /\ stage[c] = "settle"
  /\ done' = done \cup {taken[c]}
  /\ Leaves(c)
  /\ UNCHANGED <<log, tables, faults, disordered, overlapped>>

\* The consumer dies, or a call to a store raises: the batch is owed again.
Fault(c) ==
  /\ stage[c] # "idle"
  /\ faults > 0
  /\ faults' = faults - 1
  /\ Leaves(c)
  /\ UNCHANGED <<feed, tables, disordered, overlapped>>

Ingest(c) ==
  \/ \E i \in Captured : Claim(c, i)
  \/ Read(c) \/ InsertFacts(c) \/ InsertChanges(c) \/ Settle(c) \/ Fault(c)

Next == CapturePage \/ CaptureProbe \/ \E c \in Consumers : Ingest(c)

Spec == Init /\ [][Next]_vars

-----------------------------------------------------------------------------
(* Properties.                                                             *)

TypeOK ==
  /\ log \in Seq(Batches) /\ Len(log) <= MaxBatches
  /\ done \subseteq Captured
  /\ facts \in [Numbers -> Nat]
  /\ ledger \subseteq Rows
  /\ repeated \in BOOLEAN
  /\ stage \in [Consumers -> {"idle", "read", "facts", "changes", "settle"}]
  /\ taken \in [Consumers -> Numbers \cup {0}]
  /\ lacking \in [Consumers -> BOOLEAN]
  /\ derived \in [Consumers -> SUBSET Rows]
  /\ faults \in 0..MaxFaults
  /\ disordered \in BOOLEAN /\ overlapped \in BOOLEAN

\* Whatever the order, the deaths and the overlaps, the first batch that names a listing leaves
\* its opening row in the ledger by the time it is settled: a redelivery derives from rows of an
\* earlier time only, never from the facts its first delivery left (_latest_seen_rows_before).
OpeningRecorded ==
  \A l \in Listings :
    LET named == {i \in Captured : l \in log[i].of}
    IN named # {} /\ Min(named) \in done
         => \E r \in ledger : /\ Key(r) = <<Min(named), l, "state_transition">>
                              /\ r.previous = None

\* Redeliveries insert no row twice, facts or changes, so that the rollups of V002, which add
\* one for each row inserted, count a sighting once; two consumers at one batch may.
CountedOnce ==
  ~overlapped => /\ \A i \in Numbers : facts[i] <= 1
                 /\ ~repeated

\* What the batches up to the n-th say of a listing, told without the ledger: the latest page
\* that shows it, the terminal pages of other runs since, the latest probe.
Truth(l, n) ==
  LET s == SeenBefore(log, Captured, l, n + 1)
      q == ProbeBefore(log, Captured, l, n + 1)
      answer == IF q = 0 THEN "none" ELSE log[q].probe
      misses == Cardinality({k \in s+1..n : log[k].last /\ log[k].run # log[s].run})
  IN [verdict |-> Evaluate(answer, misses = 0, misses, TRUE, "recent"),
      misses |-> misses, price |-> log[s].price]
Core(s) == [verdict |-> s.verdict, misses |-> s.misses, price |-> s.price]

\* When batches are taken in the order of their times, by one consumer at a time, the ledger
\* tells the truth of every listing whatever deaths and redeliveries there were: its latest row
\* holds the verdict, the misses and the price that the evidence up to there amounts to.
LedgerTrue ==
  ~disordered /\ ~overlapped =>
    \A n \in Captured : 1..n \subseteq done =>
      \A l \in UNION {log[i].of : i \in 1..n} :
        LET rows == ChangesBefore(ledger, l, n + 1)
        IN rows # {} /\ Core(Latest(rows).current) = Truth(l, n)

\* And its rows follow one on the other: what a row gives as the state before is what the row
\* before it gives as the state after, which the price and state marts print side by side.
LedgerChains ==
  ~disordered /\ ~overlapped =>
    \A r \in ledger :
      LET rows == ChangesBefore(ledger, r.listing, r.by)
      IN IF rows = {} THEN r.previous = None
         ELSE r.previous # None /\ Core(r.previous) = Core(Latest(rows).current)

Outbox == INSTANCE Delivery WITH
  Rows <- Numbers, Poison <- {}, owed <- Captured \ done, applied <- Known

\* The ingest is a consumer the outbox can rely on: no receipt before the facts are in, none
\* withdrawn, no fact of a batch that is not published.
Implements == Outbox!DeliverySpec
=============================================================================
