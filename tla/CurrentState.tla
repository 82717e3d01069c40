---------------------------- MODULE CurrentState ----------------------------
(***************************************************************************)
(* The current-state projection of PostgreSQL mutable truth, for the       *)
(* listings of one catalog: platform/postgres_repository.py, called by     *)
(* the collector itself (discovery and state refresh) and, for the batches *)
(* the collector published, by the projector of services/projectors.py,    *)
(* at least once and in any order (see Outbox).                            *)
(*                                                                         *)
(* Every read and every upsert of the repository is a transaction of its   *)
(* own, and an upsert writes the whole row its caller read before: each is *)
(* an action.  Times are the numbers of the fetches they come from.        *)
(*                                                                         *)
(* Left out: the descriptive columns of the rows, derived from the         *)
(* listing's card and never read back by these handlers.                   *)
(***************************************************************************)
EXTENDS ListingState, FiniteSets

CONSTANTS
  Listings,       \* listings of the catalog
  Scans,          \* discovery runs that scan the catalog
  Checks,         \* state refreshes that probe one listing
  Workers,        \* projectors
  Answers,        \* probe outcomes considered
  Plans,          \* bounds: how many scans, handlers at work at a time, and deliveries to
                  \* projectors (repeated ones included) a behaviour may have
  None

Jobs == Scans \cup Checks          \* what the evidence comes from
Handlers == Jobs \cup Workers      \* who projects it
Events == {"seen", "completed", "probe"} \X Jobs
Stages == {"idle", "seen", "merge", "row", "store", "reload", "note", "derive"}

ASSUME CurrentAssumption ==
  /\ Scans \cap Checks = {} /\ Workers \cap (Scans \cup Checks) = {}
  /\ None \notin Listings \cup Jobs /\ None \notin Events
  /\ IsFiniteSet(Scans) /\ IsFiniteSet(Checks) /\ IsFiniteSet(Workers)
  /\ Answers \subseteq Outcomes \ {"none"}
  /\ Plans \subseteq [scans : Nat, busy : Nat, deliveries : Nat]

Presence == [observations : Nat, sightings : Nat, lastSeen : Nat,
             lastRun : Scans \cup {None}, lastEvent : Events \cup {None}]
Current == [seen : BOOLEAN, scanAt : Nat, misses : Nat,
            probe : Outcomes, probeAt : Nat, verdict : Verdicts]

VARIABLES
  clock,        \* fetches so far
  at,           \* when a job fetched, 0 before
  found,        \* listings a scan saw, or a check probed
  outcome,      \* how a scan went, or what a check found
  known,        \* listings with a row in platform_listing_identity
  presence,     \* platform_listing_presence_summary, observations = 0 without a row
  current,      \* platform_listing_current_state
  job,          \* what a handler projects
  stage,        \* where it stands
  left,         \* listings it has not begun with
  on,           \* the listing it is at
  heldP,        \* the presence row it read and has yet to write
  heldC,        \* the current-state row it read and has yet to write
  plan,         \* the bounds of this behaviour
  deliveries,   \* deliveries left
  interrupted,  \* history: a handler ended before it was through
  overlapped    \* history: a handler began while another was at work

evidence == <<clock, at, found, outcome>>
rows == <<known, presence, current>>
handler == <<job, stage, left, on, heldP, heldC>>
history == <<interrupted, overlapped>>
vars == <<plan, evidence, rows, handler, deliveries, history>>

NoPresence == [observations |-> 0, sightings |-> 0, lastSeen |-> 0, lastRun |-> None,
               lastEvent |-> None]

\* _default_listing_current_state
NoCurrent == [seen |-> FALSE, scanAt |-> 0, misses |-> 0, probe |-> "none", probeAt |-> 0,
              verdict |-> Verdict("unknown", "unknown", "low")]

Busy == {h \in Handlers : stage[h] # "idle"}
Goes(h, s) == stage' = [stage EXCEPT ![h] = s]
Ends(h) == /\ Goes(h, "idle")
           /\ job' = [job EXCEPT ![h] = None]
           /\ left' = [left EXCEPT ![h] = {}]
           /\ on' = [on EXCEPT ![h] = None]
           /\ heldP' = [heldP EXCEPT ![h] = NoPresence]
           /\ heldC' = [heldC EXCEPT ![h] = NoCurrent]
Direct(h) == h \in Scans           \* projects a whole catalog scan, misses included

\* The event a handler's refresh leaves in the rows.
Tag(h) == IF Direct(h) THEN <<"completed", h>>
          ELSE <<IF job[h] \in Scans THEN "seen" ELSE "probe", job[h]>>

-----------------------------------------------------------------------------
Init ==
  /\ clock = 0
  /\ at = [j \in Jobs |-> 0]
  /\ found = [j \in Jobs |-> {}]
  /\ outcome = [j \in Jobs |-> "none"]
  /\ known = {}
  /\ presence = [l \in Listings |-> NoPresence]
  /\ current = [l \in Listings |-> NoCurrent]
  /\ job = [h \in Handlers |-> None]
  /\ stage = [h \in Handlers |-> "idle"]
  /\ left = [h \in Handlers |-> {}]
  /\ on = [h \in Handlers |-> None]
  /\ heldP = [h \in Handlers |-> NoPresence]
  /\ heldC = [h \in Handlers |-> NoCurrent]
  /\ plan \in Plans
  /\ deliveries = plan.deliveries
  /\ interrupted = FALSE
  /\ overlapped = FALSE

Fetched(j, seen, result) ==
  /\ at[j] = 0
  /\ clock' = clock + 1
  /\ at' = [at EXCEPT ![j] = clock + 1]
  /\ found' = [found EXCEPT ![j] = seen]
  /\ outcome' = [outcome EXCEPT ![j] = result]

Begins(h, j, s) ==
  /\ Cardinality(Busy) < plan.busy
  /\ overlapped' = (overlapped \/ Busy # {})
  /\ job' = [job EXCEPT ![h] = j]
  /\ left' = [left EXCEPT ![h] = found'[j]]
  /\ Goes(h, s)
  /\ UNCHANGED <<on, heldP, heldC>>

\* A scan has fetched its pages, of which at least one is good or none is.
Scan(r) ==
  /\ Cardinality({q \in Scans : at[q] > 0}) < plan.scans
  /\ \/ \E seen \in SUBSET Listings : Fetched(r, seen, "good")
     \/ Fetched(r, {}, "failed")
  /\ Begins(r, r, "seen")
  /\ UNCHANGED <<rows, deliveries, interrupted>>

\* A state refresh has probed a listing the collector knows.
Check(c) ==
  /\ \E r \in Scans : \E l \in found[r] : \E result \in Answers :
       Fetched(c, {l}, result)
  /\ Begins(c, c, "row")
  /\ UNCHANGED <<rows, deliveries, interrupted>>

\* The projector takes a batch from the outbox: listings seen, or probes.
Deliver(w, j) ==
  /\ stage[w] = "idle"
  /\ deliveries > 0
  /\ found[j] # {}
  /\ deliveries' = deliveries - 1
  /\ UNCHANGED evidence
  /\ Begins(w, j, IF j \in Scans THEN "seen" ELSE "row")
  /\ UNCHANGED <<rows, interrupted>>

\* A listing of the batch: its identity is upserted and its presence row read.
Seen(h) ==
  /\ stage[h] = "seen"
  /\ \E l \in left[h] :
       /\ left' = [left EXCEPT ![h] = @ \ {l}]
       /\ on' = [on EXCEPT ![h] = l]
       /\ known' = known \cup {l}
       /\ heldP' = [heldP EXCEPT ![h] = presence[l]]
  /\ Goes(h, "merge")
  /\ UNCHANGED <<evidence, presence, current, job, heldC, deliveries, history>>

\* The listings of the batch are through.  A scan with a good page goes on to every listing
\* of the catalog; a projector is done.
SeenAll(h) ==
  /\ stage[h] = "seen"
  /\ left[h] = {}
  /\ IF Direct(h) /\ outcome[h] = "good"
       THEN /\ Goes(h, "row")
            /\ left' = [left EXCEPT ![h] = known \cup found[h]]
            /\ UNCHANGED <<job, on, heldP, heldC>>
       ELSE Ends(h)
  /\ UNCHANGED <<evidence, rows, deliveries, history>>

\* Mutant: without its time check, an older run is an observation again.
MergedAgain(p, r) ==
  IF p.lastEvent = <<"seen", r>> THEN p
  ELSE IF p.observations > 0 /\ p.lastRun = r
    THEN [p EXCEPT !.sightings = @ + 1, !.lastSeen = IF at[r] > @ THEN at[r] ELSE @,
                   !.lastEvent = <<"seen", r>>]
  ELSE [p EXCEPT !.observations = @ + 1, !.sightings = @ + 1, !.lastSeen = at[r],
                 !.lastRun = r, !.lastEvent = <<"seen", r>>]

\* _merge_listing_presence_summary: the row after a sighting by run r.
Merged(p, r) ==
  IF p.lastEvent = <<"seen", r>> THEN p
  ELSE IF p.observations > 0 /\ p.lastRun = r
    THEN [p EXCEPT !.sightings = @ + 1, !.lastSeen = IF at[r] > @ THEN at[r] ELSE @,
                   !.lastEvent = <<"seen", r>>]
  ELSE IF p.observations > 0 /\ at[r] <= p.lastSeen THEN p
  ELSE [p EXCEPT !.observations = @ + 1, !.sightings = @ + 1, !.lastSeen = at[r],
                 !.lastRun = r, !.lastEvent = <<"seen", r>>]

\* The merged presence row is upserted.
Merge(h) ==
  /\ stage[h] = "merge"
  /\ presence' = [presence EXCEPT ![on[h]] = Merged(heldP[h], job[h])]
  /\ IF Direct(h) THEN Goes(h, "seen") /\ UNCHANGED left
     ELSE Goes(h, "row") /\ left' = [left EXCEPT ![h] = @ \cup {on[h]}]
  /\ heldP' = [heldP EXCEPT ![h] = NoPresence]
  /\ UNCHANGED <<evidence, known, current, job, on, heldC, deliveries, history>>

\* The current-state row of the next listing is read; the projector stays at the listing
\* it has just merged.
Row(h) ==
  /\ stage[h] = "row"
  /\ \E l \in left[h] :
       /\ h \in Workers /\ job[h] \in Scans => l = on[h]
       /\ left' = [left EXCEPT ![h] = @ \ {l}]
       /\ on' = [on EXCEPT ![h] = l]
       /\ heldC' = [heldC EXCEPT ![h] = current[l]]
  /\ Goes(h, "store")
  /\ UNCHANGED <<evidence, rows, job, heldP, deliveries, history>>

RowAll(h) ==
  /\ stage[h] = "row"
  /\ left[h] = {}
  /\ Ends(h)
  /\ UNCHANGED <<evidence, rows, deliveries, history>>

\* Mutant: a sighting leaves the misses counted before it.
SightedMissing(row, j) == [row EXCEPT !.seen = TRUE, !.scanAt = at[j]]

Sighted(row, j) == [row EXCEPT !.seen = TRUE, !.scanAt = at[j], !.misses = 0]

\* Mutant: the misses count down.
UpdatedDown(row, h, l) ==
  LET j == job[h] IN
  IF j \in Checks THEN [row EXCEPT !.probe = outcome[j], !.probeAt = at[j]]
  ELSE IF l \in found[j] THEN Sighted(row, j)
  ELSE [row EXCEPT !.seen = FALSE, !.scanAt = at[j], !.misses = @ - 1]

\* What the event makes of the evidence columns.
Updated(row, h, l) ==
  LET j == job[h] IN
  IF j \in Checks THEN [row EXCEPT !.probe = outcome[j], !.probeAt = at[j]]
  ELSE IF l \in found[j] THEN Sighted(row, j)
  ELSE [row EXCEPT !.seen = FALSE, !.scanAt = at[j], !.misses = @ + 1]

\* On to the next listing.
Onward(h) == Goes(h, IF h \in Workers /\ job[h] \in Scans THEN "seen" ELSE "row")

\* Mutant: a probe is stored without the refresh that judges the listing again.
StoreOnly(h) ==
  /\ stage[h] = "store"
  /\ current' = [current EXCEPT ![on[h]] = Updated(heldC[h], h, on[h])]
  /\ known' = IF job[h] \in Checks THEN known \cup {on[h]} ELSE known
  /\ heldC' = [heldC EXCEPT ![h] = NoCurrent]
  /\ IF job[h] \in Checks THEN Onward(h) ELSE Goes(h, "reload")
  /\ UNCHANGED <<evidence, presence, job, left, on, heldP, deliveries, history>>

\* The row is upserted; a probe also makes sure of the identity.
Store(h) ==
  /\ stage[h] = "store"
  /\ current' = [current EXCEPT ![on[h]] = Updated(heldC[h], h, on[h])]
  /\ known' = IF job[h] \in Checks THEN known \cup {on[h]} ELSE known
  /\ heldC' = [heldC EXCEPT ![h] = NoCurrent]
  /\ Goes(h, "reload")
  /\ UNCHANGED <<evidence, presence, job, left, on, heldP, deliveries, history>>

\* _refresh_projected_listing reads the rows again; without a presence row it returns.
Reload(h) ==
  /\ stage[h] = "reload"
  /\ IF presence[on[h]].observations = 0
       THEN Onward(h) /\ UNCHANGED <<heldP, heldC>>
       ELSE /\ heldP' = [heldP EXCEPT ![h] = presence[on[h]]]
            /\ heldC' = [heldC EXCEPT ![h] = current[on[h]]]
            /\ Goes(h, "note")
  /\ UNCHANGED <<evidence, rows, job, left, on, deliveries, history>>

\* ... upserts the presence row under its own event ...
Note(h) ==
  /\ stage[h] = "note"
  /\ presence' = [presence EXCEPT ![on[h]] = [heldP[h] EXCEPT !.lastEvent = Tag(h)]]
  /\ heldP' = [heldP EXCEPT ![h] = NoPresence]
  /\ Goes(h, "derive")
  /\ UNCHANGED <<evidence, known, current, job, left, on, heldC, deliveries, history>>

Judged(row, age) == Evaluate(row.probe, row.seen, row.misses, row.scanAt > 0, age)

\* ... and the current-state row with the verdict on the evidence it read.
Derive(h) ==
  /\ stage[h] = "derive"
  /\ \E age \in Ages :
       current' = [current EXCEPT ![on[h]] = [heldC[h] EXCEPT !.verdict = Judged(heldC[h], age)]]
  /\ heldC' = [heldC EXCEPT ![h] = NoCurrent]
  /\ Onward(h)
  /\ UNCHANGED <<evidence, known, presence, job, left, on, heldP, deliveries, history>>

\* An exception or a crash.  A batch may be delivered again, a scan is not projected again.
Fail(h) ==
  /\ stage[h] # "idle"
  /\ Ends(h)
  /\ interrupted' = TRUE
  /\ UNCHANGED <<evidence, rows, deliveries, overlapped>>

Project(h) ==
  \/ Seen(h) \/ SeenAll(h) \/ Merge(h) \/ Row(h) \/ RowAll(h)
  \/ Store(h) \/ Reload(h) \/ Note(h) \/ Derive(h)

Next ==
  /\ UNCHANGED plan
  /\ \/ \E r \in Scans : Scan(r)
     \/ \E c \in Checks : Check(c)
     \/ \E w \in Workers, j \in Jobs : Deliver(w, j)
     \/ \E h \in Handlers : Project(h) \/ Fail(h)

Spec == Init /\ [][Next]_vars

-----------------------------------------------------------------------------
\* Rows and the rows handlers hold have the values their columns can have; no fetch is ahead
\* of the clock (V003__platform_mutable_truth.sql, _default_listing_current_state).
TypeOK ==
  /\ clock \in 0..Cardinality(Jobs)
  /\ at \in [Jobs -> 0..clock]
  /\ found \in [Jobs -> SUBSET Listings]
  /\ outcome \in [Jobs -> Outcomes \cup {"good", "failed"}]
  /\ known \subseteq Listings
  /\ presence \in [Listings -> Presence]
  /\ current \in [Listings -> Current]
  /\ job \in [Handlers -> Jobs \cup {None}]
  /\ stage \in [Handlers -> Stages]
  /\ left \in [Handlers -> SUBSET Listings]
  /\ on \in [Handlers -> Listings \cup {None}]
  /\ heldP \in [Handlers -> Presence]
  /\ heldC \in [Handlers -> Current]
  /\ plan \in Plans /\ deliveries \in 0..plan.deliveries
  /\ interrupted \in BOOLEAN
  /\ overlapped \in BOOLEAN

\* Once every handler is through and none was cut short, the state the row of a seen listing
\* names is the one its own evidence columns imply, however the reads and writes of the
\* collector and the projectors fell between one another (_refresh_projected_listing ends
\* every one of them).
Coherent ==
  Busy = {} /\ ~interrupted =>
    \A l \in Listings : presence[l].observations > 0 =>
      \E age \in Ages : current[l].verdict = Judged(current[l], age)

SawBy(l, time) == {r \in Scans : l \in found[r] /\ at[r] <= time}

\* A run is counted as an observation of a listing at most once: repeated, late and
\* concurrent projections of it, and the updates they lose, never count it again
\* (_merge_listing_presence_summary).
ObservationsCountedOnce ==
  \A l \in Listings :
    presence[l].observations <= Cardinality(SawBy(l, presence[l].lastSeen))

MissedSince(l, time) ==
  {r \in Scans : at[r] > time /\ outcome[r] = "good" /\ l \notin found[r]}

\* The misses that make a listing sold_probable are scans of its catalog that came after the
\* last sighting and did not see it: all of them while no batch was projected again, none
\* too many when one was.  Said of projections that neither overlap nor are cut short: either
\* can leave misses counted before a sighting (project_discovery_catalog_scan_completed).
MissesFollowSighting ==
  Busy = {} /\ ~interrupted /\ ~overlapped =>
    \A l \in Listings : presence[l].observations > 0 =>
      LET missed == Cardinality(MissedSince(l, presence[l].lastSeen)) IN
      /\ current[l].misses <= missed
      /\ deliveries = plan.deliveries => current[l].misses = missed

\* S12-SUMMARY.md:41 calls the projections of presence replay-safe: one that is delivered
\* again does not count its sightings again.  Said of projections that neither overlap nor are
\* cut short.  The row remembers its last event alone, and the refresh after a catalog scan or
\* a probe replaces it (_merge_listing_presence_summary, _refresh_projected_listing).
SightingsCountedOnce ==
  ~interrupted /\ ~overlapped =>
    \A l \in Listings : presence[l].sightings <= Cardinality({r \in Scans : l \in found[r]})
=============================================================================
