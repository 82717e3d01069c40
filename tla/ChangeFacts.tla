---------------------------- MODULE ChangeFacts ----------------------------
(***************************************************************************)
(* How platform/clickhouse_ingest.py derives the change rows of a batch    *)
(* from the fact and change tables as they stand: a batch says of each of  *)
(* its listings that a page showed it, or that a probe answered; the last  *)
(* page of a catalog scan also says which listings the scan missed.        *)
(*                                                                         *)
(* A log holds the batches in the order of the times they carry, and the   *)
(* number of a batch stands for that time.  Left out: the descriptive      *)
(* columns, and of the compared ones all but the price: likes and views    *)
(* make rows of their own kind in the way the price does.                  *)
(***************************************************************************)
EXTENDS ListingState, Sequences, FiniteSetsExt

CONSTANTS
  Listings,  \* listings of one catalog
  Prices,    \* prices they may have
  Answers,   \* probe outcomes considered
  NoPrice,   \* none given
  None       \* no snapshot


\* A page of run `run` with its listings, or a probe of one listing; `last` tells the terminal
\* page of a catalog scan.
Batches == [run : Nat, of : SUBSET Listings, price : Prices \cup {NoPrice}, last : BOOLEAN,
            probe : Outcomes]
IsPage(b) == b.probe = "none"

\* _DerivedListingSnapshot.  `settled`: the probe alone gave the verdict, with a score of its own.
Snapshots == [verdict : Verdicts, settled : BOOLEAN, price : Prices \cup {NoPrice}, misses : Nat,
              seen : BOOLEAN, scanned : BOOLEAN, probe : Outcomes]

ASSUME ChangeAssumption ==
  /\ NoPrice \notin Prices
  /\ Answers \subseteq Outcomes \ {"none"}
  /\ None \notin Snapshots

Kinds == {"state_transition", "price_change", "follow_up_miss_transition"}
Rows == [by : Nat \ {0}, listing : Listings, kind : Kinds,
         previous : Snapshots \cup {None}, current : Snapshots]

-----------------------------------------------------------------------------
(* What is read: always rows of an earlier time than the batch's own.      *)

Last(S) == IF S = {} THEN 0 ELSE Max(S)

\* Mutant: the batch's own facts count as earlier ones.
SeenUpTo(log, facts, l, t) ==
  Last({i \in facts : i <= t /\ IsPage(log[i]) /\ l \in log[i].of})

\* The batch of the latest page, or probe, of a listing before a time; 0 without one.
SeenBefore(log, facts, l, t) ==
  Last({i \in facts : i < t /\ IsPage(log[i]) /\ l \in log[i].of})
ProbeBefore(log, facts, l, t) ==
  Last({i \in facts : i < t /\ ~IsPage(log[i]) /\ l \in log[i].of})

\* The latest change row of a listing before a time; rows of one batch hold one snapshot.
ChangesBefore(ledger, l, t) == {c \in ledger : c.listing = l /\ c.by < t}
Latest(C) == CHOOSE c \in C : \A d \in C : d.by <= c.by

SeenInRun(log, facts, r) ==
  UNION {log[i].of : i \in {j \in facts : IsPage(log[j]) /\ log[j].run = r}}

-----------------------------------------------------------------------------
(* Snapshots.                                                              *)

\* _snapshot_evidence and _snapshot_from_evaluation.  No age: it tells only on a listing no
\* page showed, which has none.
Snapshot(probe, seen, misses, scanned, price) ==
  [verdict |-> Evaluate(probe, seen, misses, scanned, "recent"),
   settled |-> probe \in DOMAIN Settled, price |-> price, misses |-> misses,
   seen |-> seen, scanned |-> scanned, probe |-> probe]

\* Mutant: the change rows are not consulted.
PreviousOfFacts(log, facts, ledger, l, t) ==
  LET page == SeenBefore(log, facts, l, t)
      probed == ProbeBefore(log, facts, l, t)
  IN IF page # 0 \/ probed # 0
       THEN Snapshot(IF probed = 0 THEN "none" ELSE log[probed].probe, page # 0, 0, page # 0,
                     IF page = 0 THEN NoPrice ELSE log[page].price)
     ELSE None

\* _build_previous_snapshot: the latest change row if there is one, an evaluation of the
\* facts if not, and None where nothing is known of the listing.
Previous(log, facts, ledger, l, t) ==
  LET page == SeenBefore(log, facts, l, t)
      probed == ProbeBefore(log, facts, l, t)
      rows == ChangesBefore(ledger, l, t)
      answer == IF probed = 0 THEN "none" ELSE log[probed].probe
      row == Latest(rows).current
  IN IF rows # {}
       THEN [row EXCEPT !.price = IF @ = NoPrice /\ page # 0 THEN log[page].price ELSE @,
                        !.seen = row.misses = 0 /\ page # 0,
                        !.scanned = page # 0,
                        !.probe = answer]
     ELSE IF page # 0 \/ probed # 0
       THEN Snapshot(answer, page # 0, 0, page # 0, IF page = 0 THEN NoPrice ELSE log[page].price)
     ELSE None

\* _build_seen_snapshot
Sighted(b, p) == Snapshot(IF p = None THEN "none" ELSE p.probe, TRUE, 0, TRUE, b.price)

\* _build_follow_up_miss_snapshot
Missed(p) == Snapshot(p.probe, FALSE, p.misses + 1, TRUE, p.price)

\* _build_probe_snapshot
Probed(b, p) ==
  IF p = None THEN Snapshot(b.probe, FALSE, 0, FALSE, NoPrice)
  ELSE Snapshot(b.probe, p.seen, p.misses, p.scanned, p.price)

-----------------------------------------------------------------------------
(* Change rows.                                                            *)

\* _build_change_rows: a kind for each difference, a transition where nothing was known.
Differences(p, c) ==
  IF p = None THEN {"state_transition"}
  ELSE {k \in Kinds : \/ k = "state_transition" /\ <<p.verdict, p.settled>> # <<c.verdict, c.settled>>
                      \/ k = "price_change" /\ p.price # c.price
                      \/ k = "follow_up_miss_transition" /\ p.misses # c.misses}

Changes(i, l, p, c) ==
  {[by |-> i, listing |-> l, kind |-> k, previous |-> p, current |-> c] : k \in Differences(p, c)}

\* Mutant: only the terminal page itself is held against the listings known.
MissingFromPage(log, facts, i) ==
  IF ~log[i].last THEN {}
  ELSE {l \in Listings : SeenBefore(log, facts, l, i) # 0} \ log[i].of

\* Listings of the catalog that the run of a terminal page has not shown.
Missing(log, facts, i) ==
  IF ~log[i].last THEN {}
  ELSE {l \in Listings : SeenBefore(log, facts, l, i) # 0}
         \ (SeenInRun(log, facts, log[i].run) \cup log[i].of)

\* _derive_listing_seen_change_rows, _derive_probe_change_rows: the rows of batch i.
Derived(log, facts, ledger, i) ==
  LET before(l) == Previous(log, facts, ledger, l, i)
      after(l) == IF IsPage(log[i]) THEN Sighted(log[i], before(l)) ELSE Probed(log[i], before(l))
  IN UNION ({Changes(i, l, before(l), after(l)) : l \in log[i].of}
            \cup {Changes(i, l, before(l), Missed(before(l))) : l \in Missing(log, facts, i)})

\* Which row is which: the key its identifier is made of.
Key(c) == <<c.by, c.listing, c.kind>>
=============================================================================
