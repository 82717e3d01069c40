------------------------------- MODULE Serving -------------------------------
(***************************************************************************)
(* The read side, served from either of two stores: the SQLite store the   *)
(* collector writes, whose queries repository.py has in SQL, and the facts *)
(* that the ingest brought to ClickHouse, on which query/*_clickhouse.py   *)
(* has the same queries in SQL and Python.  A dashboard request asks       *)
(* several questions, one after the other, while scans and ingests go on.  *)
(*                                                                         *)
(* In SQL a result is a set, in Python a sequence that loops go over.      *)
(* Left out: the free-text filter, labels (values are numbered in the      *)
(* order of their labels), likes, views and estimated publication, which   *)
(* sort and count in the way prices do, and the caps of 80 and 40 options. *)
(* Times are days, with two days from one event to the next.               *)
(***************************************************************************)
EXTENDS Evidence, SequencesExt

CONSTANTS
  Cards,      \* what a listing's card says: brand, condition, price in cents
  Roots,      \* the root of each catalog
  Shelves,    \* bound: the listings a page may show
  Replies,    \* bound: what a probe may find
  Requests,   \* bound: explorer requests, [where, sort, page]
  PageSize,   \* page_size
  RowLimit,   \* comparison_limit
  Support,    \* support_threshold
  Contexts,   \* _CONTEXT_SPECS of scoring.py, [fields, support]
  MaxEvents,  \* bound: scans and probes
  MaxDuring   \* bound: of these and of ingests, while a request is served

Missing == 0  \* a column that is NULL

Lenses == {"root", "catalog", "brand", "condition", "band", "state"}
Sorts == {"last_seen_desc", "price_desc", "price_asc", "first_seen_desc"}

ASSUME ServingAssumption ==
  /\ Cards \in [Listings -> [brand : Nat, condition : Nat, price : Nat]]
  /\ Roots \in [Catalogs -> Nat] /\ Shelves \subseteq SUBSET Listings
  /\ Replies \subseteq Outcomes \ {"none"}
  /\ \A q \in Requests : DOMAIN q.where \subseteq Lenses /\ q.sort \in Sorts /\ q.page \in Nat \ {0}
  /\ {PageSize, RowLimit, Support} \subseteq Nat \ {0} /\ {MaxEvents, MaxDuring} \subseteq Nat
  /\ \A k \in DOMAIN Contexts :
       Contexts[k].fields \subseteq Lenses \ {"band", "state"} /\ Contexts[k].support \in Nat \ {0}

VARIABLES
  book,     \* the SQLite store
  pending,  \* published batches the ingest has not taken
  facts,    \* fact_listing_seen_events and fact_listing_probe_events
  tick,     \* scans and probes so far
  reader    \* the request in progress

servingVars == <<book, pending, facts, tick, reader>>

Today == 2 * tick

-----------------------------------------------------------------------------
(* Items, the rows of the overview snapshot.                               *)

Band(price) == CASE price = Missing -> "unknown"
                 [] price \in 1..1999 -> "under_20_eur"
                 [] price \in 2000..3999 -> "20_to_39_eur"
                 [] price >= 4000 -> "40_plus_eur"

Freshness(runs, age) == IF runs <= 1 THEN "first-pass-only"
                        ELSE [recent |-> "fresh-followup", dated |-> "aging-followup",
                              stale |-> "stale-followup"][age]

Item(l, catalog, verdict, history) ==
  [id |-> l, brand |-> Cards[l].brand, condition |-> Cards[l].condition,
   price |-> Cards[l].price, band |-> Band(Cards[l].price), catalog |-> catalog,
   root |-> Roots[catalog], state |-> verdict.state, basis |-> verdict.basis,
   confidence |-> verdict.confidence, history |-> history,
   soldLike |-> verdict.state \in {"sold_observed", "sold_probable"},
   partial |-> Completeness[l] < 7, thin |-> Completeness[l] < 5]

\* The table that _overview_state_snapshot_ctes fills.
SqlItem(db, l, now) ==
  LET at == {s.at : s \in PrimaryScans(db, l)} IN
  Item(l, Primary(db, l), Overview(db, l, now),
       [runs |-> Cardinality(Of(db, l)), first |-> Min({o.at : o \in Of(db, l)}),
        last |-> LastSeen(db, l), sightings |-> MapThenSumSet(LAMBDA o : o.sightings, Of(db, l)),
        misses |-> Misses(db, l), scanned |-> IF at = {} THEN 0 ELSE Max(at),
        fresh |-> Freshness(Cardinality(Of(db, l)), Age(db, l, now))])

SqlItems(db, now) == {SqlItem(db, l, now) : l \in Observed(db)}

\* fetch_clickhouse_state_inputs.  A run's observation of a listing has the time of its latest
\* sighting; `joined` tells whether an outer join gives NULL where it finds nothing.
HouseOf(f, l) == {x \in f.seen : x.listing = l}
HouseRuns(f, l) == {[run |-> r, at |-> Max({x.at : x \in {y \in HouseOf(f, l) : y.run = r}})] :
                    r \in {x.run : x \in HouseOf(f, l)}}
HouseLast(f, l) == CHOOSE o \in HouseRuns(f, l) : \A p \in HouseRuns(f, l) : p.at <= o.at
LatestCard(f, l) == CHOOSE x \in HouseOf(f, l) : \A y \in HouseOf(f, l) : y.at <= x.at

ScanRuns(f, c) == {[run |-> r, at |-> Max({x.at : x \in {y \in f.seen : y.catalog = c /\ y.run = r}})] :
                   r \in {x.run : x \in {y \in f.seen : y.catalog = c}}}
LatestScan(f, c) ==
  CHOOSE s \in ScanRuns(f, c) : \A t \in ScanRuns(f, c) : t.at < s.at \/ (t.at = s.at /\ t.run <= s.run)

HouseMisses(f, l, joined) ==
  LET c == LatestCard(f, l).catalog IN
  IF joined THEN Cardinality({s \in ScanRuns(f, c) :
                   /\ s.at > HouseLast(f, l).at
                   /\ ~\E x \in HouseOf(f, l) : x.catalog = c /\ x.run = s.run})
  ELSE 0

\* _hydrate_latest_probe: no probe is the default row of its columns if joins give no NULL.
HouseProbe(f, l, joined) ==
  LET P == {p \in f.probes : p.listing = l}
  IN IF P # {} THEN CHOOSE p \in P : \A q \in P : q.at <= p.at
     ELSE IF joined THEN [listing |-> l, at |-> -1, outcome |-> "none"]
     ELSE [listing |-> l, at |-> 0, outcome |-> ""]

HouseAge(f, l, now) ==
  LET days == now - HouseLast(f, l).at
  IN IF days <= 1 THEN "recent" ELSE IF days <= 3 THEN "dated" ELSE "stale"

HouseVerdict(f, l, now, joined) ==
  Evaluate(HouseProbe(f, l, joined).outcome,
           LatestScan(f, LatestCard(f, l).catalog).run = HouseLast(f, l).run,
           HouseMisses(f, l, joined), TRUE, HouseAge(f, l, now))

HouseItem(f, l, now, joined) ==
  LET runs == HouseRuns(f, l)
      c == LatestCard(f, l).catalog
  IN Item(l, c, HouseVerdict(f, l, now, joined),
          [runs |-> Cardinality(runs), first |-> Min({o.at : o \in runs}),
           last |-> HouseLast(f, l).at, sightings |-> Cardinality(HouseOf(f, l)),
           misses |-> HouseMisses(f, l, joined), scanned |-> LatestScan(f, c).at,
           fresh |-> Freshness(Cardinality(runs), HouseAge(f, l, now))])

\* _evaluated_items, latest sighting first.
HouseItems(f, now, joined) ==
  SetToSortSeq({HouseItem(f, l, now, joined) : l \in {x.listing : x \in f.seen}},
               LAMBDA i, j : Precedes(<<-i.history.last, -i.id>>, <<-j.history.last, -j.id>>))

-----------------------------------------------------------------------------
(* What both sort by.                                                      *)

ValueOf(i, lens) == i[lens]

BandOrder == <<"under_20_eur", "20_to_39_eur", "40_plus_eur", "unknown">>
StateOrder == <<"active", "sold_observed", "sold_probable", "unavailable_non_conclusive",
                "deleted", "unknown">>
Place(v, order) == CHOOSE k \in DOMAIN order : order[k] = v

\* Bands and states by their own order, all else by label.
LabelRank(v, lens) == CASE lens = "band" -> Place(v, BandOrder)
                        [] lens = "state" -> Place(v, StateOrder)
                        [] OTHER -> v

OptionKey(value, count, lens) ==
  IF lens \in {"brand", "condition"} THEN <<-count, LabelRank(value, lens)>>
  ELSE <<LabelRank(value, lens), -count>>
RowKey(value, support, lens) == <<-support, LabelRank(value, lens)>>

\* _explorer_sort_clause, _sort_key: listings without a price come last either way.
SortKey(i, sort) ==
  LET priced == IF i.price = Missing THEN 1 ELSE 0
      last == <<-i.history.last, -i.id>>
  IN CASE sort = "last_seen_desc" -> last
       [] sort = "price_desc" -> <<priced, -i.price>> \o last
       [] sort = "price_asc" -> <<priced, i.price>> \o last
       [] sort = "first_seen_desc" -> <<-i.history.first, -i.id>>

\* The page of an ordered result.
PageOf(ordered, page, size) ==
  LET offset == (page - 1) * size
      shown == SubSeq(ordered, offset + 1, Min({offset + size, Len(ordered)}))
  IN [total |-> Len(ordered), pages |-> (Len(ordered) + size - 1) \div size, items |-> shown,
      more |-> offset + Len(shown) < Len(ordered)]

Head1(rows) == SubSeq(rows, 1, Min({RowLimit, Len(rows)}))

\* A comparison module: `status` says how far its rows can be trusted.
Module(rows) ==
  LET good == {k \in DOMAIN rows : rows[k].support >= Support}
  IN [rows |-> rows, supported |-> Cardinality(good),
      status |-> CASE rows = <<>> -> "empty"
                   [] rows # <<>> /\ good = {} -> "thin-support"
                   [] OTHER -> "ok"]

-----------------------------------------------------------------------------
(* The queries in SQL.                                                     *)

\* _explorer_filter_sql
Where(S, where) == {i \in S : \A lens \in DOMAIN where : ValueOf(i, lens) = where[lens]}

Aggregates(S) ==
  LET priced == {i \in S : i.price # Missing}
      count(T) == Cardinality(T)
  IN [support |-> count(S),
      average |-> <<MapThenSumSet(LAMBDA i : i.price, priced), count(priced)>>,
      sold |-> count({i \in S : i.soldLike}),
      states |-> [s \in States |-> count({i \in S : i.state = s})],
      bases |-> [b \in {"observed", "inferred", "unknown"} |-> count({i \in S : i.basis = b})],
      partial |-> count({i \in S : i.partial}), thin |-> count({i \in S : i.thin})]

Values(S, lens) == {ValueOf(i, lens) : i \in S}
Bearing(S, lens, v) == {i \in S : ValueOf(i, lens) = v}

\* explorer_filter_options: SELECT ... GROUP BY ... ORDER BY.
SqlOptions(S, lens) ==
  SetToSortSeq({[value |-> v, count |-> Cardinality(Bearing(S, lens, v))] : v \in Values(S, lens)},
               LAMBDA a, b : Precedes(OptionKey(a.value, a.count, lens),
                                      OptionKey(b.value, b.count, lens)))

\* _explorer_comparison_module
SqlModule(S, lens) ==
  LET rows == {[value |-> v] @@ Aggregates(Bearing(S, lens, v)) : v \in Values(S, lens)}
  IN Module(Head1(SetToSortSeq(rows, LAMBDA a, b : Precedes(RowKey(a.value, a.support, lens),
                                                            RowKey(b.value, b.support, lens)))))

SqlPage(S, sort, page, size) ==
  PageOf(SetToSortSeq(S, LAMBDA i, j : Precedes(SortKey(i, sort), SortKey(j, sort))), page, size)

-----------------------------------------------------------------------------
(* The queries in Python.                                                  *)

\* filter_explorer_items
Kept(items, where) ==
  SelectSeq(items, LAMBDA i : ~\E lens \in DOMAIN where : ValueOf(i, lens) # where[lens])

\* The buckets a loop over the items fills, value by value.
Buckets(items, lens) ==
  FoldLeft(LAMBDA b, i : LET v == ValueOf(i, lens) IN
             (v :> IF v \in DOMAIN b THEN Append(b[v], i) ELSE <<i>>) @@ b,
           <<>>, items)

Counts(items) ==
  LET with(Test(_)) == Len(SelectSeq(items, Test))
      priced == SelectSeq(items, LAMBDA i : i.price # Missing)
  IN [support |-> Len(items),
      average |-> <<FoldLeft(LAMBDA s, i : s + i.price, 0, priced), Len(priced)>>,
      sold |-> with(LAMBDA i : i.soldLike),
      states |-> [s \in States |-> with(LAMBDA i : i.state = s)],
      bases |-> [b \in {"observed", "inferred", "unknown"} |-> with(LAMBDA i : i.basis = b)],
      partial |-> with(LAMBDA i : i.partial), thin |-> with(LAMBDA i : i.thin)]

\* _counted_options
PyOptions(items, lens) ==
  LET b == Buckets(items, lens)
  IN SortSeq(SetToSeq({[value |-> v, count |-> Len(b[v])] : v \in DOMAIN b}),
             LAMBDA x, y : Precedes(OptionKey(x.value, x.count, lens),
                                    OptionKey(y.value, y.count, lens)))

\* build_comparison_module
PyModule(items, lens) ==
  LET b == Buckets(items, lens)
      rows == SetToSeq({[value |-> v] @@ Counts(b[v]) : v \in DOMAIN b})
  IN Module(Head1(SortSeq(rows, LAMBDA x, y : Precedes(RowKey(x.value, x.support, lens),
                                                       RowKey(y.value, y.support, lens)))))

\* build_listing_explorer_page
PyPage(items, sort, page, size) ==
  PageOf(SortSeq(items, LAMBDA i, j : Precedes(SortKey(i, sort), SortKey(j, sort))), page, size)
-----------------------------------------------------------------------------
(* What a request is answered from a snapshot of the items.                *)

Compared == {"catalog", "brand", "band", "condition", "state"}
NoFilter == [lens \in {} |-> Missing]

\* explorer_filter_options, then explorer_summary, explorer_comparison_modules and
\* listing_explorer_page; and explorer_snapshot of the adapter, over the loop's items.
SqlAnswer(S, part, ask) ==
  LET matched == Where(S, ask.where)
  IN CASE part = "options" -> [lens \in Lenses |-> SqlOptions(S, lens)]
       [] part = "summary" -> Aggregates(matched)
       [] part = "comparisons" -> [lens \in Compared |-> SqlModule(matched, lens)]
       [] part = "page" -> SqlPage(matched, ask.sort, ask.page, PageSize)

HouseAnswer(items, part, ask) ==
  LET matched == Kept(items, ask.where)
  IN CASE part = "options" -> [lens \in Lenses |-> PyOptions(items, lens)]
       [] part = "summary" -> Counts(matched)
       [] part = "comparisons" -> [lens \in Compared |-> PyModule(matched, lens)]
       [] part = "page" -> PyPage(matched, ask.sort, ask.page, PageSize)

\* The home page: overview_snapshot, whose modules are a second copy of the explorer's query,
\* and the four listings seen last.
SqlOverviewModule(S, lens) == SqlModule(S, lens)
SqlHome(S) ==
  [summary |-> Aggregates(S),
   confidence |-> [c \in {"high", "medium", "low"} |-> Cardinality({i \in S : i.confidence = c})],
   seen |-> Max({i.history.last : i \in S} \cup {0}),
   scanned |-> Max({i.history.scanned : i \in S} \cup {0}),
   comparisons |-> [lens \in Compared |-> SqlOverviewModule(S, lens)],
   featured |-> SqlPage(S, "last_seen_desc", 1, 4)]

HouseHome(items) ==
  [summary |-> Counts(items),
   confidence |-> [c \in {"high", "medium", "low"} |->
                     Len(SelectSeq(items, LAMBDA i : i.confidence = c))],
   seen |-> Max({items[k].history.last : k \in DOMAIN items} \cup {0}),
   scanned |-> Max({items[k].history.scanned : k \in DOMAIN items} \cup {0}),
   comparisons |-> [lens \in Compared |-> PyModule(items, lens)],
   featured |-> PyPage(items, "last_seen_desc", 1, 4)]
-----------------------------------------------------------------------------
(* Scores, rankings and the page of a listing.                             *)

\* _score_listing, without the premium, a function of this and of the percentile.
Demand(i) ==
  Min({100,
    [active |-> 18, sold_observed |-> 90, sold_probable |-> 74, unavailable_non_conclusive |-> 42,
     deleted |-> 24, unknown |-> 10][i.state]
    + [high |-> 12, medium |-> 7, low |-> 2][i.confidence]
    + [observed |-> 8, inferred |-> 3, unknown |-> 0][i.basis]
    + ("fresh-followup" :> 10 @@ "aging-followup" :> 6 @@ "stale-followup" :> 2
         @@ "first-pass-only" :> 4)[i.history.fresh]
    + Min({4 * (i.history.runs - 1), 12}) + Min({6 * i.history.misses, 18})})

\* _percentile_rank, as a fraction: twice the cheaper ones and the equal ones, of twice all.
Percentile(price, P) ==
  <<2 * Cardinality({p \in P : p.price < price}) + Cardinality({p \in P : p.price = price}),
    2 * Cardinality(P)>>

\* _context_filters: columns that are NULL filter nothing.
Given(i, fields) == {f \in fields : i[f] # Missing}

\* _load_repository_context over the peers a query finds, least general context first.
Context(i, peers) ==
  LET enough(k) == /\ Given(i, Contexts[k].fields) # {}
                   /\ Cardinality(peers[k]) >= Contexts[k].support
      K == {k \in DOMAIN Contexts : enough(k)}
  IN IF i.price = Missing \/ K = {} THEN [label |-> 0, size |-> 0, rank |-> <<0, 0>>]
     ELSE [label |-> Min(K), size |-> Cardinality(peers[Min(K)]),
           rank |-> Percentile(i.price, peers[Min(K)])]

Scored(i, peers) == [item |-> i, demand |-> Demand(i), context |-> Context(i, peers)]

\* The columns of a listing found in a catalog, of which a filter compares those it is given.
Columns(l, c) == [root |-> Roots[c], catalog |-> c] @@ Cards[l]
Priced(L) == {[id |-> l, price |-> Cards[l].price] : l \in {l \in L : Cards[l].price # Missing}}

\* Mutant: a column that is NULL is compared like any other.
SqlPeersOfNull(db, i, fields) ==
  Priced({l \in Observed(db) : \A f \in fields : Columns(l, Primary(db, l))[f] = i[f]})

\* listing_price_context_peer_prices
SqlPeers(db, i, fields) ==
  Priced({l \in Observed(db) : \A f \in Given(i, fields) : Columns(l, Primary(db, l))[f] = i[f]})

\* fetch_clickhouse_price_context_peer_prices, from the latest card of each listing.
HousePeers(f, i, fields) ==
  Priced({l \in {x.listing : x \in f.seen} :
            \A g \in Given(i, fields) : Columns(l, LatestCard(f, l).catalog)[g] = i[g]})

\* Mutant: a listing is not among its own peers.
IndexPeersOfOthers(items, i, fields) ==
  LET key(j) == [f \in Given(j, fields) |-> j[f]]
  IN Priced({items[k].id : k \in {k \in DOMAIN items : /\ items[k].id # i.id
                                                      /\ key(items[k]) = key(i)}})

\* _build_context_indexes: a listing is found under the columns it has itself.
IndexPeers(items, i, fields) ==
  LET key(j) == [f \in Given(j, fields) |-> j[f]]
  IN Priced({items[k].id : k \in {k \in DOMAIN items : key(items[k]) = key(i)}})

\* build_listing_scores, build_rankings by demand.
Scores(items) ==
  [k \in DOMAIN items |->
     Scored(items[k], [c \in DOMAIN Contexts |-> IndexPeers(items, items[k], Contexts[c].fields)])]
Ranking(scores) ==
  LET key(s) == <<-s.demand, -[high |-> 3, medium |-> 2, low |-> 1][s.item.confidence], s.item.id>>
  IN SortSeq(scores, LAMBDA s, t : Precedes(key(s), key(t)))

\* listing_history and its ClickHouse twin: the observations, latest first.
SqlTimeline(db, l) ==
  SetToSortSeq({[run |-> o.run, at |-> o.at, catalog |-> o.catalog, sightings |-> o.sightings] :
                o \in Of(db, l)},
               LAMBDA a, b : Precedes(<<-a.at, -a.run>>, <<-b.at, -b.run>>))
HouseTimeline(f, l) ==
  LET of(r) == {x \in HouseOf(f, l) : x.run = r.run}
  IN SetToSortSeq({[run |-> r.run, at |-> r.at, sightings |-> Cardinality(of(r)),
                    catalog |-> (CHOOSE x \in of(r) : x.at = r.at).catalog] : r \in HouseRuns(f, l)},
                  LAMBDA a, b : Precedes(<<-a.at, -a.run>>, <<-b.at, -b.run>>))

\* load_listing_score_detail with the history and the latest probe.
SqlDetail(db, l, now) ==
  LET i == SqlItem(db, l, now)
  IN [score |-> Scored(i, [c \in DOMAIN Contexts |-> SqlPeers(db, i, Contexts[c].fields)]),
      timeline |-> SqlTimeline(db, l), probe |-> LatestProbe(db, l)]
HouseDetail(f, l, now, joined) ==
  LET i == HouseItem(f, l, now, joined)
  IN [score |-> Scored(i, [c \in DOMAIN Contexts |-> HousePeers(f, i, Contexts[c].fields)]),
      timeline |-> HouseTimeline(f, l), probe |-> HouseProbe(f, l, joined)]

-----------------------------------------------------------------------------
(* The collector and the ingest.                                           *)

NoFacts == [seen |-> {}, probes |-> {}]
NoReader == [at |-> 0, server |-> "none", ask |-> CHOOSE q \in Requests : TRUE, now |-> 0,
             cache |-> {}, got |-> [p \in {} |-> {}], during |-> 0]

\* An explorer payload: the parts each query answers, in order.
Stages == [sqlite |-> <<{"options"}, {"summary"}, {"comparisons"}, {"page"}>>,
           clickhouse |-> <<{"options"}, {"summary", "comparisons", "page"}>>,
           none |-> <<>>]

Served == reader.server # "none" /\ reader.at = Len(Stages[reader.server])

\* Events go on while a request is served.
Meanwhile ==
  \/ reader.server = "none" /\ UNCHANGED reader
  \/ /\ reader.server # "none" /\ ~Served /\ reader.during < MaxDuring
     /\ reader' = [reader EXCEPT !.during = @ + 1]
Happens == tick < MaxEvents /\ tick' = tick + 1 /\ Meanwhile

CurrentRun == Max({s.run : s \in book.scans} \cup {1})
PageNumber(r, c) == Cardinality({s \in book.scans : s.run = r /\ s.catalog = c}) + 1

\* A page with the listings of a shelf, in this run or the next one.  A page without listings
\* has no rows to publish.
Shelve(r, c, shelf) ==
  LET page == PageNumber(r, c)
      store(l, db) == RecordObservation(RecordDiscovery(UpsertListing(db, r, c, Today, l),
                                          r, c, page, Today, l), r, c, Today, l)
  IN /\ Happens
     /\ book' = FoldSet(store, RecordScan(book, r, c, page, Today, TRUE), shelf)
     /\ pending' = IF shelf = {} THEN pending
                   ELSE pending \cup {[seen |-> {[run |-> r, catalog |-> c, listing |-> l,
                                                 at |-> Today] : l \in shelf}, probes |-> {}]}
     /\ UNCHANGED facts

ScanFails(r, c) ==
  /\ Happens
  /\ book' = RecordScan(book, r, c, PageNumber(r, c), Today, FALSE)
  /\ UNCHANGED <<pending, facts>>

ProbeOne(l, outcome) ==
  /\ Happens /\ l \in Observed(book)
  /\ book' = RecordProbe(book, l, Today, outcome)
  /\ pending' = pending \cup {[seen |-> {}, probes |-> {[listing |-> l, at |-> Today,
                                                       outcome |-> outcome]}]}
  /\ UNCHANGED facts

IngestOne(batch) ==
  /\ Meanwhile
  /\ facts' = [seen |-> facts.seen \cup batch.seen, probes |-> facts.probes \cup batch.probes]
  /\ pending' = pending \ {batch}
  /\ UNCHANGED <<book, tick>>

-----------------------------------------------------------------------------
(* A request of the explorer.                                              *)

AskFor(server, ask) ==
  /\ reader.server = "none" /\ tick < MaxEvents
  /\ reader' = [reader EXCEPT !.server = server, !.ask = ask, !.now = Today]
  /\ UNCHANGED <<book, pending, facts, tick>>

\* Mutant: every query takes the items anew.
SnapshotEachTime(server) ==
  IF server = "sqlite" THEN SqlItems(book, reader.now) ELSE HouseItems(facts, reader.now, FALSE)

\* _ensure_overview_state_snapshot, _evaluated_items: taken once for a request's `now`.
Snapshot(server) ==
  IF reader.cache # {} THEN CHOOSE s \in reader.cache : TRUE
  ELSE IF server = "sqlite" THEN SqlItems(book, reader.now)
  ELSE HouseItems(facts, reader.now, FALSE)

\* build_explorer_payload, one repository call at a time.
Answer ==
  /\ reader.at < Len(Stages[reader.server])
  /\ LET server == reader.server
         items == Snapshot(server)
         answered(part) == IF server = "sqlite" THEN SqlAnswer(items, part, reader.ask)
                           ELSE HouseAnswer(items, part, reader.ask)
     IN reader' = [reader EXCEPT !.at = @ + 1, !.cache = {items},
                     !.got = [p \in Stages[server][reader.at + 1] |-> answered(p)] @@ @]
  /\ UNCHANGED <<book, pending, facts, tick>>

ServingInit ==
  /\ book = EmptyStore /\ pending = {} /\ facts = NoFacts /\ tick = 0 /\ reader = NoReader

ServingNext ==
  \/ \E r \in {CurrentRun, CurrentRun + 1}, c \in Catalogs :
       (\E shelf \in Shelves : Shelve(r, c, shelf)) \/ ScanFails(r, c)
  \/ \E l \in Listings, outcome \in Replies : ProbeOne(l, outcome)
  \/ \E batch \in pending : IngestOne(batch)
  \/ \E server \in {"sqlite", "clickhouse"}, ask \in Requests : AskFor(server, ask)
  \/ Answer

ServingSpec == ServingInit /\ [][ServingNext]_servingVars
-----------------------------------------------------------------------------
\* Facts, batches and the request keep their domains, and nothing is ingested that was not stored.
ServingTypeOK ==
  /\ tick \in 0..MaxEvents /\ reader.during \in 0..MaxDuring
  /\ reader.server \in DOMAIN Stages /\ reader.at \in 0..Len(Stages[reader.server])
  /\ DOMAIN reader.got = UNION {Stages[reader.server][k] : k \in 1..reader.at}
  /\ \A batch \in pending \cup {facts} :
       /\ \A x \in batch.seen : \E d \in book.found :
            <<d.run, d.catalog, d.listing, d.at>> = <<x.run, x.catalog, x.listing, x.at>>
       /\ batch.probes \subseteq book.probes

\* What an explorer page says adds up, whatever the collector and the ingest do while its
\* queries run: the total of the page is the number of matches of the summary, each option and
\* each row of a comparison counts the listings a click on it would match, and there is a next
\* page if and only if listings are left.  One snapshot per request does it.
ExplorerCoherent ==
  Served =>
    LET got == reader.got
        where == reader.ask.where
        matched == got["summary"].support
        page == got["page"]
        countOf(lens, v) == FoldSeq(LAMBDA o, n : IF o.value = v THEN o.count + n ELSE n, 0,
                                    got["options"][lens])
    IN /\ page.total = matched
       /\ page.more <=> PageSize * (reader.ask.page - 1) + Len(page.items) < matched
       /\ \A lens \in DOMAIN where : matched <= countOf(lens, where[lens])
       /\ Cardinality(DOMAIN where) = 1 => \A lens \in DOMAIN where : matched = countOf(lens, where[lens])
       /\ \A lens \in Compared :
            LET rows == got["comparisons"][lens].rows
                total == FoldSeq(LAMBDA row, n : row.support + n, 0, rows)
            IN /\ Len(rows) < RowLimit => total = matched
               /\ \A k \in DOMAIN rows : rows[k].support <= countOf(lens, rows[k].value)
               /\ where = NoFilter => \A k \in DOMAIN rows : rows[k].support = countOf(lens, rows[k].value)

\* The condition of parity: all is ingested, a successful page listed something, and no listing
\* was seen twice in a run.
Ingested == tick > 0 /\ reader.server = "none" /\ pending = {}
Comparable ==
  /\ \A s \in book.scans : s.ok => \E d \in book.found :
       <<d.run, d.catalog, d.page>> = <<s.run, s.catalog, s.page>>
  /\ \A d, e \in book.found : d.run = e.run /\ d.listing = e.listing => d = e

SameAnswers(S, items) ==
  \A ask \in Requests, part \in {"options", "summary", "comparisons", "page"} :
    SqlAnswer(S, part, ask) = HouseAnswer(items, part, ask)

\* Under that condition the two servers, one in SQL, the other in Python over what was ingested,
\* answer alike: the explorer, the home page and the page of every listing, if the joins of
\* ClickHouse give NULL where they find nothing; and the explorer if they give defaults, as long
\* as no listing has been missed.
ServersAgree ==
  Ingested /\ Comparable =>
    LET S == SqlItems(book, Today)
        items == HouseItems(facts, Today, TRUE)
    IN /\ SameAnswers(S, items) /\ SqlHome(S) = HouseHome(items)
       /\ \A l \in Observed(book) : SqlDetail(book, l, Today) = HouseDetail(facts, l, Today, TRUE)
       /\ (\A i \in S : i.history.misses = 0) => SameAnswers(S, HouseItems(facts, Today, FALSE))

\* A listing whose brand and condition are known has the same score in the rankings, which look
\* it up in indexes of all listings, and on its own page, which asks for its peers.
ScoresAgree ==
  facts.seen # {} /\ reader.server = "none" =>
    LET items == HouseItems(facts, Today, FALSE)
        scores == Ranking(Scores(items))
    IN \A k \in DOMAIN scores :
         Missing \notin {scores[k].item.brand, scores[k].item.condition} =>
           scores[k] = HouseDetail(facts, scores[k].item.id, Today, FALSE).score

\* What the parity check of the routes asks: once all is ingested the explorer answers alike,
\* even with joins that give NULL.
RoutesMatch ==
  Ingested => SameAnswers(SqlItems(book, Today), HouseItems(facts, Today, TRUE))
=============================================================================
