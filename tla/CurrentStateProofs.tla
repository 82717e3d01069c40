-------------------------- MODULE CurrentStateProofs --------------------------
(***************************************************************************)
(* CurrentState, for any listings, scans, probes, projectors and bounds:   *)
(* the types, that a run is counted as an observation once, that the state *)
(* a listing's row names is the one its evidence implies once every        *)
(* handler is through, and that the misses are the scans since the last    *)
(* sighting.                                                               *)
(*                                                                         *)
(* The argument: a handler's step changes its own variables and one row,   *)
(* so Moves says what such a step may do to them, each action is shown to  *)
(* be a move, and a move keeps the invariant.  A row whose verdict lags    *)
(* behind its evidence has a handler that is still to judge it: Pending.   *)
(* Orderly is what holds besides while handlers neither overlap nor are    *)
(* cut short: the rows in hand are the stored ones, and the misses agree   *)
(* with the scans but for what the one handler at work is Ahead of.        *)
(***************************************************************************)
EXTENDS CurrentState, FiniteSetTheorems, TLAPS

AtListing == {"merge", "store", "reload", "note", "derive"}

\* A projector that projects the listings of a scan: it takes them one at a time, from the
\* sighting to the verdict.
Scanning(h) == h \in Workers /\ job[h] \in Scans

\* What a handler is at agrees with what it projects.
Fit(h) ==
  /\ stage[h] # "idle" => (job[h] \in Jobs /\ (h \in Jobs => job[h] = h))
  /\ stage[h] \in {"seen", "merge"} => job[h] \in Scans
  /\ stage[h] \in AtListing => on[h] \in Listings
  /\ stage[h] = "merge" => on[h] \in found[job[h]]
  /\ (stage[h] # "idle" /\ job[h] \in Scans /\ (h \in Workers \/ stage[h] \in {"seen", "merge"}))
       => left[h] \subseteq found[job[h]]
  /\ (stage[h] = "row" /\ Scanning(h)) => on[h] \in left[h]

\* A job that has not fetched has found nothing and is not at work; a scan that saw anything
\* is a good one.
JobFit(j) ==
  /\ at[j] = 0 => (found[j] = {} /\ stage[j] = "idle")
  /\ (j \in Scans /\ found[j] # {}) => outcome[j] = "good"
  /\ j \in Checks => outcome[j] \in Outcomes

Fetches == {j \in Jobs : at[j] > 0}

\* A row counts no run that did not see its listing, and none past the last it names.
Counted(p, l) == p.observations <= Cardinality(SawBy(l, p.lastSeen))

\* The rows handlers hold, and will write, are counted as the stored ones are.
HeldCounted(h) == stage[h] \in {"merge", "note"} => Counted(heldP[h], on[h])

\* A handler has the verdict of a listing still to write.
Pending(h, l) ==
  \/ l \in left[h]
  \/ on[h] = l /\ stage[h] \in AtListing
  \/ Direct(h) /\ stage[h] \in {"seen", "merge"} /\ l \in found[h]

CoherentAt(l) == \E age \in Ages : current[l].verdict = Judged(current[l], age)

\* Unless a handler was cut short, a lagging verdict has a handler that is to write it.
Covered ==
  ~interrupted =>
    \A l \in Listings : presence[l].observations > 0 =>
      CoherentAt(l) \/ \E h \in Busy : Pending(h, l)

IInv ==
  /\ TypeOK
  /\ clock = Cardinality(Fetches)
  /\ \A j \in Jobs : JobFit(j)
  /\ \A h \in Handlers : Fit(h)
  /\ ObservationsCountedOnce
  /\ \A h \in Handlers : HeldCounted(h)
  /\ Covered

-----------------------------------------------------------------------------
\* What a handler's step may do to the verdict of a listing: leave it to be written, write it,
\* or find that there was nothing to write.
Minds(h, l) ==
  \/ stage'[h] # "idle" /\ Pending(h, l)'
  \/ CoherentAt(l)'
  \/ presence'[l].observations = 0
  \/ /\ current'[l] = current[l] /\ presence'[l].observations = presence[l].observations
     /\ stage[h] = "idle" \/ ~Pending(h, l)

\* What the step of a handler may do: to its own variables, to rows, to nobody else's.
Moves(h) ==
  /\ UNCHANGED <<plan, evidence>>
  /\ TypeOK'
  /\ Fit(h)'
  /\ (h \in Jobs /\ stage'[h] # "idle") => stage[h] # "idle"
  /\ \A g \in Handlers \ {h} :
       /\ stage'[g] = stage[g] /\ job'[g] = job[g] /\ left'[g] = left[g]
       /\ on'[g] = on[g] /\ heldP'[g] = heldP[g] /\ heldC'[g] = heldC[g]
  /\ stage'[h] \in {"merge", "note"} => Counted(heldP'[h], on'[h])
  /\ \A l \in Listings : presence'[l] = presence[l] \/ Counted(presence'[l], l)
  /\ interrupted' \/ (interrupted' = interrupted /\ \A l \in Listings : Minds(h, l))

\* A verdict is a verdict.
LEMMA JudgedType ==
  ASSUME NEW row \in Current, NEW age \in Ages
  PROVE  Judged(row, age) \in Verdicts
<1>1. \A p \in DOMAIN Settled : Settled[p] \in Verdicts
  BY DEF Settled, Verdict, Verdicts, States
<1>2. Inferred(row.seen, row.misses, row.scanAt > 0, age) \in Verdicts
  BY DEF Inferred, Verdict, Verdicts, States
<1> QED
  BY <1>1, <1>2 DEF Judged, Evaluate

\* A presence row merged with a sighting is a presence row.
LEMMA MergedType ==
  ASSUME TypeOK, NEW p \in Presence, NEW r \in Scans
  PROVE  Merged(p, r) \in Presence
<1> DEFINE e == <<"seen", r>>
           n == p.sightings + 1
           m == p.observations + 1
           t == IF at[r] > p.lastSeen THEN at[r] ELSE p.lastSeen
<1>1. e \in Events \cup {None} /\ r \in Scans \cup {None}
  BY DEF Events, Jobs
<1>2. at[r] \in Nat /\ t \in Nat /\ n \in Nat /\ m \in Nat
  BY DEF TypeOK, Jobs, Presence
<1>3. Merged(p, r) \in {p, [p EXCEPT !.sightings = n, !.lastSeen = t, !.lastEvent = e],
                        [p EXCEPT !.observations = m, !.sightings = n, !.lastSeen = at[r],
                                  !.lastRun = r, !.lastEvent = e]}
  BY DEF Merged
<1> HIDE DEF e, n, m, t
<1>4. [p EXCEPT !.sightings = n, !.lastSeen = t, !.lastEvent = e] \in Presence
  BY <1>1, <1>2 DEF Presence
<1>5. [p EXCEPT !.observations = m, !.sightings = n, !.lastSeen = at[r], !.lastRun = r,
                !.lastEvent = e] \in Presence
  BY <1>1, <1>2 DEF Presence
<1> QED
  BY <1>3, <1>4, <1>5

\* A state row updated from a scan or a probe is a state row.
LEMMA UpdatedType ==
  ASSUME IInv, NEW h \in Handlers, job[h] \in Jobs, NEW l \in Listings, NEW row \in Current
  PROVE  Updated(row, h, l) \in Current
<1> DEFINE t == at[job[h]]
           o == outcome[job[h]]
           n == row.misses + 1
<1>1. t \in Nat /\ (job[h] \in Checks => o \in Outcomes) /\ n \in Nat
  BY DEF IInv, TypeOK, JobFit, Current
<1>2. Updated(row, h, l) =
        IF job[h] \in Checks THEN [row EXCEPT !.probe = o, !.probeAt = t]
        ELSE IF l \in found[job[h]] THEN [row EXCEPT !.seen = TRUE, !.scanAt = t, !.misses = 0]
        ELSE [row EXCEPT !.seen = FALSE, !.scanAt = t, !.misses = n]
  BY DEF Updated, Sighted
<1> HIDE DEF t, o, n
<1>3. job[h] \in Checks => [row EXCEPT !.probe = o, !.probeAt = t] \in Current
  BY <1>1 DEF Current
<1>4. /\ [row EXCEPT !.seen = TRUE, !.scanAt = t, !.misses = 0] \in Current
      /\ [row EXCEPT !.seen = FALSE, !.scanAt = t, !.misses = n] \in Current
  BY <1>1 DEF Current
<1> QED
  BY <1>2, <1>3, <1>4

\* The sightings up to a time are finite, and more at a later time.
LEMMA SawMore ==
  ASSUME IInv, NEW l, NEW s \in Nat, NEW t \in Nat, s <= t
  PROVE  /\ IsFiniteSet(SawBy(l, t)) /\ Cardinality(SawBy(l, t)) \in Nat
         /\ Cardinality(SawBy(l, s)) <= Cardinality(SawBy(l, t))
<1>1. SawBy(l, t) \in SUBSET Scans /\ SawBy(l, s) \in SUBSET SawBy(l, t)
  BY DEF SawBy, IInv, TypeOK, Jobs
<1> QED
  BY <1>1, FS_Subset, FS_CardinalityType, CurrentAssumption

\* A merge counts the run it merges at most once.
LEMMA MergedCounted ==
  ASSUME IInv, NEW l \in Listings, NEW r \in Scans, l \in found[r], NEW p \in Presence,
         Counted(p, l)
  PROVE  Counted(Merged(p, r), l)
<1> DEFINE q == Merged(p, r)
<1>1. at[r] \in Nat /\ p.lastSeen \in Nat /\ p.observations \in Nat /\ p.sightings \in Nat
  BY DEF IInv, TypeOK, Jobs, Presence
<1>2. CASE q.observations = p.observations /\ q.lastSeen \in Nat /\ q.lastSeen >= p.lastSeen
  <2>1. Cardinality(SawBy(l, p.lastSeen)) \in Nat /\ Cardinality(SawBy(l, q.lastSeen)) \in Nat
        /\ Cardinality(SawBy(l, p.lastSeen)) <= Cardinality(SawBy(l, q.lastSeen))
    BY <1>1, <1>2, SawMore
  <2> QED
    BY <1>1, <1>2, <2>1 DEF Counted
<1>3. CASE /\ q.observations = p.observations + 1 /\ q.lastSeen = at[r]
           /\ p.observations = 0 \/ at[r] > p.lastSeen
  <2> DEFINE new == SawBy(l, at[r])
             old == IF p.observations = 0 THEN {} ELSE SawBy(l, p.lastSeen)
  <2>1. r \in new /\ r \notin old /\ old \in SUBSET new /\ new \in SUBSET Scans
    BY <1>1, <1>3 DEF SawBy, IInv, TypeOK, Jobs
  <2>2. p.observations <= Cardinality(old)
    BY FS_EmptySet DEF Counted
  <2> HIDE DEF new, old
  <2>3. old \cup {r} \in SUBSET new /\ IsFiniteSet(new)
    BY <2>1, FS_Subset, CurrentAssumption
  <2>4. IsFiniteSet(old) /\ Cardinality(old) \in Nat /\ Cardinality(new) \in Nat
        /\ Cardinality(old \cup {r}) <= Cardinality(new)
    BY <2>1, <2>3, FS_Subset, FS_CardinalityType
  <2>5. Cardinality(old \cup {r}) = Cardinality(old) + 1
    BY <2>1, <2>4, FS_AddElement
  <2> QED
    BY <1>1, <1>3, <2>2, <2>4, <2>5 DEF Counted, new
<1> QED
  BY <1>1, <1>2, <1>3 DEF Merged, Presence

\* While the evidence stands, so do the runs that saw a listing.
LEMMA SawStays ==
  ASSUME UNCHANGED evidence, NEW l, NEW t
  PROVE  SawBy(l, t)' = SawBy(l, t)
BY DEF SawBy, evidence

\* A move keeps the invariant.
LEMMA MovesKeep ==
  ASSUME IInv, NEW h \in Handlers, Moves(h)
  PROVE  IInv'
<1>1. TypeOK' /\ (clock = Cardinality(Fetches))'
  BY DEF Moves, IInv, evidence, Fetches
<1>2. ASSUME NEW g \in Handlers
      PROVE  Fit(g)'
  <2>1. CASE g = h
    BY <2>1 DEF Moves
  <2>2. CASE g # h
    BY <2>2 DEF Moves, IInv, Fit, Scanning, evidence
  <2> QED
    BY <2>1, <2>2
<1>3. ASSUME NEW j \in Jobs
      PROVE  JobFit(j)'
  <2>1. j \in Handlers /\ JobFit(j)
    BY DEF Handlers, IInv
  <2> QED
    BY <2>1 DEF Moves, JobFit, evidence
<1>4. \A l, t : SawBy(l, t)' = SawBy(l, t)
  BY SawStays DEF Moves
<1>5. ASSUME NEW g \in Handlers
      PROVE  HeldCounted(g)'
  <2>1. stage'[g] \in {"merge", "note"} => Counted(heldP'[g], on'[g])
    BY DEF Moves, IInv, HeldCounted
  <2> QED
    BY <1>4, <2>1 DEF HeldCounted, Counted
<1>6. ObservationsCountedOnce'
  <2>1. \A l \in Listings : Counted(presence'[l], l)
    BY DEF Moves, IInv, ObservationsCountedOnce, Counted
  <2> QED
    BY <1>4, <2>1 DEF ObservationsCountedOnce, Counted
<1>7. Covered'
  <2> SUFFICES ASSUME ~interrupted', NEW l \in Listings, presence'[l].observations > 0
               PROVE  CoherentAt(l)' \/ \E g \in Busy' : Pending(g, l)'
    BY DEF Covered
  <2>1. ~interrupted /\ Minds(h, l)
    BY DEF Moves
  <2>2. CASE stage'[h] # "idle" /\ Pending(h, l)'
    BY <2>2 DEF Busy
  <2>3. CASE presence'[l].observations = 0
    BY <2>3
  <2>4. CASE /\ current'[l] = current[l] /\ presence'[l].observations = presence[l].observations
             /\ stage[h] = "idle" \/ ~Pending(h, l)
    <3>1. CASE CoherentAt(l)
      BY <2>4, <3>1 DEF CoherentAt
    <3>2. CASE \E g \in Busy : Pending(g, l)
      <4>1. PICK g \in Busy : Pending(g, l)
        BY <3>2
      <4>2. g \in Handlers \ {h} /\ stage'[g] # "idle"
        BY <2>4, <4>1 DEF Busy, Moves
      <4>3. Pending(g, l)'
        BY <4>1, <4>2 DEF Moves, Pending, Direct, evidence
      <4> QED
        BY <4>2, <4>3 DEF Busy
    <3> QED
      BY <2>1, <2>4, <3>1, <3>2 DEF IInv, Covered
  <2> QED
    BY <2>1, <2>2, <2>3, <2>4 DEF Minds
<1> QED
  BY <1>1, <1>2, <1>3, <1>5, <1>6, <1>7 DEF IInv

\* A handler that ends owes nothing to any listing.
LEMMA EndsMoves ==
  ASSUME IInv, NEW h \in Handlers, stage[h] # "idle", Ends(h),
         UNCHANGED <<plan, evidence, rows, deliveries, overlapped>>,
         \/ interrupted' = TRUE
         \/ interrupted' = interrupted /\ \A l \in Listings : ~Pending(h, l)
  PROVE  Moves(h)
<1>1. TypeOK'
  <2>1. NoPresence \in Presence /\ NoCurrent \in Current
    BY DEF NoPresence, NoCurrent, Presence, Current, Verdict, Verdicts, States, Outcomes
  <2> QED
    BY <2>1 DEF IInv, TypeOK, Ends, Goes, Stages, evidence, rows
<1>2. stage'[h] = "idle" /\ Fit(h)'
  BY DEF IInv, TypeOK, Ends, Goes, Fit, AtListing
<1>3. \A g \in Handlers \ {h} :
        /\ stage'[g] = stage[g] /\ job'[g] = job[g] /\ left'[g] = left[g]
        /\ on'[g] = on[g] /\ heldP'[g] = heldP[g] /\ heldC'[g] = heldC[g]
  BY DEF IInv, TypeOK, Ends, Goes
<1> QED
  BY <1>1, <1>2, <1>3 DEF Moves, Minds, rows

\* To take up the next listing of a page and read its row is a move.
LEMMA SeenMoves ==
  ASSUME IInv, NEW h \in Handlers, Seen(h), UNCHANGED plan
  PROVE  Moves(h)
<1>1. PICK l \in left[h] :
        /\ left' = [left EXCEPT ![h] = left[h] \ {l}]
        /\ on' = [on EXCEPT ![h] = l]
        /\ known' = known \cup {l}
        /\ heldP' = [heldP EXCEPT ![h] = presence[l]]
  BY DEF Seen
<1>2. /\ l \in Listings /\ l \in found[job[h]] /\ left[h] \subseteq found[job[h]]
      /\ job[h] \in Scans /\ (Direct(h) => job[h] = h)
  BY DEF IInv, TypeOK, Fit, Seen, Direct, Jobs
<1>3. stage[h] = "seen" /\ stage'[h] = "merge" /\ left'[h] = left[h] \ {l} /\ on'[h] = l
      /\ heldP'[h] = presence[l] /\ job' = job /\ found' = found
  BY <1>1 DEF IInv, TypeOK, Seen, Goes, evidence
<1>4. TypeOK'
  BY <1>1, <1>2 DEF IInv, TypeOK, Seen, Goes, Stages, evidence, history
<1>5. Fit(h)'
  BY <1>2, <1>3 DEF IInv, Fit, AtListing
<1>6. \A g \in Handlers \ {h} :
        /\ stage'[g] = stage[g] /\ job'[g] = job[g] /\ left'[g] = left[g]
        /\ on'[g] = on[g] /\ heldP'[g] = heldP[g] /\ heldC'[g] = heldC[g]
  BY <1>1 DEF IInv, TypeOK, Seen, Goes
<1>7. Counted(heldP'[h], on'[h])
  BY <1>2, <1>3 DEF IInv, ObservationsCountedOnce, Counted
<1>8. ASSUME NEW k \in Listings
      PROVE  Minds(h, k)
  <2>1. Pending(h, k) => Pending(h, k)'
    BY <1>2, <1>3 DEF Pending, AtListing, Direct
  <2> QED
    BY <1>3, <2>1 DEF Minds, Seen
<1> QED
  BY <1>3, <1>4, <1>5, <1>6, <1>7, <1>8 DEF Moves, Seen, history

\* To be through with the listings of a page is a move.
LEMMA SeenAllMoves ==
  ASSUME IInv, NEW h \in Handlers, SeenAll(h), UNCHANGED plan
  PROVE  Moves(h)
<1>1. stage[h] = "seen" /\ left[h] = {} /\ (Direct(h) => job[h] = h /\ JobFit(h))
  BY DEF SeenAll, IInv, Fit, Direct, Jobs, Handlers
<1>2. CASE Direct(h) /\ outcome[h] = "good"
  <2>1. /\ stage' = [stage EXCEPT ![h] = "row"]
        /\ left' = [left EXCEPT ![h] = known \cup found[h]]
        /\ UNCHANGED <<job, on, heldP, heldC, rows, evidence, deliveries, history>>
    BY <1>2 DEF SeenAll, Goes
  <2>2. stage'[h] = "row" /\ left'[h] = known \cup found[h] /\ h \notin Workers
    BY <1>2, <2>1, CurrentAssumption DEF IInv, TypeOK, Direct
  <2>3. TypeOK'
    BY <1>2, <2>1 DEF IInv, TypeOK, Stages, evidence, rows, history, Direct, Jobs
  <2>4. Fit(h)'
    BY <1>1, <1>2, <2>1, <2>2 DEF IInv, Fit, AtListing, Direct, Scanning, evidence
  <2>5. ASSUME NEW k \in Listings
        PROVE  Minds(h, k)
    BY <1>1, <1>2, <2>1, <2>2 DEF Minds, Pending, rows, AtListing, evidence
  <2>6. \A g \in Handlers \ {h} :
          /\ stage'[g] = stage[g] /\ job'[g] = job[g] /\ left'[g] = left[g]
          /\ on'[g] = on[g] /\ heldP'[g] = heldP[g] /\ heldC'[g] = heldC[g]
    BY <2>1 DEF IInv, TypeOK
  <2> QED
    BY <1>1, <2>1, <2>2, <2>3, <2>4, <2>5, <2>6 DEF Moves, rows, history
<1>3. CASE ~(Direct(h) /\ outcome[h] = "good")
  <2>1. Ends(h) /\ UNCHANGED <<plan, evidence, rows, deliveries, history>>
    BY <1>3 DEF SeenAll
  <2>2. Direct(h) => found[h] = {}
    BY <1>1, <1>3 DEF JobFit, Direct
  <2>3. \A l \in Listings : ~Pending(h, l)
    BY <1>1, <2>2 DEF Pending, AtListing
  <2> QED
    BY <1>1, <2>1, <2>3, EndsMoves DEF history
<1> QED
  BY <1>2, <1>3

\* To write the presence row back, merged with the sighting, is a move.
LEMMA MergeMoves ==
  ASSUME IInv, NEW h \in Handlers, Merge(h), UNCHANGED plan
  PROVE  Moves(h)
<1> DEFINE l == on[h]
           p == Merged(heldP[h], job[h])
<1>1. /\ l \in Listings /\ job[h] \in Scans /\ l \in found[job[h]] /\ left[h] \subseteq found[job[h]]
      /\ Direct(h) => job[h] = h
      /\ heldP[h] \in Presence /\ Counted(heldP[h], l)
  BY DEF Merge, IInv, TypeOK, Fit, HeldCounted, AtListing, Direct, Jobs, Handlers
<1>2. p \in Presence /\ Counted(p, l)
  BY <1>1, MergedType, MergedCounted DEF IInv
<1> HIDE DEF p
<1>3. /\ presence' = [presence EXCEPT ![l] = p]
      /\ stage[h] = "merge"
      /\ heldP' = [heldP EXCEPT ![h] = NoPresence]
      /\ UNCHANGED <<evidence, known, current, job, on, heldC, deliveries, history>>
      /\ \/ /\ Direct(h) /\ stage' = [stage EXCEPT ![h] = "seen"] /\ left' = left
         \/ /\ ~Direct(h) /\ stage' = [stage EXCEPT ![h] = "row"]
            /\ left' = [left EXCEPT ![h] = left[h] \cup {l}]
  BY DEF Merge, Goes, p
<1>4. /\ Direct(h) => stage'[h] = "seen" /\ left'[h] = left[h]
      /\ ~Direct(h) => stage'[h] = "row" /\ left'[h] = left[h] \cup {l}
  BY <1>3 DEF IInv, TypeOK
<1>5. TypeOK'
  <2>1. NoPresence \in Presence
    BY DEF NoPresence, Presence
  <2>2. presence' \in [Listings -> Presence]
    BY <1>1, <1>2, <1>3 DEF IInv, TypeOK
  <2>3. left' \in [Handlers -> SUBSET Listings] /\ stage' \in [Handlers -> Stages]
    BY <1>1, <1>3 DEF IInv, TypeOK, Stages
  <2> QED
    BY <1>3, <2>1, <2>2, <2>3 DEF IInv, TypeOK, evidence, history
<1>6. Fit(h)'
  BY <1>1, <1>3, <1>4 DEF IInv, Fit, AtListing, Scanning, evidence, Direct
<1>7. \A g \in Handlers \ {h} :
        /\ stage'[g] = stage[g] /\ job'[g] = job[g] /\ left'[g] = left[g]
        /\ on'[g] = on[g] /\ heldP'[g] = heldP[g] /\ heldC'[g] = heldC[g]
  BY <1>3 DEF IInv, TypeOK
<1>8. \A k \in Listings : presence'[k] = presence[k] \/ Counted(presence'[k], k)
  BY <1>1, <1>2, <1>3 DEF IInv, TypeOK
<1>9. ASSUME NEW k \in Listings
      PROVE  Minds(h, k)
  <2>1. CASE k = l \/ Pending(h, k)
    <3>1. Pending(h, k)'
      BY <1>1, <1>3, <1>4, <2>1 DEF Pending, AtListing, Direct, evidence
    <3> QED
      BY <1>4, <3>1 DEF Minds
  <2>2. CASE k # l /\ ~Pending(h, k)
    BY <1>1, <1>3, <2>2 DEF Minds, IInv, TypeOK
  <2> QED
    BY <2>1, <2>2
<1> QED
  BY <1>3, <1>4, <1>5, <1>6, <1>7, <1>8, <1>9 DEF Moves, history

\* To take up the next listing and read its state is a move.
LEMMA RowMoves ==
  ASSUME IInv, NEW h \in Handlers, Row(h), UNCHANGED plan
  PROVE  Moves(h)
<1>1. PICK l \in left[h] :
        /\ h \in Workers /\ job[h] \in Scans => l = on[h]
        /\ left' = [left EXCEPT ![h] = left[h] \ {l}]
        /\ on' = [on EXCEPT ![h] = l]
        /\ heldC' = [heldC EXCEPT ![h] = current[l]]
  BY DEF Row
<1>2. /\ stage[h] = "row" /\ stage' = [stage EXCEPT ![h] = "store"] /\ l \in Listings
      /\ UNCHANGED <<evidence, rows, job, heldP, deliveries, history>>
  BY DEF Row, Goes, IInv, TypeOK
<1>3. stage'[h] = "store" /\ left'[h] = left[h] \ {l} /\ on'[h] = l
  BY <1>1, <1>2 DEF IInv, TypeOK
<1>4. TypeOK'
  BY <1>1, <1>2 DEF IInv, TypeOK, Stages, evidence, rows, history
<1>5. Fit(h)'
  BY <1>2, <1>3 DEF IInv, Fit, AtListing, evidence
<1>6. \A g \in Handlers \ {h} :
        /\ stage'[g] = stage[g] /\ job'[g] = job[g] /\ left'[g] = left[g]
        /\ on'[g] = on[g] /\ heldP'[g] = heldP[g] /\ heldC'[g] = heldC[g]
  BY <1>1, <1>2 DEF IInv, TypeOK
<1>7. ASSUME NEW k \in Listings
      PROVE  Minds(h, k)
  <2>1. Pending(h, k) => Pending(h, k)'
    BY <1>2, <1>3 DEF Pending, AtListing
  <2> QED
    BY <1>2, <1>3, <2>1 DEF Minds, rows
<1> QED
  BY <1>2, <1>3, <1>4, <1>5, <1>6, <1>7 DEF Moves, rows, history

\* To be through with the states is a move.
LEMMA RowAllMoves ==
  ASSUME IInv, NEW h \in Handlers, RowAll(h), UNCHANGED plan
  PROVE  Moves(h)
<1>1. \A l \in Listings : ~Pending(h, l)
  BY DEF RowAll, Pending, AtListing
<1> QED
  BY <1>1, EndsMoves DEF RowAll, history

\* Where a handler stands once it is through with a listing.
LEMMA OnwardFit ==
  ASSUME IInv, NEW h \in Handlers, stage[h] \in {"reload", "derive"}, Onward(h),
         UNCHANGED <<evidence, job, left, on>>
  PROVE  /\ stage' \in [Handlers -> Stages]
         /\ stage'[h] \in {"seen", "row"} /\ Fit(h)'
         /\ \A g \in Handlers \ {h} : stage'[g] = stage[g]
<1>1. /\ stage' = [stage EXCEPT ![h] = IF Scanning(h) THEN "seen" ELSE "row"]
      /\ stage \in [Handlers -> Stages]
  BY DEF Onward, Goes, Scanning, IInv, TypeOK
<1>2. stage'[h] = IF Scanning(h) THEN "seen" ELSE "row"
  BY <1>1
<1>3. Fit(h)'
  BY <1>2 DEF IInv, Fit, AtListing, Scanning, evidence
<1> QED
  BY <1>1, <1>2, <1>3 DEF Stages

\* To write the state back, updated, is a move.
LEMMA StoreMoves ==
  ASSUME IInv, NEW h \in Handlers, Store(h), UNCHANGED plan
  PROVE  Moves(h)
<1> DEFINE l == on[h]
           c == Updated(heldC[h], h, l)
<1>1. l \in Listings /\ job[h] \in Jobs /\ heldC[h] \in Current
  BY DEF Store, IInv, TypeOK, Fit, AtListing
<1>2. c \in Current
  BY <1>1, UpdatedType
<1> HIDE DEF c
<1>3. /\ stage[h] = "store" /\ stage' = [stage EXCEPT ![h] = "reload"]
      /\ current' = [current EXCEPT ![l] = c]
      /\ known' = IF job[h] \in Checks THEN known \cup {l} ELSE known
      /\ heldC' = [heldC EXCEPT ![h] = NoCurrent]
      /\ UNCHANGED <<evidence, presence, job, left, on, heldP, deliveries, history>>
  BY DEF Store, Goes, c
<1>4. stage'[h] = "reload" /\ \A k \in Listings \ {l} : current'[k] = current[k]
  BY <1>1, <1>3 DEF IInv, TypeOK
<1>5. TypeOK'
  <2>1. NoCurrent \in Current
    BY DEF NoCurrent, Current, Verdict, Verdicts, States, Outcomes
  <2> QED
    BY <1>1, <1>2, <1>3, <2>1 DEF IInv, TypeOK, Stages, evidence, history
<1>6. Fit(h)'
  BY <1>3, <1>4 DEF IInv, Fit, AtListing, evidence
<1>7. \A g \in Handlers \ {h} :
        /\ stage'[g] = stage[g] /\ job'[g] = job[g] /\ left'[g] = left[g]
        /\ on'[g] = on[g] /\ heldP'[g] = heldP[g] /\ heldC'[g] = heldC[g]
  BY <1>3 DEF IInv, TypeOK
<1>8. ASSUME NEW k \in Listings
      PROVE  Minds(h, k)
  <2>1. Pending(h, k) => Pending(h, k)'
    BY <1>3, <1>4 DEF Pending, AtListing
  <2>2. Pending(h, l)'
    BY <1>3, <1>4 DEF Pending, AtListing
  <2> QED
    BY <1>3, <1>4, <2>1, <2>2 DEF Minds
<1> QED
  BY <1>3, <1>4, <1>5, <1>6, <1>7, <1>8 DEF Moves, history

\* To read both rows again is a move, also where there is no presence row.
LEMMA ReloadMoves ==
  ASSUME IInv, NEW h \in Handlers, Reload(h), UNCHANGED plan
  PROVE  Moves(h)
<1>1. /\ stage[h] = "reload" /\ on[h] \in Listings
      /\ UNCHANGED <<evidence, rows, job, left, on, deliveries, history>>
  BY DEF Reload, IInv, Fit, AtListing
<1>2. CASE presence[on[h]].observations = 0
  <2>1. Onward(h) /\ UNCHANGED <<heldP, heldC>>
    BY <1>2 DEF Reload
  <2>2. /\ stage' \in [Handlers -> Stages] /\ stage'[h] \in {"seen", "row"} /\ Fit(h)'
        /\ \A g \in Handlers \ {h} : stage'[g] = stage[g]
    BY <1>1, <2>1, OnwardFit
  <2>3. TypeOK'
    BY <1>1, <2>1, <2>2 DEF IInv, TypeOK, evidence, rows, history
  <2>4. ASSUME NEW k \in Listings
        PROVE  Minds(h, k)
    <3>1. CASE k = on[h]
      BY <1>1, <1>2, <3>1 DEF Minds, rows
    <3>2. CASE k # on[h]
      <4>1. Pending(h, k) => Pending(h, k)'
        BY <1>1, <2>2, <3>2 DEF Pending, AtListing
      <4> QED
        BY <1>1, <2>2, <4>1 DEF Minds, rows
    <3> QED
      BY <3>1, <3>2
  <2> QED
    BY <1>1, <2>1, <2>2, <2>3, <2>4 DEF Moves, rows, history
<1>3. CASE presence[on[h]].observations # 0
  <2>1. /\ heldP' = [heldP EXCEPT ![h] = presence[on[h]]]
        /\ heldC' = [heldC EXCEPT ![h] = current[on[h]]]
        /\ stage' = [stage EXCEPT ![h] = "note"]
    BY <1>3 DEF Reload, Goes
  <2>2. stage'[h] = "note" /\ heldP'[h] = presence[on[h]]
    BY <2>1 DEF IInv, TypeOK
  <2>3. TypeOK'
    BY <1>1, <2>1 DEF IInv, TypeOK, Stages, evidence, rows, history
  <2>4. Fit(h)'
    BY <1>1, <2>2 DEF IInv, Fit, AtListing, evidence
  <2>5. Counted(heldP'[h], on'[h])
    BY <1>1, <2>2 DEF IInv, ObservationsCountedOnce, Counted
  <2>6. ASSUME NEW k \in Listings
        PROVE  Minds(h, k)
    <3>1. Pending(h, k) => Pending(h, k)'
      BY <1>1, <2>2 DEF Pending, AtListing
    <3> QED
      BY <1>1, <2>2, <3>1 DEF Minds, rows
  <2>7. \A g \in Handlers \ {h} :
          /\ stage'[g] = stage[g] /\ job'[g] = job[g] /\ left'[g] = left[g]
          /\ on'[g] = on[g] /\ heldP'[g] = heldP[g] /\ heldC'[g] = heldC[g]
    BY <1>1, <2>1 DEF IInv, TypeOK
  <2> QED
    BY <1>1, <2>2, <2>3, <2>4, <2>5, <2>6, <2>7 DEF Moves, rows, history
<1> QED
  BY <1>2, <1>3

\* To write the presence row with the event's name is a move.
LEMMA NoteMoves ==
  ASSUME IInv, NEW h \in Handlers, Note(h), UNCHANGED plan
  PROVE  Moves(h)
<1> DEFINE l == on[h]
           e == Tag(h)
           p == [heldP[h] EXCEPT !.lastEvent = e]
<1>1. l \in Listings /\ heldP[h] \in Presence /\ Counted(heldP[h], l)
  BY DEF Note, IInv, TypeOK, Fit, HeldCounted, AtListing
<1>2. e \in Events
  <2>1. job[h] \in Jobs /\ (Direct(h) => h \in Jobs)
    BY DEF Note, IInv, Fit, Direct, Jobs
  <2> QED
    BY <2>1 DEF Tag, Events
<1> HIDE DEF e
<1>3. p \in Presence /\ p.observations = heldP[h].observations /\ p.lastSeen = heldP[h].lastSeen
  BY <1>1, <1>2 DEF Presence
<1>4. Counted(p, l)
  BY <1>1, <1>3 DEF Counted
<1>5. presence' = [presence EXCEPT ![l] = p]
  BY DEF Note, e
<1> HIDE DEF p
<1>6. /\ stage[h] = "note" /\ stage' = [stage EXCEPT ![h] = "derive"]
      /\ heldP' = [heldP EXCEPT ![h] = NoPresence]
      /\ UNCHANGED <<evidence, known, current, job, left, on, heldC, deliveries, history>>
  BY DEF Note, Goes
<1>7. stage'[h] = "derive" /\ \A k \in Listings \ {l} : presence'[k] = presence[k]
  BY <1>1, <1>5, <1>6 DEF IInv, TypeOK
<1>8. TypeOK'
  <2>1. NoPresence \in Presence
    BY DEF NoPresence, Presence
  <2> QED
    BY <1>1, <1>3, <1>5, <1>6, <2>1 DEF IInv, TypeOK, Stages, evidence, history
<1>9. Fit(h)'
  BY <1>6, <1>7 DEF IInv, Fit, AtListing, evidence
<1>10. \A g \in Handlers \ {h} :
        /\ stage'[g] = stage[g] /\ job'[g] = job[g] /\ left'[g] = left[g]
        /\ on'[g] = on[g] /\ heldP'[g] = heldP[g] /\ heldC'[g] = heldC[g]
  BY <1>6 DEF IInv, TypeOK
<1>11. ASSUME NEW k \in Listings
       PROVE  Minds(h, k)
  <2>1. Pending(h, k) => Pending(h, k)'
    BY <1>6, <1>7 DEF Pending, AtListing
  <2>2. Pending(h, l)'
    BY <1>6, <1>7 DEF Pending, AtListing
  <2> QED
    BY <1>6, <1>7, <2>1, <2>2 DEF Minds
<1>12. \A k \in Listings : presence'[k] = presence[k] \/ Counted(presence'[k], k)
  BY <1>1, <1>4, <1>5 DEF IInv, TypeOK
<1> QED
  BY <1>6, <1>7, <1>8, <1>9, <1>10, <1>11, <1>12 DEF Moves, history

\* To write the verdict of the state in hand is a move.
LEMMA DeriveMoves ==
  ASSUME IInv, NEW h \in Handlers, Derive(h), UNCHANGED plan
  PROVE  Moves(h)
<1> DEFINE l == on[h]
           d == heldC[h]
<1>1. PICK age \in Ages :
        current' = [current EXCEPT ![l] = [d EXCEPT !.verdict = Judged(d, age)]]
  BY DEF Derive
<1> DEFINE v == Judged(d, age)
           c == [d EXCEPT !.verdict = v]
<1>2. l \in Listings /\ d \in Current /\ v \in Verdicts /\ stage[h] = "derive"
  BY JudgedType DEF Derive, IInv, TypeOK, Fit, AtListing
<1>3. current' = [current EXCEPT ![l] = c]
  BY <1>1
<1>4. Judged(c, age) = v
  BY <1>2 DEF Judged, Current
<1> HIDE DEF v
<1>5. c \in Current /\ c.verdict = v
  BY <1>2 DEF Current
<1> HIDE DEF c, d
<1>6. /\ heldC' = [heldC EXCEPT ![h] = NoCurrent] /\ Onward(h)
      /\ UNCHANGED <<evidence, known, presence, job, left, on, heldP, deliveries, history>>
  BY DEF Derive
<1>7. /\ stage' \in [Handlers -> Stages] /\ stage'[h] \in {"seen", "row"} /\ Fit(h)'
      /\ \A g \in Handlers \ {h} : stage'[g] = stage[g]
  BY <1>2, <1>6, OnwardFit
<1>8. TypeOK'
  <2>1. NoCurrent \in Current
    BY DEF NoCurrent, Current, Verdict, Verdicts, States, Outcomes
  <2> QED
    BY <1>2, <1>3, <1>5, <1>6, <1>7, <2>1 DEF IInv, TypeOK, evidence, history
<1>9. ASSUME NEW k \in Listings
      PROVE  Minds(h, k)
  <2>1. CASE k = l
    <3>1. current'[k] = c
      BY <1>2, <1>3, <2>1 DEF IInv, TypeOK
    <3>2. current'[k].verdict = Judged(current'[k], age)
      BY <1>4, <1>5, <3>1
    <3> QED
      BY <3>2 DEF Minds, CoherentAt, Judged
  <2>2. CASE k # l
    <3>1. Pending(h, k) => Pending(h, k)'
      BY <1>2, <1>6, <1>7, <2>2 DEF Pending, AtListing
    <3>2. current'[k] = current[k]
      BY <1>2, <1>3, <2>2 DEF IInv, TypeOK
    <3> QED
      BY <1>6, <1>7, <3>1, <3>2 DEF Minds
  <2> QED
    BY <2>1, <2>2
<1>10. \A g \in Handlers \ {h} : heldC'[g] = heldC[g]
  BY <1>6 DEF IInv, TypeOK
<1> QED
  BY <1>2, <1>6, <1>7, <1>8, <1>9, <1>10 DEF Moves, history

\* To be cut short is a move.
LEMMA FailMoves ==
  ASSUME IInv, NEW h \in Handlers, Fail(h), UNCHANGED plan
  PROVE  Moves(h)
BY EndsMoves DEF Fail

\* To take up a delivery is a move of the projector that takes it.
LEMMA DeliverMoves ==
  ASSUME IInv, NEW w \in Workers, NEW j \in Jobs, Deliver(w, j), UNCHANGED plan
  PROVE  Moves(w)
<1> DEFINE s == IF j \in Scans THEN "seen" ELSE "row"
<1>1. /\ w \in Handlers /\ w \notin Jobs /\ stage[w] = "idle"
      /\ found' = found /\ deliveries > 0 /\ deliveries' = deliveries - 1
      /\ stage' = [stage EXCEPT ![w] = s] /\ job' = [job EXCEPT ![w] = j]
      /\ left' = [left EXCEPT ![w] = found[j]]
      /\ overlapped' = (overlapped \/ Busy # {})
      /\ UNCHANGED <<evidence, rows, on, heldP, heldC, interrupted>>
  BY CurrentAssumption DEF Deliver, Begins, Goes, Handlers, Jobs, evidence
<1>2. stage'[w] = s /\ job'[w] = j /\ left'[w] = found[j]
  BY <1>1 DEF IInv, TypeOK
<1>3. TypeOK'
  <2>1. deliveries' \in 0..plan.deliveries
    BY <1>1, CurrentAssumption DEF IInv, TypeOK
  <2>2. job' \in [Handlers -> Jobs \cup {None}] /\ left' \in [Handlers -> SUBSET Listings]
        /\ stage' \in [Handlers -> Stages]
    BY <1>1 DEF IInv, TypeOK, Stages
  <2>3. overlapped' \in BOOLEAN
    BY <1>1
  <2> QED
    BY <1>1, <2>1, <2>2, <2>3 DEF IInv, TypeOK, evidence, rows
<1>4. Fit(w)'
  BY <1>1, <1>2 DEF Fit, AtListing, Scanning, Jobs
<1>5. \A g \in Handlers \ {w} :
        /\ stage'[g] = stage[g] /\ job'[g] = job[g] /\ left'[g] = left[g]
        /\ on'[g] = on[g] /\ heldP'[g] = heldP[g] /\ heldC'[g] = heldC[g]
  BY <1>1 DEF IInv, TypeOK
<1> QED
  BY <1>1, <1>2, <1>3, <1>4, <1>5 DEF Moves, Minds, rows

\* A job fetches and is projected at once: nobody counted it before, and the clock still says
\* how many have fetched.
LEMMA FetchKeeps ==
  ASSUME IInv, NEW j \in Jobs, NEW seen \in SUBSET Listings, NEW result, NEW s,
         Fetched(j, seen, result), Begins(j, j, s),
         \/ j \in Scans /\ s = "seen" /\ result \in {"good", "failed"}
            /\ (seen # {} => result = "good")
         \/ j \in Checks /\ s = "row" /\ result \in Outcomes,
         UNCHANGED <<plan, rows, deliveries, interrupted>>
  PROVE  IInv'
<1>1. /\ at[j] = 0 /\ clock' = clock + 1 /\ clock \in Nat
      /\ at' = [at EXCEPT ![j] = clock + 1]
      /\ found' = [found EXCEPT ![j] = seen]
      /\ outcome' = [outcome EXCEPT ![j] = result]
      /\ stage' = [stage EXCEPT ![j] = s] /\ job' = [job EXCEPT ![j] = j]
      /\ overlapped' = (overlapped \/ Busy # {})
      /\ UNCHANGED <<on, heldP, heldC>>
  BY DEF Fetched, Begins, Goes, IInv, TypeOK
<1>2. /\ j \in Handlers /\ j \notin Workers /\ found[j] = {} /\ stage[j] = "idle"
      /\ (j \in Scans => j \notin Checks)
  BY <1>1, CurrentAssumption DEF IInv, JobFit, Handlers, Jobs
<1>3. /\ found'[j] = seen /\ at'[j] = clock + 1 /\ outcome'[j] = result
      /\ stage'[j] = s /\ job'[j] = j
      /\ left' = [left EXCEPT ![j] = seen] /\ left'[j] = seen
  BY <1>1, <1>2 DEF IInv, TypeOK, Begins
<1>4. \A k \in Jobs \ {j} : at'[k] = at[k] /\ found'[k] = found[k] /\ outcome'[k] = outcome[k]
  BY <1>1 DEF IInv, TypeOK
<1>5. \A g \in Handlers \ {j} : stage'[g] = stage[g] /\ job'[g] = job[g] /\ left'[g] = left[g]
  BY <1>1, <1>3 DEF IInv, TypeOK
<1>6. /\ clock' = Cardinality(Fetches)' /\ clock' \in 0..Cardinality(Jobs)
  <2>1. IsFiniteSet(Jobs) /\ Fetches \in SUBSET Jobs /\ Fetches' \in SUBSET Jobs
    BY FS_Union, CurrentAssumption DEF Jobs, Fetches
  <2>2. Fetches' = Fetches \cup {j} /\ j \notin Fetches
    BY <1>1, <1>3, <1>4 DEF Fetches
  <2>3. IsFiniteSet(Fetches)
    BY <2>1, FS_Subset
  <2>4. Cardinality(Fetches \cup {j}) = Cardinality(Fetches) + 1
    BY <2>2, <2>3, FS_AddElement
  <2>5. Cardinality(Fetches') <= Cardinality(Jobs) /\ Cardinality(Jobs) \in Nat
    BY <2>1, FS_Subset, FS_CardinalityType
  <2> QED
    BY <1>1, <2>2, <2>4, <2>5 DEF IInv
<1>7. TypeOK'
  <2>1. /\ found' \in [Jobs -> SUBSET Listings]
        /\ outcome' \in [Jobs -> Outcomes \cup {"good", "failed"}]
        /\ at' \in [Jobs -> 0..clock']
    BY <1>1 DEF IInv, TypeOK
  <2>2. /\ job' \in [Handlers -> Jobs \cup {None}] /\ left' \in [Handlers -> SUBSET Listings]
        /\ stage' \in [Handlers -> Stages] /\ overlapped' \in BOOLEAN
    BY <1>1, <1>3 DEF IInv, TypeOK, Stages
  <2> QED
    BY <1>1, <1>6, <2>1, <2>2 DEF IInv, TypeOK, rows
<1>8. ASSUME NEW k \in Jobs
      PROVE  JobFit(k)'
  <2>1. CASE k = j
    BY <1>1, <1>2, <1>3, <2>1 DEF JobFit
  <2>2. CASE k # j
    <3>1. JobFit(k) /\ k \in Handlers
      BY DEF IInv, Handlers
    <3> QED
      BY <1>4, <1>5, <2>2, <3>1 DEF JobFit
  <2> QED
    BY <2>1, <2>2
<1>9. ASSUME NEW g \in Handlers
      PROVE  Fit(g)'
  <2>1. CASE g = j
    BY <1>2, <1>3, <2>1 DEF Fit, AtListing, Scanning
  <2>2. CASE g # j
    <3>1. Fit(g) /\ (stage[g] # "idle" => found[job[g]] \subseteq found'[job[g]])
      BY <1>2, <1>4 DEF IInv, Fit
    <3>2. stage'[g] = stage[g] /\ job'[g] = job[g] /\ left'[g] = left[g] /\ on'[g] = on[g]
      BY <1>1, <1>5, <2>2
    <3> QED
      BY <3>1, <3>2 DEF Fit, AtListing, Scanning
  <2> QED
    BY <2>1, <2>2
<1>10. ASSUME NEW l, NEW t
       PROVE  /\ Cardinality(SawBy(l, t)) \in Nat /\ Cardinality(SawBy(l, t)') \in Nat
              /\ Cardinality(SawBy(l, t)) <= Cardinality(SawBy(l, t)')
  <2>1. SawBy(l, t) \in SUBSET SawBy(l, t)' /\ SawBy(l, t)' \in SUBSET Scans
    BY <1>2, <1>4 DEF SawBy, Jobs
  <2> QED
    BY <2>1, FS_Subset, FS_CardinalityType, CurrentAssumption
<1>11. ASSUME NEW p \in Presence, NEW l, Counted(p, l)
       PROVE  p.observations <= Cardinality(SawBy(l, p.lastSeen)')
  BY <1>10, <1>11 DEF Counted, Presence
<1>12. ObservationsCountedOnce'
  <2>1. \A l \in Listings : presence[l] \in Presence /\ Counted(presence[l], l)
    BY DEF IInv, TypeOK, ObservationsCountedOnce, Counted
  <2> QED
    BY <1>11, <2>1 DEF ObservationsCountedOnce, rows
<1>13. ASSUME NEW g \in Handlers
       PROVE  HeldCounted(g)'
  <2>1. CASE g = j
    BY <1>3, <2>1 DEF HeldCounted
  <2>2. CASE g # j
    <3>1. heldP[g] \in Presence /\ HeldCounted(g)
      BY DEF IInv, TypeOK
    <3> QED
      BY <1>1, <1>5, <1>11, <2>2, <3>1 DEF HeldCounted, Counted
  <2> QED
    BY <2>1, <2>2
<1>14. Covered'
  <2> SUFFICES ASSUME ~interrupted', NEW l \in Listings, presence'[l].observations > 0
               PROVE  CoherentAt(l)' \/ \E g \in Busy' : Pending(g, l)'
    BY DEF Covered
  <2>1. CoherentAt(l) \/ \E g \in Busy : Pending(g, l)
    BY DEF IInv, Covered, rows
  <2>2. CASE CoherentAt(l)
    BY <2>2 DEF CoherentAt, rows
  <2>3. CASE \E g \in Busy : Pending(g, l)
    <3>1. PICK g \in Busy : Pending(g, l)
      BY <2>3
    <3>2. g \in Handlers \ {j} /\ stage'[g] # "idle"
      BY <1>2, <1>5, <3>1 DEF Busy
    <3>3. Pending(g, l)'
      BY <1>1, <1>4, <1>5, <3>1, <3>2 DEF Pending, Direct, Jobs
    <3> QED
      BY <3>2, <3>3 DEF Busy
  <2> QED
    BY <2>1, <2>2, <2>3
<1> QED
  BY <1>6, <1>7, <1>8, <1>9, <1>12, <1>13, <1>14 DEF IInv

\* The first states satisfy the invariant.
LEMMA InitFit == Init => IInv
<1> SUFFICES ASSUME Init
             PROVE  IInv
  OBVIOUS
<1>1. IsFiniteSet(Jobs) /\ Cardinality(Jobs) \in Nat
  BY FS_Union, FS_CardinalityType, CurrentAssumption DEF Jobs
<1>2. Fetches = {} /\ Cardinality(Fetches) = 0
  <2>1. Fetches = {}
    BY DEF Init, Fetches
  <2> QED
    BY <2>1, FS_EmptySet
<1>3. NoPresence \in Presence /\ NoCurrent \in Current /\ NoPresence.observations = 0
  BY DEF NoPresence, NoCurrent, Presence, Current, Verdict, Verdicts, States, Outcomes
<1>4. TypeOK
  <2>1. clock \in 0..Cardinality(Jobs) /\ at \in [Jobs -> 0..clock]
    BY <1>1 DEF Init
  <2>2. /\ found \in [Jobs -> SUBSET Listings]
        /\ outcome \in [Jobs -> Outcomes \cup {"good", "failed"}]
        /\ presence \in [Listings -> Presence] /\ current \in [Listings -> Current]
    BY <1>3 DEF Init, Outcomes
  <2>3. plan \in Plans /\ deliveries \in 0..plan.deliveries
    BY CurrentAssumption DEF Init
  <2>4. /\ job \in [Handlers -> Jobs \cup {None}] /\ on \in [Handlers -> Listings \cup {None}]
        /\ stage \in [Handlers -> Stages] /\ left \in [Handlers -> SUBSET Listings]
        /\ heldP \in [Handlers -> Presence] /\ heldC \in [Handlers -> Current]
    BY <1>3 DEF Init, Stages
  <2> QED
    BY <2>1, <2>2, <2>3, <2>4 DEF Init, TypeOK
<1>5. \A j \in Jobs : JobFit(j)
  BY DEF Init, JobFit, Handlers, Outcomes
<1>6. \A h \in Handlers : Fit(h) /\ HeldCounted(h)
  BY DEF Init, Fit, HeldCounted, AtListing
<1>7. ObservationsCountedOnce
  <2> SUFFICES ASSUME NEW l \in Listings
               PROVE  0 <= Cardinality(SawBy(l, presence[l].lastSeen))
    BY <1>3 DEF Init, ObservationsCountedOnce
  <2>1. SawBy(l, presence[l].lastSeen) \in SUBSET Scans
    BY DEF SawBy
  <2> QED
    BY <2>1, FS_Subset, FS_CardinalityType, CurrentAssumption
<1>8. Covered
  BY <1>3 DEF Init, Covered
<1> QED
  BY <1>2, <1>4, <1>5, <1>6, <1>7, <1>8 DEF IInv, Init

\* Every step is a move of one handler, or a job's fetch.
LEMMA StepFit == IInv /\ [Next]_vars => IInv'
<1> SUFFICES ASSUME IInv, [Next]_vars
             PROVE  IInv'
  OBVIOUS
<1>1. ASSUME NEW r \in Scans, Scan(r), UNCHANGED plan
      PROVE  IInv'
  <2>1. PICK seen \in SUBSET Listings, result \in {"good", "failed"} :
          Fetched(r, seen, result) /\ (seen # {} => result = "good")
    BY <1>1 DEF Scan
  <2> QED
    BY <1>1, <2>1, FetchKeeps DEF Scan, Jobs
<1>2. ASSUME NEW c \in Checks, Check(c), UNCHANGED plan
      PROVE  IInv'
  <2>1. PICK r \in Scans : \E l \in found[r], result \in Answers : Fetched(c, {l}, result)
    BY <1>2 DEF Check
  <2>2. PICK l \in found[r], result \in Answers : Fetched(c, {l}, result)
    BY <2>1
  <2>3. {l} \in SUBSET Listings /\ result \in Outcomes /\ c \in Jobs
    BY <2>2, CurrentAssumption DEF IInv, TypeOK, Jobs
  <2> QED
    BY <1>2, <2>2, <2>3, FetchKeeps DEF Check
<1>3. ASSUME NEW w \in Workers, NEW j \in Jobs, Deliver(w, j), UNCHANGED plan
      PROVE  IInv'
  BY <1>3, DeliverMoves, MovesKeep DEF Handlers
<1>4. ASSUME NEW h \in Handlers, Project(h) \/ Fail(h), UNCHANGED plan
      PROVE  IInv'
  BY <1>4, MovesKeep, SeenMoves, SeenAllMoves, MergeMoves, RowMoves, RowAllMoves, StoreMoves,
     ReloadMoves, NoteMoves, DeriveMoves, FailMoves DEF Project
<1>5. CASE UNCHANGED vars
  <2>1. \A l, t : SawBy(l, t)' = SawBy(l, t)
    BY <1>5, SawStays DEF vars
  <2>2. TypeOK' /\ (\A j \in Jobs : JobFit(j)') /\ \A h \in Handlers : Fit(h)'
    BY <1>5 DEF IInv, vars, evidence, rows, handler, history, TypeOK, JobFit, Fit, Scanning
  <2>3. ObservationsCountedOnce' /\ \A h \in Handlers : HeldCounted(h)'
    BY <1>5, <2>1 DEF IInv, vars, rows, handler, ObservationsCountedOnce, HeldCounted, Counted
  <2>4. Covered' /\ (clock = Cardinality(Fetches))'
    BY <1>5 DEF IInv, vars, evidence, rows, handler, history, Covered, CoherentAt, Busy, Pending,
       Direct, Fetches
  <2> QED
    BY <2>2, <2>3, <2>4 DEF IInv
<1> QED
  BY <1>1, <1>2, <1>3, <1>4, <1>5 DEF Next

\* The strengthened invariant holds throughout.
THEOREM Invariance == Spec => []IInv
BY InitFit, StepFit, PTL DEF Spec

\* The types hold: no row, stored or held, has a value its columns cannot have, and no fetch
\* is ahead of the clock.
THEOREM TypeCorrect == Spec => []TypeOK
<1>1. IInv => TypeOK
  BY DEF IInv
<1> QED
  BY <1>1, Invariance, PTL

\* However projections of a run repeat, come late or run into one another, and whatever updates
\* they lose, presence counts the run as an observation at most once.
THEOREM RunsCountedOnce == Spec => []ObservationsCountedOnce
<1>1. IInv => ObservationsCountedOnce
  BY DEF IInv
<1> QED
  BY <1>1, Invariance, PTL

\* Whatever the reads and writes of other handlers fall between a handler's own, the state a
\* row names is in the end the one its evidence implies.
THEOREM VerdictsFollowEvidence == Spec => []Coherent
<1>1. IInv => Coherent
  BY DEF IInv, Covered, CoherentAt, Coherent
<1> QED
  BY <1>1, Invariance, PTL

-----------------------------------------------------------------------------
\* The row of a listing names a sighting by a run, or a later one.
Shown(l, r) == presence[l].observations > 0 /\ at[r] > 0 /\ at[r] <= presence[l].lastSeen

\* A handler of a scan has yet to store what the scan says of a listing.
Ahead(h, l) ==
  IF Direct(h) THEN \/ stage[h] \in {"seen", "merge"} \/ l \in left[h]
                    \/ stage[h] = "store" /\ on[h] = l
  ELSE Scanning(h) /\ stage[h] \in {"row", "store"} /\ on[h] = l

\* The scans that missed a listing since it was seen, and have stored it.
Missing(l) == MissedSince(l, presence[l].lastSeen) \ {h \in Busy : Direct(h) /\ Ahead(h, l)}

Agreed(l) ==
  /\ current[l].misses <= Cardinality(Missing(l))
  /\ deliveries = plan.deliveries => current[l].misses = Cardinality(Missing(l))

\* The misses of a listing are those scans, unless a sighting that will reset them is on its way.
MissFit(l) ==
  presence[l].observations > 0 =>
    (\E h \in Busy : Ahead(h, l) /\ l \in found[job[h]]) \/ Agreed(l)

\* A presence row names the time of a scan that saw the listing, and no event that came later.
RowFit(l) ==
  /\ presence[l].observations > 0 =>
       /\ l \in known
       /\ \E q \in Scans : l \in found[q] /\ presence[l].lastSeen = at[q]
  /\ \A r \in Scans : presence[l].lastEvent = <<"seen", r>> => Shown(l, r)

\* A scan that is being projected is the last fetch, and has merged what it is past.
DirectFit(h) ==
  Direct(h) =>
    /\ at[h] = clock
    /\ stage[h] \notin {"seen", "merge"} => outcome[h] = "good"
    /\ stage[h] = "store" => on[h] \notin left[h]
    /\ \A l \in found[h] : \/ stage[h] \in {"seen", "merge"} /\ l \in left[h]
                           \/ stage[h] = "merge" /\ l = on[h]
                           \/ Shown(l, h)

\* So has a projector, of the listing it is at.
WorkerFit(h) ==
  /\ h \in Workers => deliveries < plan.deliveries
  /\ (Scanning(h) /\ stage[h] \in {"row", "store", "reload", "note"}) => Shown(on[h], job[h])
  /\ (Scanning(h) /\ stage[h] = "store") => on[h] \in found[job[h]]

\* The rows a handler holds are the stored ones.
HeldFit(h) ==
  /\ stage[h] \in {"merge", "note"} => heldP[h] = presence[on[h]]
  /\ stage[h] \in {"store", "note", "derive"} => heldC[h] = current[on[h]]
  /\ stage[h] = "merge" => on[h] \in known

Alone == \A g, h \in Busy : g = h
Distinct == \A i, j \in Jobs : at[i] = at[j] /\ at[i] > 0 => i = j

\* What holds while no handler was cut short and no two were at work.
Orderly ==
  /\ Alone /\ Distinct
  /\ \A h \in Busy : DirectFit(h) /\ WorkerFit(h) /\ HeldFit(h)
  /\ \A l \in Listings : RowFit(l) /\ MissFit(l)

Tidy == ~interrupted /\ ~overlapped => Orderly

-----------------------------------------------------------------------------
\* Who is at work, is alone at work.
LEMMA OneBusy ==
  ASSUME Alone, NEW h \in Busy, Moves(h)
  PROVE  Busy = {h} /\ Busy' = IF stage'[h] = "idle" THEN {} ELSE {h}
BY DEF Alone, Busy, Moves

\* A step that leaves a listing's misses and its last sighting alone leaves them in agreement.
LEMMA MissStill ==
  ASSUME Alone, NEW h \in Busy, Moves(h), stage'[h] # "idle", job'[h] = job[h],
         deliveries' = deliveries, NEW l \in Listings,
         presence'[l].observations = presence[l].observations,
         presence'[l].lastSeen = presence[l].lastSeen,
         current'[l].misses = current[l].misses,
         Ahead(h, l)' <=> Ahead(h, l), MissFit(l)
  PROVE  MissFit(l)'
<1>1. Busy = {h} /\ Busy' = {h}
  BY OneBusy
<1>2. Missing(l)' = Missing(l) /\ plan' = plan /\ found' = found
  BY <1>1 DEF Missing, MissedSince, Moves, evidence
<1>3. Agreed(l) => Agreed(l)'
  BY <1>2 DEF Agreed
<1> QED
  BY <1>1, <1>2, <1>3 DEF MissFit

\* A step that leaves a listing's presence alone leaves what its row names.
LEMMA RowStill ==
  ASSUME UNCHANGED evidence, known \subseteq known', NEW l \in Listings,
         presence'[l] = presence[l], RowFit(l)
  PROVE  RowFit(l)'
BY DEF RowFit, Shown, evidence

\* What a step of the one handler at work has to keep.
Quiet(h) ==
  /\ stage'[h] # "idle" => DirectFit(h)' /\ WorkerFit(h)' /\ HeldFit(h)'
  /\ \A l \in Listings : RowFit(l)' /\ MissFit(l)'

\* A quiet step keeps it all, since nobody else is at work.
LEMMA QuietKeeps ==
  ASSUME Orderly, NEW h \in Busy, Moves(h), Quiet(h)
  PROVE  Orderly'
<1>1. Busy' \subseteq {h} /\ (h \in Busy' => stage'[h] # "idle")
  BY OneBusy DEF Orderly, Busy
<1>2. Alone' /\ Distinct'
  BY <1>1 DEF Alone, Distinct, Orderly, Moves, evidence
<1> QED
  BY <1>1, <1>2 DEF Orderly, Quiet

\* To take up the next listing of a page is quiet.
LEMMA SeenQuiet ==
  ASSUME IInv, Orderly, NEW h \in Busy, Seen(h), UNCHANGED plan
  PROVE  Quiet(h)
<1>1. PICK l \in left[h] :
        /\ left' = [left EXCEPT ![h] = left[h] \ {l}]
        /\ on' = [on EXCEPT ![h] = l]
        /\ known' = known \cup {l}
        /\ heldP' = [heldP EXCEPT ![h] = presence[l]]
  BY DEF Seen
<1>2. /\ h \in Handlers /\ stage[h] = "seen" /\ stage'[h] = "merge" /\ left'[h] = left[h] \ {l}
      /\ on'[h] = l /\ heldP'[h] = presence[l]
      /\ UNCHANGED <<plan, evidence, presence, current, job, heldC, deliveries, history>>
  BY <1>1 DEF IInv, TypeOK, Seen, Goes, Busy
<1>3. Moves(h)
  BY <1>2, SeenMoves
<1>4. DirectFit(h) /\ WorkerFit(h) /\ Alone
  BY DEF Orderly
<1>5. DirectFit(h)'
  BY <1>2, <1>4 DEF DirectFit, Shown, evidence
<1>6. WorkerFit(h)' /\ HeldFit(h)'
  BY <1>1, <1>2, <1>4 DEF WorkerFit, HeldFit
<1>7. ASSUME NEW k \in Listings
      PROVE  RowFit(k)' /\ MissFit(k)'
  <2>1. RowFit(k) /\ MissFit(k)
    BY DEF Orderly
  <2>2. Ahead(h, k)' <=> Ahead(h, k)
    BY <1>2 DEF Ahead
  <2>3. RowFit(k)'
    BY <1>1, <1>2, <2>1, RowStill
  <2>4. MissFit(k)'
    BY <1>2, <1>3, <1>4, <2>1, <2>2, MissStill
  <2> QED
    BY <2>3, <2>4
<1> QED
  BY <1>5, <1>6, <1>7 DEF Quiet

\* A handler that ends had nothing ahead that counts.
LEMMA EndsQuiet ==
  ASSUME IInv, Orderly, NEW h \in Busy, Moves(h), stage'[h] = "idle",
         UNCHANGED <<rows, deliveries>>,
         \A l \in Listings : l \in known /\ Ahead(h, l) =>
            Direct(h) /\ found[h] = {} /\ outcome[h] # "good" /\ job[h] = h
  PROVE  Quiet(h)
<1>1. Busy = {h} /\ Busy' = {}
  BY OneBusy DEF Orderly
<1>2. ASSUME NEW l \in Listings
      PROVE  RowFit(l)' /\ MissFit(l)'
  <2>1. RowFit(l) /\ MissFit(l)
    BY DEF Orderly
  <2>2. RowFit(l)'
    BY <2>1, RowStill DEF rows, Moves
  <2>3. ASSUME presence[l].observations > 0
        PROVE  Agreed(l)'
    <3>1. l \in known
      BY <2>1, <2>3 DEF RowFit
    <3>2. Agreed(l)
      BY <1>1, <2>1, <2>3, <3>1 DEF MissFit
    <3>3. h \in MissedSince(l, presence[l].lastSeen) => ~(Direct(h) /\ Ahead(h, l))
      BY <3>1 DEF MissedSince
    <3>4. Missing(l) = MissedSince(l, presence[l].lastSeen)
      BY <1>1, <3>3 DEF Missing
    <3>5. Missing(l)' = MissedSince(l, presence[l].lastSeen)
      BY <1>1 DEF Missing, MissedSince, Moves, evidence, rows
    <3> QED
      BY <3>2, <3>4, <3>5 DEF Agreed, Moves, rows
  <2> QED
    BY <2>2, <2>3 DEF MissFit, rows
<1> QED
  BY <1>2 DEF Quiet

\* So is to be through with the page: every listing with a row is on the list of the scan.
LEMMA SeenAllQuiet ==
  ASSUME IInv, Orderly, NEW h \in Busy, SeenAll(h), UNCHANGED plan
  PROVE  Quiet(h)
<1>1. /\ h \in Handlers /\ stage[h] = "seen" /\ left[h] = {} /\ (Direct(h) => job[h] = h /\ JobFit(h))
      /\ UNCHANGED <<evidence, rows, deliveries, history>>
  BY DEF SeenAll, IInv, Fit, Direct, Jobs, Handlers, Busy
<1>2. Moves(h)
  BY <1>1, SeenAllMoves
<1>3. DirectFit(h) /\ WorkerFit(h) /\ Alone
  BY DEF Orderly
<1>4. CASE Direct(h) /\ outcome[h] = "good"
  <2>1. /\ stage'[h] = "row" /\ left'[h] = known \cup found[h] /\ h \notin Workers
        /\ UNCHANGED <<job, on, heldP, heldC>>
    BY <1>1, <1>4, CurrentAssumption DEF SeenAll, Goes, IInv, TypeOK, Direct, Jobs
  <2>2. DirectFit(h)'
    BY <1>1, <1>3, <1>4, <2>1 DEF DirectFit, Shown, evidence, rows
  <2>3. WorkerFit(h)' /\ HeldFit(h)'
    BY <2>1 DEF WorkerFit, HeldFit, Scanning
  <2>4. ASSUME NEW k \in Listings
        PROVE  RowFit(k)' /\ MissFit(k)'
    <3>1. RowFit(k) /\ MissFit(k)
      BY DEF Orderly
    <3>2. RowFit(k)'
      BY <1>1, <3>1, RowStill DEF rows
    <3>3. CASE k \in known
      <4>1. Ahead(h, k)' <=> Ahead(h, k)
        BY <1>1, <1>4, <2>1, <3>3 DEF Ahead
      <4> QED
        BY <1>1, <1>2, <1>3, <2>1, <3>1, <3>2, <4>1, MissStill DEF rows
    <3>4. CASE k \notin known
      BY <1>1, <3>1, <3>2, <3>4 DEF MissFit, RowFit, rows
    <3> QED
      BY <3>3, <3>4
  <2> QED
    BY <2>2, <2>3, <2>4 DEF Quiet
<1>5. CASE ~(Direct(h) /\ outcome[h] = "good")
  <2>1. stage'[h] = "idle"
    BY <1>1, <1>5 DEF SeenAll, Ends, Goes, IInv, TypeOK
  <2>2. \A l \in Listings : Ahead(h, l) =>
            Direct(h) /\ found[h] = {} /\ outcome[h] # "good" /\ job[h] = h
    BY <1>1, <1>5 DEF Ahead, JobFit, Direct
  <2> QED
    BY <1>1, <1>2, <2>1, <2>2, EndsQuiet
<1> QED
  BY <1>4, <1>5

\* So is to be through with the states.
LEMMA RowAllQuiet ==
  ASSUME IInv, Orderly, NEW h \in Busy, RowAll(h), UNCHANGED plan
  PROVE  Quiet(h)
<1>1. /\ h \in Handlers /\ stage[h] = "row" /\ left[h] = {} /\ Fit(h)
      /\ UNCHANGED <<evidence, rows, deliveries, history>>
  BY DEF RowAll, IInv, Busy
<1>2. Moves(h) /\ stage'[h] = "idle"
  BY <1>1, RowAllMoves DEF RowAll, Ends, Goes, IInv, TypeOK
<1>3. \A l \in Listings : ~Ahead(h, l)
  BY <1>1 DEF Ahead, Fit
<1> QED
  BY <1>1, <1>2, <1>3, EndsQuiet

\* A merged row is no earlier, and names what its run saw.
LEMMA MergedShown ==
  ASSUME IInv, Orderly, NEW l \in Listings, NEW r \in Scans, l \in found[r], l \in known,
         NEW p, p = Merged(presence[l], r)
  PROVE  /\ p.observations > 0 /\ at[r] <= p.lastSeen /\ at[r] > 0
         /\ presence[l].observations > 0 => presence[l].lastSeen <= p.lastSeen
         /\ \E q \in Scans : l \in found[q] /\ p.lastSeen = at[q]
         /\ \A q \in Scans : p.lastEvent = <<"seen", q>> => at[q] <= p.lastSeen /\ at[q] > 0
<1> DEFINE o == presence[l]
           e == <<"seen", r>>
           n == o.sightings + 1
           m == o.observations + 1
           t == IF at[r] > o.lastSeen THEN at[r] ELSE o.lastSeen
<1>1. /\ RowFit(l) /\ o \in Presence /\ m \in Nat /\ n \in Nat
      /\ \A q \in Scans : at[q] \in Nat
      /\ \A q \in Scans : e = <<"seen", q>> => q = r
      /\ at[r] > 0
  BY DEF Orderly, IInv, TypeOK, Presence, Jobs, JobFit
<1>2. o.observations \in Nat /\ o.lastSeen \in Nat
  BY <1>1 DEF Presence
<1>3. CASE o.lastEvent = e
  <2>1. p = o
    BY <1>3 DEF Merged
  <2> QED
    BY <1>1, <1>2, <1>3, <2>1 DEF RowFit, Shown
<1>4. CASE o.lastEvent # e /\ o.observations > 0 /\ o.lastRun = r
  <2>1. p = [o EXCEPT !.sightings = n, !.lastSeen = t, !.lastEvent = e]
    BY <1>4 DEF Merged
  <2> HIDE DEF e, n, t
  <2>2. p.observations = o.observations /\ p.lastSeen = t /\ p.lastEvent = e
    BY <1>1, <2>1 DEF Presence
  <2>3. t \in {at[r], o.lastSeen} /\ at[r] <= t /\ o.lastSeen <= t
    BY <1>1, <1>2 DEF t
  <2> QED
    BY <1>1, <1>2, <1>4, <2>2, <2>3 DEF RowFit
<1>5. CASE o.lastEvent # e /\ ~(o.observations > 0 /\ o.lastRun = r)
           /\ o.observations > 0 /\ at[r] <= o.lastSeen
  <2>1. p = o
    BY <1>5 DEF Merged
  <2> QED
    BY <1>1, <1>2, <1>5, <2>1 DEF RowFit, Shown
<1>6. CASE o.lastEvent # e /\ ~(o.observations > 0 /\ o.lastRun = r)
           /\ ~(o.observations > 0 /\ at[r] <= o.lastSeen)
  <2>1. p = [o EXCEPT !.observations = m, !.sightings = n, !.lastSeen = at[r],
                      !.lastRun = r, !.lastEvent = e]
    BY <1>6 DEF Merged
  <2> HIDE DEF e, n, m
  <2>2. p.observations = m /\ p.lastSeen = at[r] /\ p.lastEvent = e
    BY <1>1, <2>1 DEF Presence
  <2>3. m > 0
    BY <1>2 DEF m
  <2> QED
    BY <1>1, <1>2, <1>6, <2>2, <2>3
<1> QED
  BY <1>3, <1>4, <1>5, <1>6

\* To write the presence row is quiet: the sighting that resets the misses is on its way.
LEMMA MergeQuiet ==
  ASSUME IInv, Orderly, NEW h \in Busy, Merge(h), UNCHANGED plan
  PROVE  Quiet(h)
<1> DEFINE l == on[h]
           r == job[h]
           p == Merged(presence[l], r)
<1>1. /\ h \in Handlers /\ stage[h] = "merge" /\ l \in Listings /\ r \in Scans /\ l \in found[r]
      /\ (Direct(h) => r = h) /\ (~Direct(h) => Scanning(h) /\ l \in found[r])
  BY CurrentAssumption DEF Merge, IInv, TypeOK, Fit, AtListing, Direct, Scanning, Jobs, Handlers, Busy
<1>2. DirectFit(h) /\ WorkerFit(h) /\ HeldFit(h) /\ Alone
  BY DEF Orderly
<1>3. /\ presence' = [presence EXCEPT ![l] = p] /\ l \in known
      /\ UNCHANGED <<evidence, known, current, job, on, heldC, deliveries, history>>
      /\ Direct(h) => stage'[h] = "seen" /\ left'[h] = left[h]
      /\ ~Direct(h) => stage'[h] = "row"
  BY <1>1, <1>2 DEF Merge, Goes, HeldFit, IInv, TypeOK
<1>4. presence'[l] = p /\ \A k \in Listings \ {l} : presence'[k] = presence[k]
  BY <1>1, <1>3 DEF IInv, TypeOK
<1>5. /\ p.observations > 0 /\ at[r] <= p.lastSeen /\ at[r] > 0
      /\ presence[l].observations > 0 => presence[l].lastSeen <= p.lastSeen
      /\ \E q \in Scans : l \in found[q] /\ p.lastSeen = at[q]
      /\ \A q \in Scans : p.lastEvent = <<"seen", q>> => at[q] <= p.lastSeen /\ at[q] > 0
  BY <1>1, <1>3, MergedShown
<1> HIDE DEF p
<1>6. Moves(h)
  BY <1>1, MergeMoves
<1>7. Shown(l, r)' /\ \A k \in Listings \ {l} : Shown(k, r) => Shown(k, r)'
  BY <1>3, <1>4, <1>5 DEF Shown, evidence
<1>8. DirectFit(h)'
  <2> SUFFICES ASSUME Direct(h)
               PROVE  /\ at'[h] = clock'
                      /\ \A k \in found[h] : k \in left[h] \/ Shown(k, h)'
    BY <1>3 DEF DirectFit, evidence
  <2>1. ASSUME NEW k \in found[h]
        PROVE  k \in left[h] \/ k = l \/ Shown(k, h)
    BY <1>1, <1>2 DEF DirectFit
  <2>2. \A k \in found[h] : k \in Listings
    BY <1>1 DEF IInv, TypeOK, Direct, Jobs
  <2>3. at'[h] = clock'
    BY <1>2, <1>3 DEF DirectFit, evidence
  <2> QED
    BY <1>1, <1>3, <1>7, <2>1, <2>2, <2>3 DEF Shown, evidence
<1>9. WorkerFit(h)'
  <2>1. Shown(on[h], job[h])'
    BY <1>3, <1>7
  <2> QED
    BY <1>1, <1>2, <1>3, <2>1, CurrentAssumption DEF WorkerFit, Scanning, Direct
<1>10. HeldFit(h)'
  BY <1>3 DEF HeldFit
<1>11. ASSUME NEW k \in Listings
       PROVE  RowFit(k)'
  <2>1. CASE k = l
    BY <1>3, <1>4, <1>5, <2>1 DEF RowFit, Shown, evidence
  <2>2. CASE k # l
    BY <1>3, <1>4, <2>2, RowStill DEF Orderly
  <2> QED
    BY <2>1, <2>2
<1>12. ASSUME NEW k \in Listings
       PROVE  MissFit(k)'
  <2>1. CASE k = l
    <3>1. Ahead(h, k)' /\ k \in found'[job'[h]]
      BY <1>1, <1>3, <2>1 DEF Ahead, Scanning, evidence
    <3>2. h \in Busy'
      BY <1>1, <1>3 DEF Busy
    <3> QED
      BY <3>1, <3>2 DEF MissFit
  <2>2. CASE k # l
    <3>1. Ahead(h, k)' <=> Ahead(h, k)
      BY <1>1, <1>3, <2>2 DEF Ahead
    <3>2. stage'[h] # "idle" /\ MissFit(k)
      BY <1>3 DEF Orderly
    <3> QED
      BY <1>2, <1>3, <1>4, <1>6, <2>2, <3>1, <3>2, MissStill
  <2> QED
    BY <2>1, <2>2
<1> QED
  BY <1>8, <1>9, <1>10, <1>11, <1>12 DEF Quiet

\* To read the state of the next listing is quiet.
LEMMA RowQuiet ==
  ASSUME IInv, Orderly, NEW h \in Busy, Row(h), UNCHANGED plan
  PROVE  Quiet(h)
<1>1. PICK l \in left[h] :
        /\ h \in Workers /\ job[h] \in Scans => l = on[h]
        /\ left' = [left EXCEPT ![h] = left[h] \ {l}]
        /\ on' = [on EXCEPT ![h] = l]
        /\ heldC' = [heldC EXCEPT ![h] = current[l]]
  BY DEF Row
<1>2. /\ h \in Handlers /\ stage[h] = "row" /\ stage'[h] = "store" /\ l \in Listings
      /\ left'[h] = left[h] \ {l} /\ on'[h] = l /\ heldC'[h] = current[l] /\ Fit(h)
      /\ UNCHANGED <<evidence, rows, job, heldP, deliveries, history>>
  BY <1>1 DEF Row, Goes, IInv, TypeOK, Busy
<1>3. Moves(h)
  BY <1>2, RowMoves
<1>4. DirectFit(h) /\ WorkerFit(h) /\ Alone
  BY DEF Orderly
<1>5. DirectFit(h)'
  BY <1>2, <1>4 DEF DirectFit, Shown, evidence, rows
<1>6. WorkerFit(h)' /\ HeldFit(h)'
  <2>1. Scanning(h) => l = on[h] /\ l \in found[job[h]] /\ Shown(on[h], job[h])
    BY <1>1, <1>2, <1>4 DEF Scanning, Fit, WorkerFit
  <2>2. UNCHANGED plan /\ deliveries' = deliveries /\ job' = job /\ found' = found /\ current' = current
    BY <1>2 DEF evidence, rows
  <2>3. HeldFit(h)'
    BY <1>2, <2>2 DEF HeldFit
  <2>4. Scanning(h)' <=> Scanning(h)
    BY <2>2 DEF Scanning
  <2>5. Shown(on[h], job[h])' <=> Shown(l, job[h])
    BY <1>2, <2>2 DEF Shown, evidence, rows
  <2> QED
    BY <1>2, <1>4, <2>1, <2>2, <2>3, <2>4, <2>5 DEF WorkerFit
<1>7. ASSUME NEW k \in Listings
      PROVE  RowFit(k)' /\ MissFit(k)'
  <2>1. RowFit(k) /\ MissFit(k)
    BY DEF Orderly
  <2>2. Ahead(h, k)' <=> Ahead(h, k)
    BY <1>1, <1>2 DEF Ahead, Scanning
  <2>3. RowFit(k)'
    BY <1>2, <2>1, RowStill DEF rows
  <2>4. MissFit(k)'
    BY <1>2, <1>3, <1>4, <2>1, <2>2, MissStill DEF rows
  <2> QED
    BY <2>3, <2>4
<1> QED
  BY <1>5, <1>6, <1>7 DEF Quiet

\* The last fetch is later than any sighting by another scan.
LEMMA LastFetch ==
  ASSUME IInv, Orderly, NEW h \in Busy, Direct(h), NEW l \in Listings,
         presence[l].observations > 0
  PROVE  IF l \in found[h]
           THEN presence[l].lastSeen >= at[h] => MissedSince(l, presence[l].lastSeen) = {}
           ELSE at[h] > presence[l].lastSeen
<1>1. /\ at[h] = clock /\ \A r \in Scans : at[r] \in Nat /\ at[r] <= clock
      /\ clock \in Nat /\ presence[l].lastSeen \in Nat /\ h \in Scans
  BY DEF Orderly, DirectFit, IInv, TypeOK, Presence, Direct, Jobs
<1>2. PICK q \in Scans : l \in found[q] /\ presence[l].lastSeen = at[q]
  BY DEF Orderly, RowFit
<1>3. at[q] > 0
  BY <1>1, <1>2 DEF IInv, JobFit, Jobs
<1>4. l \notin found[h] => at[q] # at[h]
  BY <1>1, <1>2, <1>3 DEF Orderly, Distinct, Jobs
<1>5. presence[l].lastSeen >= at[h] => MissedSince(l, presence[l].lastSeen) = {}
  BY <1>1 DEF MissedSince
<1> QED
  BY <1>1, <1>2, <1>4, <1>5

\* What an update makes of the misses.
LEMMA UpdatedMisses ==
  ASSUME IInv, NEW h \in Handlers, NEW l, heldC[h] \in Current
  PROVE  Updated(heldC[h], h, l).misses =
           IF job[h] \in Checks THEN heldC[h].misses
           ELSE IF l \in found[job[h]] THEN 0 ELSE heldC[h].misses + 1
<1> DEFINE c == heldC[h]
           a == outcome[job[h]]
           t == at[job[h]]
           m == c.misses + 1
<1>1. Updated(c, h, l) = IF job[h] \in Checks THEN [c EXCEPT !.probe = a, !.probeAt = t]
                         ELSE IF l \in found[job[h]]
                           THEN [c EXCEPT !.seen = TRUE, !.scanAt = t, !.misses = 0]
                         ELSE [c EXCEPT !.seen = FALSE, !.scanAt = t, !.misses = m]
  BY DEF Updated, Sighted
<1>2. c \in Current
  OBVIOUS
<1> HIDE DEF c, a, t, m
<1>3. [c EXCEPT !.probe = a, !.probeAt = t].misses = c.misses
  BY <1>2 DEF Current
<1>4. [c EXCEPT !.seen = TRUE, !.scanAt = t, !.misses = 0].misses = 0
  BY <1>2 DEF Current
<1>5. [c EXCEPT !.seen = FALSE, !.scanAt = t, !.misses = m].misses = m
  BY <1>2 DEF Current
<1>6. Updated(c, h, l).misses = IF job[h] \in Checks THEN c.misses
                                ELSE IF l \in found[job[h]] THEN 0 ELSE m
  BY <1>1, <1>3, <1>4, <1>5
<1> QED
  BY <1>6 DEF c, m

\* To write the state is quiet: a sighting resets the misses when none remain, a scan that missed
\* the listing counts itself, a probe counts nothing.
LEMMA StoreQuiet ==
  ASSUME IInv, Orderly, NEW h \in Busy, Store(h), UNCHANGED plan
  PROVE  Quiet(h)
<1> DEFINE l == on[h]
           c == Updated(current[l], h, l)
<1>1. /\ h \in Handlers /\ stage[h] = "store" /\ l \in Listings /\ job[h] \in Jobs
      /\ heldC[h] = current[l] /\ heldC[h] \in Current
      /\ DirectFit(h) /\ WorkerFit(h) /\ Alone
  BY DEF Store, IInv, TypeOK, Fit, AtListing, Busy, Orderly, HeldFit
<1>2. /\ Direct(h) => job[h] = h /\ h \in Scans /\ h \notin Checks
      /\ job[h] \in Scans /\ h \notin Scans => Scanning(h)
      /\ job[h] \in Checks => ~Direct(h) /\ ~Scanning(h)
      /\ job[h] \notin Checks => job[h] \in Scans
  BY <1>1, CurrentAssumption DEF Store, IInv, Fit, Direct, Scanning, Jobs, Handlers
<1>3. c.misses = IF job[h] \in Checks THEN current[l].misses
                 ELSE IF l \in found[job[h]] THEN 0 ELSE current[l].misses + 1
  BY <1>1, UpdatedMisses
<1>4. current' = [current EXCEPT ![l] = c]
  BY <1>1 DEF Store
<1> HIDE DEF c
<1>5. /\ stage'[h] = "reload" /\ known \subseteq known'
      /\ UNCHANGED <<evidence, presence, job, left, on, heldP, deliveries, history>>
  BY <1>1 DEF Store, Goes, IInv, TypeOK
<1>6. current'[l] = c /\ \A k \in Listings \ {l} : current'[k] = current[k]
  BY <1>1, <1>4 DEF IInv, TypeOK
<1>7. Moves(h)
  BY <1>1, StoreMoves
<1>8. DirectFit(h)' /\ WorkerFit(h)' /\ HeldFit(h)'
  BY <1>1, <1>5 DEF DirectFit, WorkerFit, HeldFit, Shown, Scanning, evidence
<1>9. ASSUME NEW k \in Listings
      PROVE  RowFit(k)'
  BY <1>5, RowStill DEF Orderly
<1>10. ASSUME NEW k \in Listings, k # l \/ job[h] \in Checks
       PROVE  MissFit(k)'
  <2>1. MissFit(k) /\ stage'[h] # "idle"
    BY <1>5 DEF Orderly
  <2>2. Ahead(h, k)' <=> Ahead(h, k)
    BY <1>1, <1>2, <1>5, <1>10 DEF Ahead, Scanning
  <2>3. current'[k].misses = current[k].misses
    BY <1>3, <1>6, <1>10
  <2> QED
    BY <1>1, <1>5, <1>7, <2>1, <2>2, <2>3, MissStill
<1>11. ASSUME job[h] \in Scans, presence[l].observations > 0
       PROVE  Agreed(l)'
  <2> DEFINE S == MissedSince(l, presence[l].lastSeen)
  <2>1. ~Ahead(h, l)'
    BY <1>1, <1>5 DEF Ahead, DirectFit, Scanning
  <2>2. (Missing(l))' = S
    <3>1. Busy' = {h}
      BY <1>1, <1>5, <1>7, OneBusy
    <3> QED
      BY <1>5, <2>1, <3>1 DEF Missing, MissedSince, evidence
  <2>3. IsFiniteSet(S) /\ Cardinality(S) \in Nat
    BY FS_Subset, FS_CardinalityType, CurrentAssumption DEF MissedSince
  <2>4. job[h] \notin Checks
    BY <1>11, CurrentAssumption
  <2>5. CASE l \in found[job[h]]
    <3>1. current'[l].misses = 0
      BY <1>3, <1>6, <2>4, <2>5
    <3>2. ASSUME deliveries = plan.deliveries
          PROVE  S = {}
      <4>1. Direct(h) /\ job[h] = h /\ l \in found[h]
        <5>1. plan.deliveries \in Nat
          BY CurrentAssumption DEF IInv, TypeOK
        <5>2. h \notin Workers
          BY <1>1, <3>2, <5>1 DEF WorkerFit
        <5>3. job[h] = h
          BY <1>1, <5>2 DEF IInv, Fit, Handlers
        <5> QED
          BY <1>11, <2>5, <5>3 DEF Direct
      <4>2. Shown(l, h) /\ at[h] \in Nat /\ presence[l].lastSeen \in Nat
        BY <1>1, <4>1 DEF DirectFit, Direct, IInv, TypeOK, Presence, Jobs
      <4> QED
        BY <1>1, <1>11, <4>1, <4>2, LastFetch DEF Shown
    <3>3. Cardinality(S) = 0 <=> S = {}
      BY <2>3, FS_EmptySet
    <3> QED
      BY <1>5, <2>2, <2>3, <3>1, <3>2, <3>3 DEF Agreed
  <2>6. CASE l \notin found[job[h]]
    <3>1. Direct(h) /\ job[h] = h
      BY <1>1, <1>2, <1>11, <2>6 DEF WorkerFit, Direct
    <3>2. current'[l].misses = current[l].misses + 1
      BY <1>3, <1>6, <2>4, <2>6
    <3>3. Busy = {h} /\ Ahead(h, l)
      BY <1>1, <1>7, <3>1, OneBusy DEF Ahead
    <3>4. Agreed(l) /\ Missing(l) = S \ {h}
      <4>1. MissFit(l)
        BY <1>1 DEF Orderly
      <4> QED
        BY <1>11, <2>6, <3>1, <3>3, <4>1 DEF MissFit, Missing
    <3>5. h \in S
      <4>1. at[h] > presence[l].lastSeen
        BY <1>1, <1>11, <2>6, <3>1, LastFetch
      <4> QED
        BY <1>1, <2>6, <3>1, <4>1 DEF MissedSince, DirectFit, Direct
    <3>6. Cardinality(S \ {h}) = Cardinality(S) - 1
      BY <2>3, <3>5, FS_RemoveElement
    <3>7. current[l].misses \in Nat
      BY <1>1 DEF IInv, TypeOK, Current
    <3> QED
      BY <1>5, <2>2, <2>3, <3>2, <3>4, <3>6, <3>7 DEF Agreed
  <2> QED
    BY <2>5, <2>6
<1>12. ASSUME NEW k \in Listings
       PROVE  MissFit(k)'
  <2>1. CASE k # l \/ job[h] \in Checks
    BY <1>10, <2>1
  <2>2. CASE k = l /\ job[h] \notin Checks
    <3>1. presence[l].observations > 0 => Agreed(l)'
      BY <1>2, <1>11, <2>2
    <3> QED
      BY <1>5, <2>2, <3>1 DEF MissFit
  <2> QED
    BY <2>1, <2>2
<1> QED
  BY <1>8, <1>9, <1>12 DEF Quiet

\* To read both rows again is quiet.
LEMMA ReloadQuiet ==
  ASSUME IInv, Orderly, NEW h \in Busy, Reload(h), UNCHANGED plan
  PROVE  Quiet(h)
<1>1. /\ h \in Handlers /\ stage[h] = "reload" /\ on[h] \in Listings
      /\ UNCHANGED <<evidence, rows, job, left, on, deliveries, history>>
      /\ DirectFit(h) /\ WorkerFit(h) /\ Alone
  BY DEF Reload, IInv, Fit, AtListing, Busy, Orderly
<1>2. Moves(h)
  BY <1>1, ReloadMoves
<1>3. /\ stage'[h] \in {"seen", "row", "note"}
      /\ stage'[h] = "note" => heldP'[h] = presence[on[h]] /\ heldC'[h] = current[on[h]]
      /\ stage'[h] = "seen" <=> (Scanning(h) /\ stage'[h] # "note")
  BY <1>1 DEF Reload, Onward, Goes, Scanning, IInv, TypeOK
<1>4. ~Direct(h) \/ ~Scanning(h)
  BY CurrentAssumption DEF Direct, Scanning, Jobs
<1>5. DirectFit(h)'
  BY <1>1, <1>3, <1>4 DEF DirectFit, Shown, evidence, rows
<1>6. WorkerFit(h)' /\ HeldFit(h)'
  BY <1>1, <1>3 DEF WorkerFit, HeldFit, Shown, Scanning, evidence, rows
<1>7. ASSUME NEW k \in Listings
      PROVE  RowFit(k)' /\ MissFit(k)'
  <2>1. RowFit(k) /\ MissFit(k)
    BY DEF Orderly
  <2>2. Ahead(h, k)' <=> Ahead(h, k)
    BY <1>1, <1>3, <1>4 DEF Ahead, Scanning
  <2>3. RowFit(k)'
    BY <1>1, <2>1, RowStill DEF rows
  <2>4. MissFit(k)'
    BY <1>1, <1>2, <1>3, <2>1, <2>2, MissStill DEF rows
  <2> QED
    BY <2>3, <2>4
<1> QED
  BY <1>5, <1>6, <1>7 DEF Quiet

\* To write the presence row under the event's name is quiet: only a sighting that was merged
\* gives its own.
LEMMA NoteQuiet ==
  ASSUME IInv, Orderly, NEW h \in Busy, Note(h), UNCHANGED plan
  PROVE  Quiet(h)
<1> DEFINE l == on[h]
           e == Tag(h)
           o == presence[l]
           p == [o EXCEPT !.lastEvent = e]
<1>1. /\ h \in Handlers /\ stage[h] = "note" /\ l \in Listings /\ o \in Presence
      /\ heldP[h] = o /\ heldC[h] = current[l] /\ job[h] \in Jobs
      /\ DirectFit(h) /\ WorkerFit(h) /\ Alone /\ RowFit(l)
      /\ h \in Jobs => job[h] = h
  BY DEF Note, IInv, TypeOK, Fit, AtListing, Busy, Orderly, HeldFit
<1>2. \A r \in Scans : e = <<"seen", r>> => Shown(l, r)
  <2> SUFFICES ASSUME NEW r \in Scans, e = <<"seen", r>>
               PROVE  Shown(l, r)
    OBVIOUS
  <2>1. ~Direct(h) /\ job[h] \in Scans /\ r = job[h]
    BY DEF Tag
  <2>2. Scanning(h)
    BY <1>1, <2>1 DEF Scanning, Direct, Handlers
  <2> QED
    BY <1>1, <2>1, <2>2 DEF WorkerFit
<1>3. presence' = [presence EXCEPT ![l] = p]
  BY <1>1 DEF Note
<1> HIDE DEF e
<1>4. p.observations = o.observations /\ p.lastSeen = o.lastSeen /\ p.lastEvent = e
  BY <1>1 DEF Presence
<1> HIDE DEF p
<1>5. /\ stage'[h] = "derive"
      /\ UNCHANGED <<evidence, known, current, job, left, on, heldC, deliveries, history>>
      /\ presence'[l] = p /\ \A k \in Listings \ {l} : presence'[k] = presence[k]
  BY <1>1, <1>3 DEF Note, Goes, IInv, TypeOK
<1>6. Moves(h)
  BY <1>1, NoteMoves
<1>7. /\ \A k \in Listings : presence'[k].observations = presence[k].observations
      /\ \A k \in Listings : presence'[k].lastSeen = presence[k].lastSeen
  BY <1>4, <1>5
<1>8. DirectFit(h)'
  <2>1. Direct(h) => \A k \in found[h] : k \in Listings
    BY DEF IInv, TypeOK, Direct, Jobs
  <2> QED
    BY <1>1, <1>5, <1>7, <2>1 DEF DirectFit, Shown, evidence
<1>9. WorkerFit(h)' /\ HeldFit(h)'
  BY <1>1, <1>5 DEF WorkerFit, HeldFit
<1>10. ASSUME NEW k \in Listings
       PROVE  RowFit(k)'
  <2>1. CASE k = l
    <3>1. \A r \in Scans : Shown(l, r) => (p.observations > 0 /\ at[r] > 0 /\ at[r] <= p.lastSeen)
      BY <1>4 DEF Shown
    <3> QED
      BY <1>1, <1>2, <1>4, <1>5, <2>1, <3>1 DEF RowFit, Shown, evidence
  <2>2. CASE k # l
    BY <1>5, <2>2, RowStill DEF Orderly
  <2> QED
    BY <2>1, <2>2
<1>11. ASSUME NEW k \in Listings
       PROVE  MissFit(k)'
  <2>1. Ahead(h, k)' <=> Ahead(h, k)
    BY <1>1, <1>5 DEF Ahead
  <2>2. MissFit(k) /\ stage'[h] # "idle"
    BY <1>5 DEF Orderly
  <2> QED
    BY <1>1, <1>5, <1>6, <1>7, <2>1, <2>2, MissStill
<1> QED
  BY <1>8, <1>9, <1>10, <1>11 DEF Quiet

\* To write the verdict is quiet.
LEMMA DeriveQuiet ==
  ASSUME IInv, Orderly, NEW h \in Busy, Derive(h), UNCHANGED plan
  PROVE  Quiet(h)
<1> DEFINE l == on[h]
           c == current[l]
<1>1. /\ h \in Handlers /\ stage[h] = "derive" /\ l \in Listings /\ c \in Current
      /\ heldC[h] = c /\ DirectFit(h) /\ WorkerFit(h) /\ Alone
  BY DEF Derive, IInv, TypeOK, Fit, AtListing, Busy, Orderly, HeldFit
<1>2. PICK age \in Ages : current' = [current EXCEPT ![l] = [c EXCEPT !.verdict = Judged(c, age)]]
  BY <1>1 DEF Derive
<1> DEFINE v == Judged(c, age)
           d == [c EXCEPT !.verdict = v]
<1>3. d.misses = c.misses
  <2> HIDE DEF v
  <2> QED
    BY <1>1 DEF Current
<1>4. current' = [current EXCEPT ![l] = d]
  BY <1>2
<1> HIDE DEF d, v
<1>5. \A k \in Listings : current'[k].misses = current[k].misses
  BY <1>1, <1>3, <1>4 DEF IInv, TypeOK
<1>6. /\ UNCHANGED <<evidence, known, presence, job, left, on, heldP, deliveries, history>>
      /\ stage'[h] \in {"seen", "row"} /\ (stage'[h] = "seen" <=> Scanning(h))
  BY <1>1 DEF Derive, Onward, Goes, Scanning, IInv, TypeOK
<1>7. Moves(h)
  BY <1>1, DeriveMoves
<1>8. ~Direct(h) \/ ~Scanning(h)
  BY CurrentAssumption DEF Direct, Scanning, Jobs
<1>9. DirectFit(h)'
  BY <1>1, <1>6, <1>8 DEF DirectFit, Shown, evidence
<1>10. WorkerFit(h)' /\ HeldFit(h)'
  BY <1>1, <1>6 DEF WorkerFit, HeldFit, Scanning
<1>11. ASSUME NEW k \in Listings
       PROVE  RowFit(k)' /\ MissFit(k)'
  <2>1. RowFit(k) /\ MissFit(k)
    BY DEF Orderly
  <2>2. Ahead(h, k)' <=> Ahead(h, k)
    BY <1>1, <1>6, <1>8 DEF Ahead, Scanning
  <2>3. RowFit(k)'
    BY <1>6, <2>1, RowStill
  <2>4. MissFit(k)'
    BY <1>1, <1>5, <1>6, <1>7, <2>1, <2>2, MissStill
  <2> QED
    BY <2>3, <2>4
<1> QED
  BY <1>9, <1>10, <1>11 DEF Quiet

\* A fetch is later than all before it, and what it says of every listing is still ahead.
LEMMA FetchOrderly ==
  ASSUME IInv, Orderly, Busy = {}, NEW j \in Jobs, NEW seen \in SUBSET Listings, NEW result, NEW s,
         Fetched(j, seen, result), Begins(j, j, s),
         (j \in Scans /\ s = "seen") \/ (j \in Checks /\ s = "row"),
         UNCHANGED <<plan, rows, deliveries, interrupted>>
  PROVE  Orderly'
<1>1. /\ at[j] = 0 /\ clock' = clock + 1 /\ clock \in Nat /\ found[j] = {}
      /\ \A i \in Jobs : at[i] \in Nat /\ at[i] <= clock
      /\ at'[j] = clock + 1 /\ found'[j] = seen
      /\ j \in Handlers /\ j \notin Workers /\ (j \in Scans => j \notin Checks)
  BY CurrentAssumption DEF Fetched, IInv, TypeOK, JobFit, Handlers, Jobs
<1>2. \A i \in Jobs \ {j} : at'[i] = at[i] /\ found'[i] = found[i] /\ outcome'[i] = outcome[i]
  BY DEF Fetched, IInv, TypeOK
<1>3. stage'[j] = s /\ job'[j] = j /\ left'[j] = seen
  BY <1>1 DEF Begins, Goes, IInv, TypeOK
<1>4. Busy' = {j}
  <2>1. \A g \in Handlers \ {j} : stage'[g] = stage[g]
    BY DEF Begins, Goes, IInv, TypeOK
  <2> QED
    BY <1>1, <1>3, <2>1 DEF Busy
<1>5. Alone'
  BY <1>4 DEF Alone
<1>6. Distinct'
  <2> SUFFICES ASSUME NEW i \in Jobs, NEW k \in Jobs, at'[i] = at'[k], at'[i] > 0
               PROVE  i = k
    BY DEF Distinct
  <2>1. CASE i = j \/ k = j
    BY <1>1, <1>2, <2>1
  <2>2. CASE i # j /\ k # j
    BY <1>2, <2>2 DEF Orderly, Distinct
  <2> QED
    BY <2>1, <2>2
<1>7. DirectFit(j)' /\ WorkerFit(j)' /\ HeldFit(j)'
  BY <1>1, <1>3 DEF DirectFit, WorkerFit, HeldFit, Scanning, Direct
<1>8. ASSUME NEW l \in Listings, NEW r \in Scans, Shown(l, r)
      PROVE  Shown(l, r)'
  BY <1>1, <1>2, <1>8 DEF Shown, rows, Jobs
<1>9. ASSUME NEW l \in Listings
      PROVE  RowFit(l)'
  <2>1. RowFit(l) /\ known' = known /\ presence' = presence
    BY DEF Orderly, rows
  <2>2. \A q \in Scans : l \in found[q] => l \in found'[q] /\ at'[q] = at[q]
    BY <1>1, <1>2 DEF Jobs
  <2>3. \A r \in Scans : presence'[l].lastEvent = <<"seen", r>> => Shown(l, r)'
    BY <1>8, <2>1 DEF RowFit
  <2> QED
    BY <2>1, <2>2, <2>3 DEF RowFit
<1>10. ASSUME NEW l \in Listings
       PROVE  MissFit(l)'
  <2> DEFINE S == MissedSince(l, presence[l].lastSeen)
  <2>1. presence' = presence /\ current' = current /\ MissFit(l) /\ presence[l].lastSeen \in Nat
    BY DEF rows, Orderly, IInv, TypeOK, Presence
  <2>2. Missing(l) = S
    BY DEF Missing
  <2>3. CASE j \in Scans /\ l \in seen
    <3>1. Ahead(j, l)'
      BY <1>3, <2>3 DEF Ahead, Direct
    <3>2. j \in Busy' /\ l \in found'[job'[j]]
      BY <1>1, <1>3, <1>4, <2>3
    <3> QED
      BY <3>1, <3>2 DEF MissFit
  <2>4. CASE ~(j \in Scans /\ l \in seen)
    <3>1. j \in Scans => Ahead(j, l)'
      BY <1>1, <1>3 DEF Ahead, Direct
    <3>2. (Missing(l))' = (MissedSince(l, presence[l].lastSeen))' \ (IF j \in Scans THEN {j} ELSE {})
      BY <1>4, <3>1 DEF Missing, Direct
    <3>3. (MissedSince(l, presence[l].lastSeen))' \ {j} = S \ {j}
      BY <1>2, <2>1 DEF MissedSince, Jobs
    <3>4. j \notin S /\ (j \notin Scans => j \notin (MissedSince(l, presence[l].lastSeen))')
      BY <1>1, <2>1 DEF MissedSince
    <3>5. (Missing(l))' = Missing(l)
      BY <2>2, <3>2, <3>3, <3>4
    <3> QED
      BY <2>1, <3>5 DEF MissFit, Agreed
  <2> QED
    BY <2>3, <2>4
<1> QED
  BY <1>4, <1>5, <1>6, <1>7, <1>9, <1>10 DEF Orderly

\* A delivery says nothing of a listing before its sighting is merged; but there was one.
LEMMA DeliverOrderly ==
  ASSUME IInv, Orderly, Busy = {}, NEW w \in Workers, NEW j \in Jobs, Deliver(w, j), UNCHANGED plan
  PROVE  Orderly'
<1>1. /\ w \in Handlers /\ w \notin Jobs
      /\ deliveries > 0 /\ deliveries' = deliveries - 1
      /\ UNCHANGED <<evidence, rows, on, heldP, heldC, interrupted>>
  BY CurrentAssumption DEF Deliver, Handlers, Jobs, Begins
<1>2. stage'[w] = (IF j \in Scans THEN "seen" ELSE "row") /\ job'[w] = j
  BY <1>1 DEF Deliver, Begins, Goes, IInv, TypeOK
<1>3. Busy' = {w}
  <2>1. \A g \in Handlers \ {w} : stage'[g] = stage[g]
    BY DEF Deliver, Begins, Goes, IInv, TypeOK
  <2> QED
    BY <1>1, <1>2, <2>1 DEF Busy
<1>4. deliveries' < plan'.deliveries /\ deliveries' # plan'.deliveries
  BY <1>1, CurrentAssumption DEF IInv, TypeOK
<1>5. Alone' /\ Distinct'
  BY <1>1, <1>3 DEF Alone, Distinct, Orderly, evidence
<1>6. DirectFit(w)' /\ WorkerFit(w)' /\ HeldFit(w)'
  BY <1>1, <1>2, <1>4 DEF DirectFit, WorkerFit, HeldFit, Scanning, Direct, Jobs
<1>7. ASSUME NEW l \in Listings
      PROVE  RowFit(l)' /\ MissFit(l)'
  <2>1. RowFit(l) /\ MissFit(l) /\ presence' = presence /\ current' = current
    BY <1>1 DEF Orderly, rows
  <2>2. RowFit(l)'
    BY <1>1, <2>1, RowStill DEF rows
  <2>3. (Missing(l))' = Missing(l)
    <3>1. ~Direct(w)
      BY <1>1 DEF Direct, Jobs
    <3>2. Missing(l) = MissedSince(l, presence[l].lastSeen)
      BY DEF Missing
    <3>3. (Missing(l))' = (MissedSince(l, presence[l].lastSeen))'
      BY <1>3, <3>1 DEF Missing
    <3> QED
      BY <1>1, <2>1, <3>2, <3>3 DEF MissedSince, evidence
  <2>4. Agreed(l) => Agreed(l)'
    BY <1>4, <2>1, <2>3 DEF Agreed
  <2> QED
    BY <2>1, <2>2, <2>4 DEF MissFit
<1> QED
  BY <1>3, <1>5, <1>6, <1>7 DEF Orderly

\* At first nobody is at work and no listing was seen.
LEMMA InitTidy == Init => Tidy
<1> SUFFICES ASSUME Init
             PROVE  Orderly
  BY DEF Tidy
<1>1. Busy = {}
  BY DEF Init, Busy
<1>2. \A i \in Jobs : at[i] = 0
  BY DEF Init
<1>3. \A l \in Listings : presence[l] = NoPresence
  BY DEF Init
<1>4. NoPresence.observations = 0 /\ NoPresence.lastEvent = None
  BY DEF NoPresence
<1>5. \A r \in Scans : None # <<"seen", r>>
  BY CurrentAssumption DEF Events, Jobs
<1>6. \A l \in Listings : RowFit(l) /\ MissFit(l)
  BY <1>3, <1>4, <1>5 DEF RowFit, MissFit
<1> QED
  BY <1>1, <1>2, <1>6 DEF Orderly, Alone, Distinct

\* Every step keeps it, as long as no handler is cut short and no two overlap.
LEMMA StepTidy == IInv /\ Tidy /\ [Next]_vars => Tidy'
<1> SUFFICES ASSUME IInv, Tidy, [Next]_vars, ~interrupted', ~overlapped'
             PROVE  Orderly'
  BY DEF Tidy
<1>1. ASSUME NEW r \in Scans, Scan(r), UNCHANGED plan
      PROVE  Orderly'
  <2>1. PICK seen \in SUBSET Listings, result \in {"good", "failed"} : Fetched(r, seen, result)
    BY <1>1 DEF Scan
  <2>2. Busy = {} /\ Orderly
    BY <1>1 DEF Scan, Begins, Tidy, IInv, TypeOK
  <2>3. r \in Jobs /\ Begins(r, r, "seen") /\ UNCHANGED <<plan, rows, deliveries, interrupted>>
    BY <1>1 DEF Scan, Jobs
  <2> QED
    BY <1>1, <2>1, <2>2, <2>3, FetchOrderly
<1>2. ASSUME NEW c \in Checks, Check(c), UNCHANGED plan
      PROVE  Orderly'
  <2>1. PICK r \in Scans : \E l \in found[r], result \in Answers : Fetched(c, {l}, result)
    BY <1>2 DEF Check
  <2>2. PICK l \in found[r], result \in Answers : Fetched(c, {l}, result)
    BY <2>1
  <2>3. {l} \in SUBSET Listings /\ c \in Jobs
    BY <2>2 DEF IInv, TypeOK, Jobs
  <2>4. Busy = {} /\ Orderly
    BY <1>2 DEF Check, Begins, Tidy, IInv, TypeOK
  <2> QED
    BY <1>2, <2>2, <2>3, <2>4, FetchOrderly DEF Check
<1>3. ASSUME NEW w \in Workers, NEW j \in Jobs, Deliver(w, j), UNCHANGED plan
      PROVE  Orderly'
  <2>1. Busy = {} /\ Orderly
    BY <1>3 DEF Deliver, Begins, Tidy, IInv, TypeOK
  <2> QED
    BY <1>3, <2>1, DeliverOrderly
<1>4. ASSUME NEW h \in Handlers, Project(h), UNCHANGED plan
      PROVE  Orderly'
  <2>1. h \in Busy
    BY <1>4 DEF Project, Seen, SeenAll, Merge, Row, RowAll, Store, Reload, Note, Derive, Busy
  <2>2. UNCHANGED history
    BY <1>4 DEF Project, Seen, SeenAll, Merge, Row, RowAll, Store, Reload, Note, Derive, history
  <2>3. Orderly
    BY <2>2 DEF Tidy, history
  <2>4. Moves(h)
    BY <1>4, SeenMoves, SeenAllMoves, MergeMoves, RowMoves, RowAllMoves, StoreMoves, ReloadMoves,
       NoteMoves, DeriveMoves DEF Project
  <2>5. Quiet(h)
    BY <1>4, <2>1, <2>3, SeenQuiet, SeenAllQuiet, MergeQuiet, RowQuiet, RowAllQuiet, StoreQuiet,
       ReloadQuiet, NoteQuiet, DeriveQuiet DEF Project
  <2> QED
    BY <2>1, <2>3, <2>4, <2>5, QuietKeeps
<1>5. ASSUME NEW h \in Handlers, Fail(h)
      PROVE  FALSE
  BY <1>5 DEF Fail
<1>6. CASE UNCHANGED vars
  <2>1. Orderly
    BY <1>6 DEF Tidy, vars, history
  <2>2. Busy' = Busy /\ \A h, l : Ahead(h, l)' <=> Ahead(h, l)
    BY <1>6 DEF vars, handler, Busy, Ahead, Scanning
  <2>3. \A l : (Missing(l))' = Missing(l)
    BY <1>6, <2>2 DEF vars, rows, evidence, Missing, MissedSince
  <2>4. \A l \in Listings : MissFit(l)'
    BY <1>6, <2>1, <2>2, <2>3 DEF vars, rows, evidence, handler, Orderly, MissFit, Agreed
  <2>5. Alone' /\ Distinct' /\ \A l \in Listings : RowFit(l)'
    BY <1>6, <2>1, <2>2 DEF vars, rows, evidence, Orderly, Alone, Distinct, RowFit, Shown
  <2>6. \A h \in Busy' : DirectFit(h)' /\ WorkerFit(h)' /\ HeldFit(h)'
    BY <1>6, <2>1, <2>2 DEF vars, rows, evidence, handler, Orderly, DirectFit, WorkerFit, HeldFit,
       Shown, Scanning
  <2> QED
    BY <2>4, <2>5, <2>6 DEF Orderly
<1> QED
  BY <1>1, <1>2, <1>3, <1>4, <1>5, <1>6 DEF Next

\* What holds while handlers neither overlap nor are cut short, holds of all such behaviours.
THEOREM OrderKept == Spec => []Tidy
BY InitTidy, StepTidy, Invariance, PTL DEF Spec

\* A listing comes to miss scans only that came after its last sighting and did not see it.
THEOREM MissesCounted == Spec => []MissesFollowSighting
<1>1. Tidy => MissesFollowSighting
  <2> SUFFICES ASSUME Orderly, Busy = {}, NEW l \in Listings, presence[l].observations > 0
               PROVE  LET missed == Cardinality(MissedSince(l, presence[l].lastSeen)) IN
                      /\ current[l].misses <= missed
                      /\ deliveries = plan.deliveries => current[l].misses = missed
    BY DEF Tidy, MissesFollowSighting
  <2>1. Agreed(l) /\ Missing(l) = MissedSince(l, presence[l].lastSeen)
    BY DEF Orderly, MissFit, Missing
  <2> QED
    BY <2>1 DEF Agreed
<1> QED
  BY <1>1, OrderKept, PTL
=============================================================================
