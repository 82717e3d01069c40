---------------------------- MODULE OutboxProofs ----------------------------
(***************************************************************************)
(* Proofs about Outbox, for any events, sinks, workers and bounds: the     *)
(* type invariant, the three safety invariants, and that the loops         *)
(* implement the abstract delivery.                                        *)
(*                                                                         *)
(* The invariant that carries them all is Sound: besides the three safety  *)
(* invariants it says what a worker in the middle of its loop knows of the *)
(* record in its hands.                                                    *)
(***************************************************************************)
EXTENDS Outbox, FiniteSetTheorems, TLAPS

USE DEF Manifested

\* What a worker knows of its batch and of the record it is handling.
Handling ==
  \A w \in Workers :
    /\ batch[w] \subseteq SinkRows(SinkOf[w])
    /\ \A r \in batch[w] : ~Absent(r)
    /\ pc[w] \in {"register", "apply", "deliver"} => cur[w] \in batch[w]
    /\ pc[w] = "deliver" => applied[cur[w]]
    /\ pc[w] \in {"note", "unregister", "fail", "failnote"} =>
         cur[w] \in SinkRows(SinkOf[w]) /\ ~Absent(cur[w])
    /\ pc[w] = "note" => delivered[cur[w]]
    /\ pc[w] \in {"unregister", "fail"} => cur[w] \in batch[w] \/ delivered[cur[w]]

\* A checkpoint that names a delivery names an event.
Named == \A s \in Sinks : checkpoint[s].got => checkpoint[s].event \in Events

\* While no lease has run out on its worker: what a worker holds is leased to it alone, and
\* is still to deliver.
Leased ==
  ~late => \A w \in Workers : \A r \in batch[w] : lease[r] > 0 /\ ~delivered[r]

Sound == TypeOK /\ Handling /\ Named /\ EffectBeforeReceipt /\ NeverStranded
               /\ LeaseExcludes /\ Leased

-----------------------------------------------------------------------------
\* There are finitely many rows, so ranks and outbox ids are numbers.
LEMMA RowsFinite == IsFiniteSet(Rows)
BY FS_Product, OutboxAssumption DEF Rows

\* The values of a function on finitely many arguments are finitely many.
LEMMA FiniteImage ==
  ASSUME NEW S, IsFiniteSet(S), NEW d
  PROVE  Cardinality({d[q] : q \in S}) \in Nat
<1> DEFINE T == {d[q] : q \in S}
           f == [q \in S |-> d[q]]
<1>1. f \in Surjection(S, T)
  BY DEF Surjection
<1>2. IsFiniteSet(T)
  <2> HIDE DEF T, f
  <2> QED  BY <1>1, FS_Surjection
<1> QED
  BY <1>2, FS_CardinalityType

\* Ranking due times gives due times.
LEMMA RankedType ==
  ASSUME NEW d \in [Rows -> Int], NEW R \in SUBSET Rows
  PROVE  Ranked(d, R) \in [Rows -> Int]
<1> DEFINE S(r) == {p \in R : p[2] = r[2] /\ d[p] \in (d[r] + 1) .. 0}
           N(r) == Cardinality({d[q] : q \in S(r)})
<1>1. ASSUME NEW r \in Rows
      PROVE  N(r) \in Nat
  <2>1. S(r) \in SUBSET Rows
    OBVIOUS
  <2>2. IsFiniteSet(S(r))
    BY <2>1, RowsFinite, FS_Subset
  <2> HIDE DEF S
  <2> QED
    BY <2>2, FiniteImage
<1>2. Ranked(d, R) = [r \in Rows |-> IF r \notin R THEN 0
                                     ELSE IF d[r] > 0 THEN d[r] ELSE -N(r)]
  BY DEF Ranked
<1> HIDE DEF N
<1>3. \A r \in Rows : (IF r \notin R THEN 0
                       ELSE IF d[r] > 0 THEN d[r] ELSE -N(r)) \in Int
  BY <1>1
<1> QED
  BY <1>2, <1>3

\* outbox ids count the rows of a sink.
LEMMA CountType ==
  ASSUME NEW S \in SUBSET Rows
  PROVE  Cardinality(S) \in Nat
BY RowsFinite, FS_Subset, FS_CardinalityType

\* What a checkpoint becomes: one that is told everything, ...
LEMMA NotesWrite ==
  ASSUME TypeOK, NEW w \in Workers
  PROVE  /\ Note(w) => checkpoint' = [checkpoint EXCEPT ![SinkOf[w]] =
                         [status |-> "running", event |-> cur[w][1], got |-> TRUE]]
         /\ FailNote(w) => checkpoint' = [checkpoint EXCEPT ![SinkOf[w]] =
                         [status |-> "failed", event |-> cur[w][1], got |-> FALSE]]
<1> DEFINE Keys == {"status", "event", "got"}
<1>1. DOMAIN checkpoint[SinkOf[w]] = Keys
  BY OutboxAssumption DEF TypeOK
<1>2. ASSUME NEW told, told = [k \in Keys |-> told[k]]
      PROVE  Updated(SinkOf[w], told) = told
  BY <1>1, <1>2 DEF Updated
<1>3. /\ Updated(SinkOf[w], [status |-> "running", event |-> cur[w][1], got |-> TRUE])
           = [status |-> "running", event |-> cur[w][1], got |-> TRUE]
      /\ Updated(SinkOf[w], [status |-> "failed", event |-> cur[w][1], got |-> FALSE])
           = [status |-> "failed", event |-> cur[w][1], got |-> FALSE]
  BY <1>2
<1> QED
  BY <1>3 DEF Note, FailNote, Checkpointed

\* ... and one that is told its status.
LEMMA IdleWrites ==
  ASSUME TypeOK, NEW w \in Workers, ClaimNothing(w)
  PROVE  checkpoint' = [checkpoint EXCEPT ![SinkOf[w]] =
                          [status |-> "idle", event |-> checkpoint[SinkOf[w]].event,
                           got |-> checkpoint[SinkOf[w]].got]]
<1>1. checkpoint[SinkOf[w]] \in [status : {"none", "idle", "running", "failed"},
                                 event : Events \cup {None}, got : BOOLEAN]
  BY OutboxAssumption DEF TypeOK
<1>2. Updated(SinkOf[w], [status |-> "idle"]) =
        [status |-> "idle", event |-> checkpoint[SinkOf[w]].event,
         got |-> checkpoint[SinkOf[w]].got]
  BY <1>1 DEF Updated
<1> QED
  BY <1>2 DEF ClaimNothing, Checkpointed

-----------------------------------------------------------------------------
\* The first states satisfy the invariant.
LEMMA InitSound == Init => Sound
<1> SUFFICES ASSUME Init PROVE Sound
  OBVIOUS
<1> USE OutboxAssumption DEF Init
<1>1. TypeOK
  <2>1. lease \in [Rows -> NoLease .. LeaseTicks] /\ faults \in 0 .. MaxFaults
    BY DEF NoLease
  <2>2. checkpoint \in [Sinks -> [status : {"none", "idle", "running", "failed"},
                                  event : Events \cup {None}, got : BOOLEAN]]
    OBVIOUS
  <2>3. /\ oid \in [Rows -> Nat] /\ due \in [Rows -> Int]
        /\ status \in [Rows -> Statuses] /\ pc \in [Workers -> Stages]
        /\ batch \in [Workers -> SUBSET Rows]
    BY DEF Statuses, Stages
  <2> QED
    BY <2>1, <2>2, <2>3 DEF TypeOK
<1>2. Handling
  BY DEF Handling
<1>3. Named /\ EffectBeforeReceipt
  BY DEF Named, EffectBeforeReceipt
<1>4. NeverStranded
  BY DEF NeverStranded, Absent
<1>5. LeaseExcludes /\ Leased
  BY DEF LeaseExcludes, Leased
<1> QED
  BY <1>1, <1>2, <1>3, <1>4, <1>5 DEF Sound

\* Every step keeps the types.
LEMMA TypeStep == Sound /\ [Next]_vars => TypeOK'
<1> SUFFICES ASSUME Sound, [Next]_vars PROVE TypeOK'
  OBVIOUS
<1>n. \A w \in Workers :
        /\ Note(w) => checkpoint' = [checkpoint EXCEPT ![SinkOf[w]] =
                        [status |-> "running", event |-> cur[w][1], got |-> TRUE]]
        /\ FailNote(w) => checkpoint' = [checkpoint EXCEPT ![SinkOf[w]] =
                        [status |-> "failed", event |-> cur[w][1], got |-> FALSE]]
        /\ ClaimNothing(w) => checkpoint' = [checkpoint EXCEPT ![SinkOf[w]] =
                        [status |-> "idle", event |-> checkpoint[SinkOf[w]].event,
                         got |-> checkpoint[SinkOf[w]].got]]
  BY NotesWrite, IdleWrites DEF Sound
<1> USE OutboxAssumption DEF TypeOK, Statuses, Stages, NoLease, table, worker
<1>0. TypeOK /\ Handling
  BY DEF Sound
<1>a. ASSUME NEW w \in Workers, NEW r \in SinkRows(SinkOf[w])
      PROVE  r \in Rows /\ r[1] \in Events /\ SinkOf[w] \in Sinks
  BY DEF SinkRows, Rows
<1>b. Open \in SUBSET Rows
  BY DEF Open
<1>c. -1 \in NoLease .. LeaseTicks
  OBVIOUS
<1>1. ASSUME NEW e \in Events, NEW targets \in SUBSET Sinks, Publish(e, targets)
      PROVE  TypeOK'
  <2> DEFINE fresh == {r \in {e} \X targets : Absent(r)}
  <2>1. fresh \in SUBSET Rows
    BY DEF Rows
  <2>2. oid' \in [Rows -> Nat]
    <3>1. ASSUME NEW r \in Rows
          PROVE  1 + Cardinality({q \in SinkRows(r[2]) : ~Absent(q)}) \in Nat
      <4>1. {q \in SinkRows(r[2]) : ~Absent(q)} \in SUBSET Rows
        BY DEF SinkRows
      <4> QED
        BY <4>1, CountType
    <3> QED
      BY <1>0, <1>1, <3>1 DEF Publish
  <2>3. due' \in [Rows -> Int]
    <3>1. PICK age \in 0 .. Cardinality(Events) :
            due' = Ranked([r \in Rows |-> IF r \in fresh THEN -age ELSE due[r]],
                          Open \cup fresh)
      BY <1>1 DEF Publish
    <3>2. [r \in Rows |-> IF r \in fresh THEN -age ELSE due[r]] \in [Rows -> Int]
      BY <1>0, FS_CardinalityType
    <3>3. Open \cup fresh \in SUBSET Rows
      BY <2>1, <1>b
    <3> HIDE DEF fresh
    <3> QED
      BY <3>1, <3>2, <3>3, RankedType
  <2> QED
    BY <1>0, <1>1, <2>2, <2>3 DEF Publish
<1>2. ASSUME NEW w \in Workers, Work(w) \/ Raise(w) \/ Abandon(w)
      PROVE  TypeOK'
  <2> USE <1>0 DEF Goes
  <2>1. CASE Claim(w)
    <3>1. PICK R \in SUBSET SinkRows(SinkOf[w]) :
            /\ status' = [r \in Rows |-> IF r \in R THEN "processing" ELSE status[r]]
            /\ lease' = [r \in Rows |-> IF r \in R THEN LeaseUntil ELSE lease[r]]
            /\ owner' = [r \in Rows |-> IF r \in R THEN w ELSE owner[r]]
            /\ batch' = [batch EXCEPT ![w] = R]
      BY <2>1 DEF Claim
    <3>2. R \in SUBSET Rows
      BY DEF SinkRows
    <3> QED
      BY <2>1, <3>1, <3>2 DEF Claim, LeaseUntil
  <2>2. CASE ClaimNothing(w)
    <3>1. /\ checkpoint' = [checkpoint EXCEPT ![SinkOf[w]] =
                              [status |-> "idle", event |-> checkpoint[SinkOf[w]].event,
                         got |-> checkpoint[SinkOf[w]].got]]
          /\ UNCHANGED <<table, manifest, worker, applied, late, faults>>
      BY <2>2, <1>n DEF ClaimNothing
    <3>2. checkpoint' \in [Sinks -> [status : {"none", "idle", "running", "failed"},
                                     event : Events \cup {None}, got : BOOLEAN]]
      BY <3>1
    <3> QED
      BY <3>1, <3>2
  <2>3. CASE Take(w)
    BY <2>3 DEF Take
  <2>4. CASE Register(w)
    BY <2>4 DEF Register
  <2>5. CASE Apply(w)
    BY <2>5 DEF Apply
  <2>6. CASE RaisePoison(w) \/ Raise(w)
    <3>1. pc' \in [Workers -> Stages]
      BY <2>6 DEF RaisePoison, Raise, Handles
    <3>2. faults' \in 0 .. MaxFaults
      BY <2>6 DEF RaisePoison, Raise, Handles
    <3>3. UNCHANGED <<table, manifest, checkpoint, batch, cur, applied, late>>
      BY <2>6 DEF RaisePoison, Raise, Handles
    <3> QED
      BY <3>1, <3>2, <3>3
  <2>7. CASE MarkDelivered(w)
    <3>1. batch' \in [Workers -> SUBSET Rows] /\ pc' \in [Workers -> Stages]
      <4>1. batch' = [batch EXCEPT ![w] = batch[w] \ {cur[w]}] /\ pc' = [pc EXCEPT ![w] = "note"]
        BY <2>7 DEF MarkDelivered
      <4> QED
        BY <4>1
    <3>2. lease' \in [Rows -> NoLease .. LeaseTicks] /\ delivered' \in [Rows -> BOOLEAN]
      BY <2>7, <1>c DEF MarkDelivered
    <3>3. status' \in [Rows -> Statuses] /\ owner' \in [Rows -> Workers \cup {None}]
      BY <2>7 DEF MarkDelivered
    <3> QED
      BY <2>7, <3>1, <3>2, <3>3 DEF MarkDelivered
  <2>8. CASE Note(w)
    <3>1. cur[w][1] \in Events /\ SinkOf[w] \in Sinks
      BY <2>8, <1>a DEF Note, Handling
    <3>a. checkpoint' = [checkpoint EXCEPT ![SinkOf[w]] =
                           [status |-> "running", event |-> cur[w][1], got |-> TRUE]]
      BY <2>8, <1>n
    <3>2. checkpoint' \in [Sinks -> [status : {"none", "idle", "running", "failed"},
                                     event : Events \cup {None}, got : BOOLEAN]]
      BY <3>1, <3>a
    <3>3. /\ pc' \in [Workers -> Stages] /\ batch' \in [Workers -> SUBSET Rows]
          /\ cur' \in [Workers -> Rows \cup {None}]
      <4>1. CASE Leaves(w)
        BY <4>1 DEF Leaves
      <4>2. CASE Goes(w, "take") /\ UNCHANGED <<batch, cur>>
        BY <4>2
      <4> QED
        BY <2>8, <4>1, <4>2 DEF Note
    <3> QED
      BY <2>8, <3>2, <3>3 DEF Note
  <2>9. CASE Unregister(w)
    BY <2>9 DEF Unregister
  <2>10. CASE MarkFailed(w)
    <3>1. PICK delay \in RetryDelays(w) : due' = Postponed(cur[w], delay)
      BY <2>10 DEF MarkFailed
    <3>2. delay \in Int
      BY <3>1 DEF RetryDelays
    <3>3. [r \in Rows |-> IF r = cur[w] THEN delay
                          ELSE IF due[r] <= 0 THEN due[r] - 1 ELSE due[r]] \in [Rows -> Int]
      BY <3>2
    <3>4. due' \in [Rows -> Int]
      BY <3>1, <3>3, <1>b, RankedType DEF Postponed
    <3>5. batch' \in [Workers -> SUBSET Rows] /\ pc' \in [Workers -> Stages]
      <4>1. batch' = [batch EXCEPT ![w] = batch[w] \ {cur[w]}]
            /\ pc' = [pc EXCEPT ![w] = "failnote"]
        BY <2>10 DEF MarkFailed
      <4> QED
        BY <4>1
    <3>6. /\ lease' \in [Rows -> NoLease .. LeaseTicks] /\ status' \in [Rows -> Statuses]
          /\ owner' \in [Rows -> Workers \cup {None}]
      BY <2>10, <1>c DEF MarkFailed
    <3> QED
      BY <2>10, <3>4, <3>5, <3>6 DEF MarkFailed
  <2>11. CASE FailNote(w)
    <3>1. cur[w][1] \in Events /\ SinkOf[w] \in Sinks
      BY <2>11, <1>a DEF FailNote, Handling
    <3>a. checkpoint' = [checkpoint EXCEPT ![SinkOf[w]] =
                           [status |-> "failed", event |-> cur[w][1], got |-> FALSE]]
      BY <2>11, <1>n
    <3>2. checkpoint' \in [Sinks -> [status : {"none", "idle", "running", "failed"},
                                     event : Events \cup {None}, got : BOOLEAN]]
      BY <3>1, <3>a
    <3> QED
      BY <2>11, <3>2 DEF FailNote, Leaves
  <2>12. CASE Abandon(w)
    BY <2>12 DEF Abandon, Leaves
  <2> QED
    BY <1>2, <2>1, <2>2, <2>3, <2>4, <2>5, <2>6, <2>7, <2>8, <2>9, <2>10, <2>11, <2>12
    DEF Work
<1>3. CASE Tick
  <2>1. [r \in Rows |-> due[r] - 1] \in [Rows -> Int]
    BY <1>0
  <2>2. due' \in [Rows -> Int]
    BY <1>3, <2>1, <1>b, RankedType DEF Tick
  <2> QED
    BY <1>0, <1>3, <2>2 DEF Tick
<1>4. CASE UNCHANGED vars
  BY <1>0, <1>4 DEF vars
<1> QED
  BY <1>1, <1>2, <1>3, <1>4 DEF Next

-----------------------------------------------------------------------------
\* What has come about stays: a row once inserted, a receipt once written, an effect.
LEMMA Persists ==
  ASSUME Sound, [Next]_vars, NEW r \in Rows
  PROVE  /\ ~Absent(r) => ~Absent(r)'
         /\ delivered[r] => delivered'[r]
         /\ applied[r] => applied'[r]
<1> USE DEF TypeOK, Absent, table, worker
<1>0. TypeOK
  BY DEF Sound
<1>1. ASSUME NEW e \in Events, NEW targets \in SUBSET Sinks, Publish(e, targets)
      PROVE  /\ ~Absent(r) => ~Absent(r)'
             /\ UNCHANGED <<delivered, applied>>
  BY <1>0, <1>1 DEF Publish
<1>2. ASSUME NEW w \in Workers, Work(w) \/ Raise(w) \/ Abandon(w)
      PROVE  /\ ~Absent(r) => ~Absent(r)'
             /\ delivered[r] => delivered'[r]
             /\ applied[r] => applied'[r]
  <2>1. CASE Claim(w)
    BY <1>0, <2>1 DEF Claim
  <2>2. CASE Apply(w)
    BY <1>0, <2>2 DEF Apply
  <2>3. CASE MarkDelivered(w)
    BY <1>0, <2>3 DEF MarkDelivered
  <2>4. CASE MarkFailed(w)
    BY <1>0, <2>4 DEF MarkFailed
  <2>5. CASE ClaimNothing(w) \/ Take(w) \/ Register(w) \/ Note(w) \/ Unregister(w) \/ FailNote(w)
    BY <2>5 DEF ClaimNothing, Take, Register, Note, Unregister, FailNote
  <2>6. CASE RaisePoison(w) \/ Raise(w) \/ Abandon(w)
    BY <2>6 DEF RaisePoison, Raise, Abandon, Handles
  <2> QED
    BY <1>2, <2>1, <2>2, <2>3, <2>4, <2>5, <2>6 DEF Work
<1>3. CASE Tick
  BY <1>3 DEF Tick
<1>4. CASE UNCHANGED vars
  BY <1>4 DEF vars
<1> QED
  BY <1>1, <1>2, <1>3, <1>4 DEF Next

\* A worker's step changes what that worker knows, and no other's.
LEMMA HandlingStep == Sound /\ [Next]_vars => Handling'
<1> SUFFICES ASSUME Sound, [Next]_vars, NEW v \in Workers
             PROVE  (/\ batch[v] \subseteq SinkRows(SinkOf[v])
                     /\ \A r \in batch[v] : ~Absent(r)
                     /\ pc[v] \in {"register", "apply", "deliver"} => cur[v] \in batch[v]
                     /\ pc[v] = "deliver" => applied[cur[v]]
                     /\ pc[v] \in {"note", "unregister", "fail", "failnote"} =>
                          cur[v] \in SinkRows(SinkOf[v]) /\ ~Absent(cur[v])
                     /\ pc[v] = "note" => delivered[cur[v]]
                     /\ pc[v] \in {"unregister", "fail"} =>
                          cur[v] \in batch[v] \/ delivered[cur[v]])'
  BY DEF Handling
<1>0. TypeOK /\ Handling
  BY DEF Sound
<1>a. SinkRows(SinkOf[v]) \subseteq Rows
  BY DEF SinkRows
<1>b. \A r \in Rows : /\ ~Absent(r) => ~Absent(r)'
                      /\ delivered[r] => delivered'[r]
                      /\ applied[r] => applied'[r]
  BY Persists
<1> USE <1>0, <1>a, <1>b DEF worker, TypeOK, Handling
<1>1. CASE UNCHANGED <<pc[v], batch[v], cur[v]>>
  BY <1>1 DEF SinkRows
<1>2. ASSUME NEW w \in Workers, w # v, Work(w) \/ Raise(w) \/ Abandon(w)
      PROVE  UNCHANGED <<pc[v], batch[v], cur[v]>>
  BY <1>2 DEF Work, Claim, ClaimNothing, Take, Register, Apply, RaisePoison, MarkDelivered,
              Note, Unregister, MarkFailed, FailNote, Raise, Abandon, Handles, Leaves, Goes
<1>3. CASE Claim(v)
  <2>1. PICK R \in SUBSET SinkRows(SinkOf[v]) :
          Claims(SinkOf[v], R) /\ batch' = [batch EXCEPT ![v] = R]
    BY <1>3 DEF Claim
  <2>2. \A r \in R : ~Absent(r)
    BY <2>1 DEF Claims, Claimable
  <2> QED
    BY <1>3, <2>1, <2>2 DEF Claim, Goes, SinkRows
<1>4. CASE Take(v)
  <2>1. pc'[v] \in {"register", "apply"} /\ cur'[v] \in batch[v] /\ batch' = batch
    BY <1>4 DEF Take, Goes
  <2> QED
    BY <2>1 DEF SinkRows
<1>5. CASE Register(v) \/ ClaimNothing(v)
  BY <1>5 DEF Register, ClaimNothing, Goes, SinkRows
<1>6. CASE Apply(v)
  BY <1>6 DEF Apply, Goes, SinkRows
<1>7. CASE RaisePoison(v) \/ Raise(v)
  <2>1. /\ pc[v] \in {"apply", "deliver", "note"} /\ pc'[v] \in {"unregister", "fail"}
        /\ batch' = batch /\ cur' = cur
    BY <1>7 DEF RaisePoison, Raise, Handles, Goes
  <2> QED
    BY <2>1 DEF SinkRows
<1>8. CASE MarkDelivered(v)
  <2>1. /\ pc'[v] = "note" /\ batch'[v] = batch[v] \ {cur[v]} /\ cur' = cur
        /\ cur[v] \in batch[v] /\ delivered'[cur[v]]
    BY <1>8 DEF MarkDelivered, Goes
  <2> QED
    BY <2>1 DEF SinkRows
<1>9. CASE Note(v) \/ FailNote(v) \/ Abandon(v)
  <2>1. pc'[v] \in {"idle", "take"} /\ batch'[v] \subseteq batch[v]
    BY <1>9 DEF Note, FailNote, Abandon, Leaves, Goes
  <2> QED
    BY <2>1 DEF SinkRows
<1>10. CASE Unregister(v)
  BY <1>10 DEF Unregister, Goes, SinkRows
<1>11. CASE MarkFailed(v)
  <2>1. /\ pc'[v] = "failnote" /\ batch'[v] = batch[v] \ {cur[v]} /\ cur' = cur
    BY <1>11 DEF MarkFailed, Goes
  <2> QED
    BY <1>11, <2>1 DEF MarkFailed, SinkRows
<1>12. ASSUME NEW e \in Events, NEW targets \in SUBSET Sinks, Publish(e, targets)
       PROVE  UNCHANGED <<pc[v], batch[v], cur[v]>>
  BY <1>12 DEF Publish
<1>13. Tick \/ UNCHANGED vars => UNCHANGED <<pc[v], batch[v], cur[v]>>
  BY DEF Tick, vars
<1> QED
  BY <1>1, <1>2, <1>3, <1>4, <1>5, <1>6, <1>7, <1>8, <1>9, <1>10, <1>11, <1>12, <1>13
  DEF Next, Work

-----------------------------------------------------------------------------
\* Effects come before receipts.  A receipt is written for the record in hand at "deliver",
\* which Handling says has been applied; a checkpoint for the one at "note", delivered.
LEMMA ReceiptStep == Sound /\ [Next]_vars => EffectBeforeReceipt' /\ Named'
<1> SUFFICES ASSUME Sound, [Next]_vars
             PROVE  /\ \A r \in Rows : (delivered[r] \/ manifest[r] = "projected" => applied[r])'
                    /\ \A s \in Sinks : (checkpoint[s].got =>
                          /\ checkpoint[s].event \in Events
                          /\ delivered[<<checkpoint[s].event, s>>])'
  BY DEF EffectBeforeReceipt, Named
<1>0. TypeOK /\ Handling /\ EffectBeforeReceipt /\ Named
  BY DEF Sound
<1>n. \A w \in Workers :
        /\ Note(w) => checkpoint' = [checkpoint EXCEPT ![SinkOf[w]] =
                        [status |-> "running", event |-> cur[w][1], got |-> TRUE]]
        /\ FailNote(w) => checkpoint' = [checkpoint EXCEPT ![SinkOf[w]] =
                        [status |-> "failed", event |-> cur[w][1], got |-> FALSE]]
        /\ ClaimNothing(w) => checkpoint' = [checkpoint EXCEPT ![SinkOf[w]] =
                        [status |-> "idle", event |-> checkpoint[SinkOf[w]].event,
                         got |-> checkpoint[SinkOf[w]].got]]
  BY <1>0, NotesWrite, IdleWrites
<1>a. \A r \in Rows : /\ delivered[r] => delivered'[r]
                      /\ applied[r] => applied'[r]
  BY Persists
<1>b. ASSUME NEW e \in Events, NEW s \in Sinks PROVE <<e, s>> \in Rows
  BY DEF Rows
<1>c. ASSUME NEW w \in Workers, NEW r \in SinkRows(SinkOf[w])
      PROVE  r \in Rows /\ SinkOf[w] \in Sinks /\ r[1] \in Events /\ r = <<r[1], SinkOf[w]>>
  BY OutboxAssumption DEF SinkRows, Rows
<1> USE <1>0, <1>a DEF TypeOK, EffectBeforeReceipt, Named, table, worker
<1>1. CASE UNCHANGED <<delivered, manifest, checkpoint>>
  BY <1>1, <1>b
<1>2. ASSUME NEW w \in Workers, ClaimNothing(w) \/ FailNote(w)
      PROVE  /\ UNCHANGED <<delivered, manifest, applied>>
             /\ \A s \in Sinks : checkpoint'[s].got =>
                  checkpoint[s].got /\ checkpoint'[s].event = checkpoint[s].event
  <2>1. CASE ClaimNothing(w)
    <3>1. checkpoint' = [checkpoint EXCEPT ![SinkOf[w]] =
                        [status |-> "idle", event |-> checkpoint[SinkOf[w]].event,
                         got |-> checkpoint[SinkOf[w]].got]]
      BY <2>1, <1>n
    <3>2. UNCHANGED <<delivered, manifest, applied>>
      BY <2>1 DEF ClaimNothing
    <3> QED
      BY <3>1, <3>2
  <2>2. CASE FailNote(w)
    <3>1. checkpoint' = [checkpoint EXCEPT ![SinkOf[w]] =
                        [status |-> "failed", event |-> cur[w][1], got |-> FALSE]]
      BY <2>2, <1>n
    <3>2. UNCHANGED <<delivered, manifest, applied>>
      BY <2>2 DEF FailNote
    <3> QED
      BY <3>1, <3>2
  <2> QED
    BY <1>2, <2>1, <2>2
<1>3. ASSUME NEW w \in Workers, Register(w) \/ Unregister(w)
      PROVE  /\ UNCHANGED <<delivered, checkpoint, applied>>
             /\ \A r \in Rows : manifest'[r] = "projected" => manifest[r] = "projected"
  BY <1>3 DEF Register, Unregister
<1>4. ASSUME NEW w \in Workers, Apply(w)
      PROVE  /\ UNCHANGED <<delivered, checkpoint>>
             /\ \A r \in Rows : manifest'[r] = "projected" =>
                  manifest[r] = "projected" \/ applied'[r]
  BY <1>4 DEF Apply
<1>5. ASSUME NEW w \in Workers, MarkDelivered(w)
      PROVE  /\ UNCHANGED <<manifest, checkpoint, applied>>
             /\ \A r \in Rows : delivered'[r] => delivered[r] \/ applied[r]
  BY <1>5 DEF MarkDelivered, Handling
<1>6. ASSUME NEW w \in Workers, Note(w)
      PROVE  /\ UNCHANGED <<delivered, manifest, applied>>
             /\ \A s \in Sinks : checkpoint'[s].got =>
                  \/ checkpoint'[s] = checkpoint[s]
                  \/ /\ checkpoint'[s].event \in Events
                     /\ delivered[<<checkpoint'[s].event, s>>]
  <2>1. cur[w] \in SinkRows(SinkOf[w]) /\ delivered[cur[w]]
    BY <1>6 DEF Note, Handling
  <2>2. checkpoint' = [checkpoint EXCEPT ![SinkOf[w]] =
                         [status |-> "running", event |-> cur[w][1], got |-> TRUE]]
    BY <1>6, <1>n
  <2>3. /\ SinkOf[w] \in Sinks /\ cur[w][1] \in Events
        /\ delivered[<<cur[w][1], SinkOf[w]>>]
    BY <2>1, <1>c
  <2>4. ASSUME NEW s \in Sinks
        PROVE  \/ checkpoint'[s] = checkpoint[s]
               \/ /\ checkpoint'[s].event \in Events
                  /\ delivered[<<checkpoint'[s].event, s>>]
    <3>1. CASE s = SinkOf[w]
      <4>1. checkpoint'[s] = [status |-> "running", event |-> cur[w][1], got |-> TRUE]
        BY <2>2, <3>1
      <4>2. checkpoint'[s].event = cur[w][1]
        BY <4>1
      <4> QED
        BY <2>3, <3>1, <4>2
    <3>2. CASE s # SinkOf[w]
      BY <2>2, <3>2
    <3> QED
      BY <3>1, <3>2
  <2> QED
    BY <1>6, <2>4 DEF Note
<1>7. ASSUME NEW w \in Workers,
             \/ Claim(w) \/ Take(w) \/ RaisePoison(w) \/ MarkFailed(w) \/ Raise(w) \/ Abandon(w)
      PROVE  UNCHANGED <<delivered, manifest, checkpoint>>
  BY <1>7 DEF Claim, Take, RaisePoison, MarkFailed, Raise, Abandon, Handles
<1>8. ASSUME NEW e \in Events, NEW targets \in SUBSET Sinks, Publish(e, targets)
      PROVE  UNCHANGED <<delivered, manifest, checkpoint>>
  BY <1>8 DEF Publish
<1>9. Tick \/ UNCHANGED vars => UNCHANGED <<delivered, manifest, checkpoint>>
  BY DEF Tick, vars
<1>10. ASSUME NEW w \in Workers, Work(w) \/ Raise(w) \/ Abandon(w)
       PROVE  /\ \A r \in Rows : (delivered[r] \/ manifest[r] = "projected" => applied[r])'
              /\ \A s \in Sinks : (checkpoint[s].got =>
                    /\ checkpoint[s].event \in Events
                    /\ delivered[<<checkpoint[s].event, s>>])'
  <2>1. CASE ClaimNothing(w) \/ FailNote(w)
    BY <2>1, <1>2
  <2>2. CASE Register(w) \/ Unregister(w)
    BY <2>2, <1>3
  <2>3. CASE Apply(w)
    BY <2>3, <1>4
  <2>4. CASE MarkDelivered(w)
    BY <2>4, <1>5, <1>b
  <2>5. CASE Note(w)
    BY <2>5, <1>6
  <2>6. CASE UNCHANGED <<delivered, manifest, checkpoint>>
    BY <2>6, <1>1
  <2> QED
    BY <1>10, <1>7, <2>1, <2>2, <2>3, <2>4, <2>5, <2>6 DEF Work
<1> QED
  BY <1>1, <1>8, <1>9, <1>10 DEF Next

\* No row gets stuck: only the claim sets "processing", with a lease, and only a receipt
\* ends in "delivered".
LEMMA StrandedStep == Sound /\ [Next]_vars => NeverStranded'
<1> SUFFICES ASSUME Sound, [Next]_vars, NEW r \in Rows, ~Absent(r)', ~delivered'[r]
             PROVE  (\/ status[r] \in {"pending", "failed"}
                     \/ status[r] = "processing" /\ lease[r] # NoLease)'
  BY DEF NeverStranded
<1>0. TypeOK /\ NeverStranded
  BY DEF Sound
<1>a. ~delivered[r]
  BY Persists
<1> USE OutboxAssumption, <1>0, <1>a DEF TypeOK, NeverStranded, Absent, NoLease, table, worker
<1>1. CASE UNCHANGED <<status, lease>>
  BY <1>1
<1>2. ASSUME NEW e \in Events, NEW targets \in SUBSET Sinks, Publish(e, targets)
      PROVE  lease' = lease /\ (status'[r] = "pending" \/ status'[r] = status[r])
  BY <1>2 DEF Publish
<1>3. ASSUME NEW w \in Workers, Claim(w)
      PROVE  \/ status'[r] = "processing" /\ lease'[r] = LeaseUntil
             \/ status'[r] = status[r] /\ lease'[r] = lease[r]
  BY <1>3 DEF Claim
<1>4. ASSUME NEW w \in Workers, MarkDelivered(w)
      PROVE  status'[r] = status[r] /\ lease'[r] = lease[r]
  BY <1>4 DEF MarkDelivered
<1>5. ASSUME NEW w \in Workers, MarkFailed(w)
      PROVE  \/ status'[r] = "failed"
             \/ status'[r] = status[r] /\ lease'[r] = lease[r]
  BY <1>5 DEF MarkFailed
<1>6. ASSUME NEW w \in Workers,
             \/ ClaimNothing(w) \/ Take(w) \/ Register(w) \/ Apply(w) \/ RaisePoison(w) \/ Note(w)
             \/ Unregister(w) \/ FailNote(w) \/ Raise(w) \/ Abandon(w)
      PROVE  UNCHANGED <<status, lease>>
  BY <1>6 DEF ClaimNothing, Take, Register, Apply, RaisePoison, Note, Unregister, FailNote,
              Raise, Abandon, Handles
<1>7. Tick => status' = status /\ (lease[r] > 0 => lease'[r] = lease[r] - 1)
                               /\ (~(lease[r] > 0) => lease'[r] = lease[r])
  BY DEF Tick
<1>8. LeaseUntil \in Nat
  BY DEF LeaseUntil
<1>9. ASSUME NEW w \in Workers, Work(w) \/ Raise(w) \/ Abandon(w)
      PROVE  \/ status'[r] \in {"pending", "failed"}
             \/ status'[r] = "processing" /\ lease'[r] # NoLease
  BY <1>9, <1>1, <1>3, <1>4, <1>5, <1>6, <1>8 DEF Work
<1>10. CASE Tick
  BY <1>10, <1>7
<1>11. CASE UNCHANGED vars
  BY <1>11, <1>1 DEF vars
<1>12. ASSUME NEW e \in Events, NEW targets \in SUBSET Sinks, Publish(e, targets)
       PROVE  \/ status'[r] \in {"pending", "failed"}
              \/ status'[r] = "processing" /\ lease'[r] # NoLease
  BY <1>12, <1>2
<1> QED
  BY <1>9, <1>10, <1>11, <1>12 DEF Next

\* Leases keep two workers off one record, until a lease runs out on its worker (late).
LEMMA LeaseStep == Sound /\ [Next]_vars => LeaseExcludes' /\ Leased'
<1> SUFFICES ASSUME Sound, [Next]_vars, ~late',
                    NEW w \in Workers, NEW r \in batch'[w]
             PROVE  /\ \A u \in Workers \ {w} : r \notin batch'[u]
                    /\ owner'[r] = w /\ status'[r] = "processing"
                    /\ lease'[r] > 0 /\ ~delivered'[r]
  BY DEF LeaseExcludes, Leased
<1> DEFINE Held == /\ \A u \in Workers \ {w} : r \notin batch'[u]
                   /\ owner'[r] = w /\ status'[r] = "processing"
                   /\ lease'[r] > 0 /\ ~delivered'[r]
<1>0. TypeOK /\ TypeOK' /\ Handling /\ Handling' /\ LeaseExcludes /\ Leased
  BY TypeStep, HandlingStep DEF Sound
<1>a. r \in Rows
  BY <1>0 DEF TypeOK
<1>b. ~late
  BY DEF Next, Publish, Work, Claim, ClaimNothing, Take, Register, Apply, RaisePoison,
         MarkDelivered, Note, Unregister, MarkFailed, FailNote, Raise, Abandon, Handles, Tick,
         vars
<1>c. \A u \in Workers : \A q \in batch[u] :
        /\ q \in Rows /\ lease[q] > 0 /\ ~delivered[q] /\ owner[q] = u
        /\ status[q] = "processing"
        /\ \A v \in Workers \ {u} : q \notin batch[v]
  BY <1>0, <1>b DEF LeaseExcludes, Leased, TypeOK
<1> USE <1>a, <1>c DEF table, worker
<1>1. CASE /\ \A u \in Workers : batch'[u] \subseteq batch[u]
           /\ UNCHANGED <<owner, status, lease, delivered>>
  BY <1>1
<1>2. ASSUME NEW e \in Events, NEW targets \in SUBSET Sinks, Publish(e, targets)
      PROVE  Held
  BY <1>2, <1>0 DEF Publish, Absent, TypeOK
<1>3. ASSUME NEW v \in Workers, Claim(v)
      PROVE  Held
  <2>1. PICK R \in SUBSET SinkRows(SinkOf[v]) :
          /\ Claims(SinkOf[v], R)
          /\ status' = [q \in Rows |-> IF q \in R THEN "processing" ELSE status[q]]
          /\ lease' = [q \in Rows |-> IF q \in R THEN LeaseUntil ELSE lease[q]]
          /\ owner' = [q \in Rows |-> IF q \in R THEN v ELSE owner[q]]
          /\ batch' = [batch EXCEPT ![v] = R]
          /\ delivered' = delivered
    BY <1>3 DEF Claim
  <2>2. \A q \in R : ~delivered[q] /\ \A u \in Workers : q \notin batch[u]
    <3> SUFFICES ASSUME NEW q \in R, NEW u \in Workers, q \in batch[u]
                 PROVE  FALSE
      BY <2>1 DEF Claims, Claimable
    <3>1. Claimable(q)
      BY <2>1 DEF Claims
    <3>2. lease[q] > 0 /\ status[q] = "processing" /\ lease[q] \in Int
      BY <1>0 DEF TypeOK
    <3> QED
      BY <3>1, <3>2 DEF Claimable
  <2>3. batch'[v] = R /\ \A u \in Workers \ {v} : batch'[u] = batch[u]
    BY <2>1, <1>0 DEF TypeOK
  <2>4. LeaseUntil > 0
    BY OutboxAssumption DEF LeaseUntil
  <2>5. CASE w = v
    BY <2>1, <2>2, <2>3, <2>4, <2>5
  <2>6. CASE w # v
    BY <2>1, <2>2, <2>3, <2>6
  <2> QED
    BY <2>5, <2>6
<1>4. ASSUME NEW v \in Workers, MarkDelivered(v) \/ MarkFailed(v)
      PROVE  Held
  <2>1. cur[v] \in batch[v] \/ delivered[cur[v]]
    BY <1>0, <1>4 DEF MarkDelivered, MarkFailed, Handling
  <2>2. batch' = [batch EXCEPT ![v] = batch[v] \ {cur[v]}]
    BY <1>4 DEF MarkDelivered, MarkFailed
  <2>3. \A u \in Workers : batch'[u] \subseteq batch[u] /\ cur[v] \notin batch'[v]
    BY <2>2, <1>0 DEF TypeOK
  <2>4. r # cur[v]
    BY <2>1, <2>3
  <2>5. /\ owner'[r] = owner[r] /\ status'[r] = status[r]
        /\ lease'[r] = lease[r] /\ delivered'[r] = delivered[r]
    BY <2>4, <1>4, <1>0 DEF MarkDelivered, MarkFailed, TypeOK
  <2> QED
    BY <2>3, <2>5
<1>5. ASSUME NEW v \in Workers, Note(v) \/ FailNote(v) \/ Abandon(v)
      PROVE  Held
  <2>1. \A u \in Workers : batch'[u] \subseteq batch[u]
    BY <1>5, <1>0, SMTT(30) DEF Note, FailNote, Abandon, Leaves, TypeOK
  <2> QED
    BY <1>1, <1>5, <2>1 DEF Note, FailNote, Abandon
<1>6. ASSUME NEW v \in Workers,
             \/ ClaimNothing(v) \/ Take(v) \/ Register(v) \/ Apply(v) \/ RaisePoison(v)
             \/ Unregister(v) \/ Raise(v)
      PROVE  Held
  BY <1>1, <1>6 DEF ClaimNothing, Take, Register, Apply, RaisePoison, Unregister, Raise, Handles
<1>7. CASE Tick
  <2>1. r \in batch[w] /\ batch' = batch /\ UNCHANGED <<owner, status, delivered>>
    BY <1>7 DEF Tick
  <2>2. lease[r] # 1
    BY <1>7, <2>1 DEF Tick
  <2>3. lease'[r] = lease[r] - 1 /\ lease[r] \in Int
    BY <1>7, <2>1, <1>0 DEF Tick, TypeOK
  <2> QED
    BY <2>1, <2>2, <2>3
<1>8. CASE UNCHANGED vars
  BY <1>8, <1>1 DEF vars
<1> QED
  BY <1>2, <1>3, <1>4, <1>5, <1>6, <1>7, <1>8 DEF Next, Work

-----------------------------------------------------------------------------
\* Sound is inductive.
THEOREM Soundness == Spec => []Sound
<1>1. Sound /\ [Next]_vars => Sound'
  BY TypeStep, HandlingStep, ReceiptStep, StrandedStep, LeaseStep DEF Sound
<1> QED
  BY InitSound, <1>1, PTL DEF Spec

\* The outbox, its checkpoints and the workers' hands always have their types.
THEOREM TypeCorrect == Spec => []TypeOK
BY Soundness, PTL DEF Sound

\* However many workers, crashes and retries: no receipt ahead of its effect.
THEOREM ReceiptsAreEarned == Spec => []EffectBeforeReceipt
BY Soundness, PTL DEF Sound

\* No undelivered row is ever out of the claim's reach for good.
THEOREM NothingStranded == Spec => []NeverStranded
BY Soundness, PTL DEF Sound

\* Leases exclude parallel workers for as long as no batch outlives its lease.
THEOREM LeasesExclude == Spec => []LeaseExcludes
BY Soundness, PTL DEF Sound

-----------------------------------------------------------------------------
\* A receipt is final, and nothing claims the row again: only Claim adds to a batch, and
\* what it adds is not delivered.
LEMMA FinalStep ==
  ASSUME Sound, [Next]_vars, NEW r \in Rows, delivered[r]
  PROVE  /\ delivered'[r]
         /\ \A w \in Workers : r \in batch'[w] => r \in batch[w]
<1>1. delivered'[r]
  BY Persists
<1>2. ASSUME NEW v \in Workers, Claim(v), NEW w \in Workers, r \in batch'[w]
      PROVE  r \in batch[w]
  <2>1. PICK R \in SUBSET SinkRows(SinkOf[v]) :
          Claims(SinkOf[v], R) /\ batch' = [batch EXCEPT ![v] = R]
    BY <1>2 DEF Claim
  <2>2. r \notin R
    BY <2>1 DEF Claims, Claimable
  <2> QED
    BY <1>2, <2>1, <2>2 DEF Sound, TypeOK
<1>3. ASSUME NEW v \in Workers, Work(v) \/ Raise(v) \/ Abandon(v), ~Claim(v),
             NEW w \in Workers
      PROVE  batch'[w] \subseteq batch[w]
  BY <1>3 DEF Sound, TypeOK, Work, ClaimNothing, Take, Register, Apply, RaisePoison,
       MarkDelivered, Note, Unregister, MarkFailed, FailNote, Raise, Abandon, Handles, Leaves,
       worker
<1>4. ASSUME NEW e \in Events, NEW targets \in SUBSET Sinks, Publish(e, targets)
      PROVE  batch' = batch
  BY <1>4 DEF Publish, worker
<1>5. Tick \/ UNCHANGED vars => batch' = batch
  BY DEF Tick, vars, worker
<1> QED
  BY <1>1, <1>2, <1>3, <1>4, <1>5 DEF Next

\* Delivered rows stay delivered, and stay out of the consumers' hands.
THEOREM ReceiptsAreFinal == Spec => DeliveredIsFinal
<1>1. Sound /\ [Next]_vars =>
        [\A r \in Rows : delivered[r] =>
            /\ delivered'[r]
            /\ \A w \in Workers : r \in batch'[w] => r \in batch[w]]_<<delivered, batch>>
  BY FinalStep
<1> QED
  BY <1>1, Soundness, PTL DEF Spec, DeliveredIsFinal

-----------------------------------------------------------------------------
\* The steps of the table and of its consumers are steps of the abstract delivery, or leave
\* it alone.
LEMMA RefinementStep == Sound /\ [Next]_vars => [Abstract!DeliveryNext]_(Abstract!dvars)
<1> SUFFICES ASSUME Sound, [Next]_vars
             PROVE  Abstract!DeliveryNext \/ UNCHANGED Abstract!dvars
  OBVIOUS
<1> DEFINE done == {r \in Rows : delivered[r]}
           effects == {r \in Rows : applied[r]}
<1>0. TypeOK /\ Handling
  BY DEF Sound
<1> USE <1>0 DEF TypeOK, Absent, Open, Abstract!dvars, table, worker
<1>1. ASSUME NEW e \in Events, NEW targets \in SUBSET Sinks, Publish(e, targets)
      PROVE  Abstract!DeliveryNext
  <2>1. {e} \X targets \in SUBSET Rows
    BY DEF Rows
  <2>2. Open' = Open \cup (({e} \X targets) \ done)
    BY <1>1, <2>1 DEF Publish
  <2>3. UNCHANGED <<delivered, applied>>
    BY <1>1 DEF Publish
  <2>4. Abstract!Owe({e} \X targets)
    BY <2>2, <2>3 DEF Abstract!Owe
  <2> QED
    BY <2>1, <2>4 DEF Abstract!DeliveryNext
<1>2. ASSUME NEW w \in Workers, Apply(w)
      PROVE  Abstract!DeliveryNext
  <2>1. PICK r \in Rows : r = cur[w] /\ ~Absent(r)
    BY <1>2 DEF Apply, Handling, SinkRows
  <2>2. effects' = effects \cup {r}
    BY <1>2, <2>1 DEF Apply
  <2>3. UNCHANGED <<delivered, status>>
    BY <1>2 DEF Apply
  <2>4. Abstract!TakeEffect(r)
    BY <2>1, <2>2, <2>3 DEF Abstract!TakeEffect
  <2> QED
    BY <2>4 DEF Abstract!DeliveryNext
<1>3. ASSUME NEW w \in Workers, MarkDelivered(w)
      PROVE  Abstract!DeliveryNext \/ UNCHANGED Abstract!dvars
  <2>1. PICK r \in Rows : r = cur[w] /\ ~Absent(r) /\ applied[r]
    BY <1>3 DEF MarkDelivered, Handling, SinkRows
  <2>2. \A q \in Rows : delivered'[q] = (delivered[q] \/ q = r)
    BY <1>3, <2>1 DEF MarkDelivered
  <2>3. \A q \in Rows : Absent(q)' <=> Absent(q)
    BY <1>3, <2>1 DEF MarkDelivered
  <2>4. effects' = effects
    BY <1>3 DEF MarkDelivered
  <2>5. Open' = Open \ {r}
    BY <2>2, <2>3
  <2>6. done' = done \cup {r}
    BY <2>2
  <2>7. CASE delivered[r]
    <3>1. r \notin Open /\ r \in done
      BY <2>7
    <3> QED
      BY <2>4, <2>5, <2>6, <3>1
  <2>8. CASE ~delivered[r]
    <3>1. Abstract!Settle(r)
      BY <2>1, <2>4, <2>5, <2>6, <2>8 DEF Abstract!Settle
    <3> QED
      BY <3>1 DEF Abstract!DeliveryNext
  <2> QED
    BY <2>7, <2>8
<1>4. ASSUME UNCHANGED <<delivered, applied>>,
             \A r \in Rows : Absent(r)' <=> Absent(r)
      PROVE  UNCHANGED Abstract!dvars
  BY <1>4
<1>5. ASSUME NEW w \in Workers, Claim(w)
      PROVE  UNCHANGED <<delivered, applied>> /\ \A r \in Rows : Absent(r)' <=> Absent(r)
  BY <1>5 DEF Claim, Claims, Claimable
<1>6. ASSUME NEW w \in Workers, MarkFailed(w)
      PROVE  UNCHANGED <<delivered, applied>> /\ \A r \in Rows : Absent(r)' <=> Absent(r)
  BY <1>6 DEF MarkFailed, Handling, SinkRows
<1>7. ASSUME NEW w \in Workers,
             \/ ClaimNothing(w) \/ Take(w) \/ Register(w) \/ RaisePoison(w) \/ Note(w)
             \/ Unregister(w) \/ FailNote(w) \/ Raise(w) \/ Abandon(w)
      PROVE  UNCHANGED <<delivered, applied, status>>
  BY <1>7 DEF ClaimNothing, Take, Register, RaisePoison, Note, Unregister, FailNote, Raise,
              Abandon, Handles
<1>8. Tick \/ UNCHANGED vars => UNCHANGED <<delivered, applied, status>>
  BY DEF Tick, vars
<1> HIDE DEF Abstract!dvars
<1> QED
  BY <1>1, <1>2, <1>3, <1>4, <1>5, <1>6, <1>7, <1>8 DEF Next, Work

\* The loops implement the abstract delivery for any number of events, sinks and workers.
THEOREM ImplementsDelivery == Spec => Implements
<1>1. Init => Abstract!DeliveryInit
  BY DEF Init, Abstract!DeliveryInit, Open, Absent
<1>2. Sound /\ [Next]_vars => [Abstract!DeliveryNext]_(Abstract!dvars)
  BY RefinementStep
<1> QED
  BY <1>1, <1>2, Soundness, PTL DEF Spec, Implements, Abstract!DeliverySpec
=============================================================================
