----------------------------- MODULE UpkeepProofs -----------------------------
(***************************************************************************)
(* The jobs that keep the stores in shape, retention and the bootstrap of  *)
(* their schemas, for any number of rows, runs, hosts, releases and faults. *)
(***************************************************************************)
EXTENDS Lifecycle, Migrations, FiniteSetTheorems, WellFoundedInduction, TLAPS

-----------------------------------------------------------------------------
(* Retention: nothing is deleted that the archive does not hold, and the   *)
(* cycles the controller names stay.  The argument: between the selection  *)
(* and the commit of a section, a picked row keeps its table, a picked     *)
(* cycle stays finished, and the controller comes to name running cycles   *)
(* only; the objects of the run in progress are those of the sections      *)
(* behind it.                                                              *)

Statuses == {"none", "recorded", "pending", "processing", "delivered", "failed", "running",
             "finished"}
RowRecords == [table : {"none", "audit", "outbox", "cycles"}, status : Statuses, at : Clock]

Keepers == {k \in [stage : {"none", "select", "spare", "archive", "delete"}, section : 1..4,
                   at : Clock, stamp : Nat, picked : SUBSET Ids] : k.stage = "none" => k = NoKeeper}

\* The run has picked rows and not let go of them.
Holding == keeper.stage \in {"spare", "archive", "delete"}

RetentionShapes ==
  /\ clock \in Clock
  /\ rows \in [Ids -> RowRecords]
  /\ stored \in 0..MaxRows
  /\ controller \in [active : 0..MaxRows, latest : 0..MaxRows]
  /\ keeper \in Keepers
  /\ keeps \in Nat

\* A cycle is running or finished, and a row that is not there yet is no row.
RowsSound ==
  \A i \in Ids : /\ i > stored => rows[i] = NoRow
                 /\ rows[i].status = "running" => rows[i].table = "cycles"

\* The rows in hand are there, in the section's table; cycles in hand are finished.
PickedSound ==
  Holding => \A i \in keeper.picked : /\ rows[i].table = Section.table
                                      /\ keeper.section = 4 => rows[i].status = "finished"

\* Once the protected cycles are spared, the controller names none in hand.
ControllerSpared ==
  keeper.stage \in {"archive", "delete"} /\ keeper.section = 4 =>
    controller.active \notin keeper.picked /\ controller.latest \notin keeper.picked

\* The objects of the archive are of runs begun, those of the run in progress of sections behind it,
\* or of the one it is about to delete.
Behind(j) == j < keeper.section \/ (j = keeper.section /\ keeper.stage = "delete")
ArchiveSound ==
  /\ keeper.stage # "none" => keeper.stamp \in 1..keeps
  /\ \A x \in archive : \E j \in 1..4, n \in 1..keeps :
       /\ x.key = <<Sections[j].name, n>>
       /\ keeper.stage # "none" /\ n = keeper.stamp => Behind(j)
  /\ keeper.stage = "delete" => \E x \in archive : x.ids = keeper.picked

RetentionInv == /\ RetentionShapes /\ RowsSound /\ PickedSound /\ ControllerSpared /\ ArchiveSound
                /\ ArchivedBeforeGone /\ ControllerFound

-----------------------------------------------------------------------------
\* The four sections of retention have names of their own; only the last is of cycles.
LEMMA SectionsDiffer ==
  /\ Len(Sections) = 4
  /\ \A j, k \in 1..4 : Sections[j].name = Sections[k].name => j = k
  /\ \A j \in 1..4 : /\ Sections[j].table \in {"audit", "outbox", "cycles"}
                     /\ Sections[j].table = "cycles" <=> j = 4
                     /\ j = 4 => Sections[j].settled = "finished"
<1>1. \A j \in 1..4 : j = 1 \/ j = 2 \/ j = 3 \/ j = 4
  OBVIOUS
<1> QED
  BY <1>1 DEF Sections

\* Going on to the next section lets go of what was picked, and keeps the run's stamp.
LEMMA OnwardsFacts ==
  ASSUME RetentionShapes
  PROVE  /\ Onwards \in Keepers
         /\ Onwards.stage \in {"none", "select"}
         /\ Onwards.stage # "none" => /\ keeper.section < 4
                                      /\ Onwards.section = keeper.section + 1
                                      /\ Onwards.stamp = keeper.stamp
<1>1. CASE keeper.section < 4
  <2>1. Onwards = [keeper EXCEPT !.stage = "select", !.section = @ + 1, !.picked = {}]
    BY <1>1, SectionsDiffer DEF Onwards
  <2>2. /\ keeper.section \in 1..4 /\ keeper.section + 1 \in 1..4
        /\ keeper \in Keepers
    BY <1>1 DEF RetentionShapes, Keepers
  <2>3. /\ Onwards.stage = "select" /\ Onwards.section = keeper.section + 1
        /\ Onwards.stamp = keeper.stamp
    BY <2>1, <2>2 DEF Keepers
  <2>4. Onwards \in Keepers
    BY <2>1, <2>2 DEF Keepers
  <2> QED
    BY <1>1, <2>3, <2>4
<1>2. CASE ~(keeper.section < 4)
  <2>1. Onwards = NoKeeper
    BY <1>2, SectionsDiffer DEF Onwards
  <2> QED
    BY <2>1, LifecycleAssumption DEF NoKeeper, Keepers
<1> QED
  BY <1>1, <1>2

\* What is left when the run goes on, whichever way: the parts that speak of what it holds are void.
LEMMA LettingGo ==
  ASSUME RetentionShapes, ArchiveSound, keeper.stage # "none",
         keeper' \in {Onwards, NoKeeper}, archive' = archive, keeps' = keeps
  PROVE  /\ keeper' \in Keepers /\ PickedSound' /\ ControllerSpared' /\ ArchiveSound'
<1>1. /\ keeper' \in Keepers
      /\ keeper'.stage \in {"none", "select"}
      /\ keeper'.stage # "none" => /\ keeper'.section = keeper.section + 1
                                   /\ keeper'.stamp = keeper.stamp
  BY OnwardsFacts, LifecycleAssumption DEF NoKeeper, Keepers
<1>2. PickedSound' /\ ControllerSpared'
  BY <1>1 DEF PickedSound, Holding, ControllerSpared
<1>3. ASSUME NEW x \in archive
      PROVE  \E j \in 1..4, n \in 1..keeps :
               /\ x.key = <<Sections[j].name, n>>
               /\ keeper'.stage # "none" /\ n = keeper'.stamp => Behind(j)'
  <2>1. PICK j \in 1..4, n \in 1..keeps :
               /\ x.key = <<Sections[j].name, n>>
               /\ keeper.stage # "none" /\ n = keeper.stamp => Behind(j)
    BY DEF ArchiveSound
  <2>2. keeper'.stage # "none" /\ n = keeper'.stamp => Behind(j)'
    BY <1>1, <2>1 DEF Behind, RetentionShapes, Keepers
  <2> QED
    BY <2>1, <2>2
<1>4. ArchiveSound'
  BY <1>1, <1>3 DEF ArchiveSound
<1> QED
  BY <1>1, <1>2, <1>4

-----------------------------------------------------------------------------
\* The first states satisfy the invariant.
LEMMA RetentionInit == LifecycleInit => RetentionInv
<1> SUFFICES ASSUME LifecycleInit PROVE RetentionInv
  OBVIOUS
<1> USE LifecycleAssumption DEF LifecycleInit
<1>1. RetentionShapes
  BY DEF RetentionShapes, Keepers, NoKeeper, NoRow, RowRecords, Statuses
<1>2. RowsSound /\ ArchivedBeforeGone
  BY DEF RowsSound, NoRow, ArchivedBeforeGone
<1>3. PickedSound /\ ControllerSpared /\ ArchiveSound
  BY DEF PickedSound, Holding, ControllerSpared, ArchiveSound, NoKeeper
<1>4. ControllerFound
  BY DEF ControllerFound
<1> QED
  BY <1>1, <1>2, <1>3, <1>4 DEF RetentionInv

\* What those who go on may do: add rows, move a row on but keep its table and its end, and let the
\* controller name a cycle that runs.
Beside ==
  /\ UNCHANGED <<keeper, keeps, archive>>
  /\ clock' \in Clock /\ stored' \in 0..MaxRows /\ stored <= stored'
  /\ rows' \in [Ids -> RowRecords]
  /\ controller' \in [active : 0..MaxRows, latest : 0..MaxRows]
  /\ \A i \in Ids : /\ i > stored' => rows'[i] = NoRow
                    /\ rows'[i].status = "running" => rows'[i].table = "cycles"
                    /\ stored < i /\ i <= stored' => rows'[i].table # "none"
  /\ \A i \in 1..stored : /\ rows'[i].table = rows[i].table
                          /\ rows[i].status = "finished" => rows'[i].status = "finished"
                          /\ rows'[i] = NoRow => rows[i] = NoRow
  /\ \A i \in {controller'.active, controller'.latest} :
        \/ i \in {0, controller.active, controller.latest}
        \/ i \in 1..stored /\ rows[i].table = "cycles" /\ rows[i].status = "running"

\* What the run in progress holds and what it has archived stand beside them.
LEMMA OthersKeep ==
  ASSUME RetentionInv, Beside
  PROVE  RetentionInv'
<1> USE LifecycleAssumption DEF Beside
<1>1. RetentionShapes'
  BY DEF RetentionInv, RetentionShapes
<1>2. RowsSound'
  BY DEF RowsSound
<1>3. \A i \in Ids : rows[i].table # "none" => i \in 1..stored
  BY DEF RetentionInv, RetentionShapes, RowsSound, NoRow, Ids
<1>4. PickedSound'
  <2> SUFFICES ASSUME Holding, NEW i \in keeper.picked
               PROVE  /\ rows'[i].table = Section.table
                      /\ keeper.section = 4 => rows'[i].status = "finished"
    BY DEF PickedSound, Holding, Section
  <2>1. /\ i \in Ids /\ keeper.section \in 1..4 /\ rows[i].table = Section.table
        /\ keeper.section = 4 => rows[i].status = "finished"
    BY DEF RetentionInv, RetentionShapes, Keepers, PickedSound
  <2>2. rows[i].table # "none"
    BY <2>1, SectionsDiffer DEF Section
  <2> QED
    BY <1>3, <2>1, <2>2
<1>5. ControllerSpared'
  BY DEF RetentionInv, RetentionShapes, Keepers, Ids, ControllerSpared, PickedSound, Holding
<1>6. ArchiveSound'
  BY DEF RetentionInv, ArchiveSound, Behind
<1>7. ArchivedBeforeGone'
  <2> SUFFICES ASSUME NEW i \in 1..stored', rows'[i] = NoRow
               PROVE  \E x \in archive : i \in x.ids
    BY DEF ArchivedBeforeGone
  <2>1. i \in 1..stored
    <3>1. i \in Ids /\ ~(stored < i /\ i <= stored')
      BY DEF Ids, NoRow
    <3> QED
      BY <3>1 DEF RetentionInv, RetentionShapes
  <2>2. rows[i] = NoRow
    BY <2>1
  <2> QED
    BY <2>1, <2>2 DEF RetentionInv, ArchivedBeforeGone
<1>8. ControllerFound'
  <2> SUFFICES ASSUME NEW i \in {controller'.active, controller'.latest} \ {0}
               PROVE  rows'[i].table = "cycles"
    BY DEF ControllerFound
  <2>1. i \in Ids /\ rows[i].table = "cycles"
    BY DEF RetentionInv, RetentionShapes, Ids, ControllerFound
  <2> QED
    BY <1>3, <2>1
<1> QED
  BY <1>1, <1>2, <1>4, <1>5, <1>6, <1>7, <1>8 DEF RetentionInv

-----------------------------------------------------------------------------
\* A row that is there and moves to another status keeps its table.
LEMMA ChangedRow ==
  ASSUME RetentionShapes, RowsSound, NEW i \in Ids, rows[i].table \in {"outbox", "cycles"},
         rows[i].status # "finished",
         NEW s \in Statuses \ {"none", "running"},
         rows' = [rows EXCEPT ![i].status = s, ![i].at = clock],
         UNCHANGED <<clock, stored, controller, keeper, keeps, archive>>
  PROVE  Beside
<1> USE LifecycleAssumption
<1>1. \A k \in Ids \ {i} : rows'[k] = rows[k]
  BY DEF RetentionShapes
<1>2. /\ rows'[i].table = rows[i].table /\ rows'[i].status = s /\ rows'[i] \in RowRecords
  <2>1. rows \in [Ids -> RowRecords] /\ clock \in Clock /\ rows[i] \in RowRecords
    BY DEF RetentionShapes
  <2>2. rows'[i] = [rows[i] EXCEPT !.status = s, !.at = clock]
    BY <2>1
  <2> QED
    BY <2>1, <2>2 DEF RowRecords
<1>3. rows' \in [Ids -> RowRecords]
  BY <1>2 DEF RetentionShapes
<1>4. i \in 1..stored /\ rows'[i] # NoRow
  <2>1. NoRow.table = "none"
    BY DEF NoRow
  <2>2. rows[i] # NoRow /\ rows'[i] # NoRow
    BY <1>2, <2>1
  <2> QED
    BY <2>2 DEF RetentionShapes, RowsSound, Ids
<1>5. \A k \in Ids : /\ k > stored => rows'[k] = NoRow
                     /\ rows'[k].status = "running" => rows'[k].table = "cycles"
                     /\ rows'[k].table = rows[k].table
                     /\ rows[k].status = "finished" => rows'[k].status = "finished"
                     /\ rows'[k] = NoRow => rows[k] = NoRow
  <2> SUFFICES ASSUME NEW k \in Ids
               PROVE  /\ k > stored => rows'[k] = NoRow
                      /\ rows'[k].status = "running" => rows'[k].table = "cycles"
                      /\ rows'[k].table = rows[k].table
                      /\ rows[k].status = "finished" => rows'[k].status = "finished"
                      /\ rows'[k] = NoRow => rows[k] = NoRow
    OBVIOUS
  <2>1. CASE k = i
    BY <1>2, <1>4, <2>1 DEF Ids, RetentionShapes
  <2>2. CASE k # i
    BY <1>1, <2>2 DEF RowsSound
  <2> QED
    BY <2>1, <2>2
<1>6. \A k \in Ids : stored < k /\ k <= stored' => rows'[k].table # "none"
  BY DEF RetentionShapes, Ids
<1>7. \A k \in 1..stored : k \in Ids
  BY DEF RetentionShapes, Ids
<1> QED
  BY <1>3, <1>5, <1>6, <1>7 DEF Beside, RetentionShapes

\* The steps of those who go on.
LEMMA OthersStep ==
  ASSUME RetentionInv, DayPasses \/ (\E t \in Tables : Add(t))
               \/ (\E i \in Ids : CycleShown(i) \/ CycleEnds(i) \/ CycleReleased(i) \/ Work(i))
  PROVE  Beside
<1> USE LifecycleAssumption
<1>0. /\ RetentionShapes /\ RowsSound /\ ControllerFound
      /\ stored \in Nat /\ MaxRows \in Nat /\ stored <= MaxRows
  BY DEF RetentionInv, RetentionShapes
<1>1. CASE DayPasses
  BY <1>0, <1>1 DEF DayPasses, Beside, RetentionShapes, RowsSound, Ids
<1>2. ASSUME NEW t \in Tables, Add(t)
      PROVE  Beside
  <2>1. /\ stored' = stored + 1 /\ stored' \in Ids /\ stored' \in 0..MaxRows
    BY <1>0, <1>2 DEF Add, Ids
  <2>2. [table |-> t, status |-> Added[t], at |-> clock] \in RowRecords
    BY <1>0 DEF Added, RowRecords, Statuses, RetentionShapes
  <2>3. rows' = [rows EXCEPT ![stored'] = [table |-> t, status |-> Added[t], at |-> clock]]
    BY <1>2, <2>1 DEF Add
  <2>4. rows' \in [Ids -> RowRecords]
    BY <1>0, <2>2, <2>3 DEF RetentionShapes
  <2>5. t # "none" /\ (Added[t] = "running" => t = "cycles")
    <3>1. t = "audit" \/ t = "outbox" \/ t = "cycles"
      BY LifecycleAssumption
    <3>2. /\ Added["audit"] = "recorded"
          /\ Added["outbox"] = "pending"
      BY DEF Added
    <3> QED
      BY <3>1, <3>2
  <2>6. \A i \in Ids : i # stored' => rows'[i] = rows[i]
    BY <1>0, <2>3 DEF RetentionShapes
  <2>7. rows'[stored'].table = t /\ rows'[stored'].status = Added[t]
    BY <1>0, <2>1, <2>3 DEF RetentionShapes
  <2>8. \A i \in Ids : /\ i > stored' => rows'[i] = NoRow
                       /\ rows'[i].status = "running" => rows'[i].table = "cycles"
                       /\ stored < i /\ i <= stored' => rows'[i].table # "none"
    BY <1>0, <2>1, <2>5, <2>6, <2>7 DEF RowsSound, Ids
  <2>9. \A i \in 1..stored : rows'[i] = rows[i]
    BY <1>0, <2>1, <2>6 DEF Ids
  <2>10. UNCHANGED <<clock, controller, archive, keeper, keeps>>
    BY <1>2 DEF Add
  <2> QED
    BY <1>0, <2>1, <2>4, <2>8, <2>9, <2>10 DEF Beside, RetentionShapes
<1>3. ASSUME NEW i \in Ids, CycleShown(i)
      PROVE  Beside
  <2>1. /\ controller' = [active |-> i, latest |-> i]
        /\ rows[i].table = "cycles" /\ rows[i].status = "running"
        /\ UNCHANGED <<clock, rows, stored, archive, keeper, keeps>>
    BY <1>3 DEF CycleShown, Running
  <2>2. NoRow.table = "none"
    BY DEF NoRow
  <2>3. i \in 1..stored /\ i \in 0..MaxRows
    BY <1>0, <2>1, <2>2 DEF RowsSound, Ids
  <2> QED
    BY <1>0, <2>1, <2>3 DEF Beside, RetentionShapes, RowsSound, Ids
<1>4. ASSUME NEW i \in Ids, CycleEnds(i)
      PROVE  Beside
  <2>1. /\ rows[i].table = "cycles" /\ rows[i].status = "running"
        /\ rows' = [rows EXCEPT ![i].status = "finished", ![i].at = clock]
        /\ UNCHANGED <<clock, stored, controller, archive, keeper, keeps>>
    BY <1>4 DEF CycleEnds, Running
  <2>2. "finished" \in Statuses \ {"none", "running"}
    BY DEF Statuses
  <2> QED
    BY <1>0, <2>1, <2>2, ChangedRow
<1>5. ASSUME NEW i \in Ids, CycleReleased(i)
      PROVE  Beside
  <2>1. /\ controller' = [active |-> 0, latest |-> i] /\ controller.active = i
        /\ i \in 0..MaxRows
        /\ UNCHANGED <<clock, rows, stored, archive, keeper, keeps>>
    BY <1>5, <1>0 DEF CycleReleased, Ids
  <2> QED
    BY <1>0, <2>1 DEF Beside, RetentionShapes, RowsSound, Ids
<1>6. ASSUME NEW i \in Ids, Work(i)
      PROVE  Beside
  <2>1. /\ rows[i].table = "outbox" /\ rows[i].status \in {"pending", "failed", "processing"}
        /\ UNCHANGED <<clock, stored, controller, archive, keeper, keeps>>
    BY <1>6 DEF Work
  <2>2. PICK s \in {"processing", "delivered", "failed"} :
          rows' = [rows EXCEPT ![i].status = s, ![i].at = clock]
    BY <1>6 DEF Work
  <2>3. s \in Statuses \ {"none", "running"}
    BY DEF Statuses
  <2> QED
    BY <1>0, <2>1, <2>2, <2>3, ChangedRow
<1> QED
  BY <1>1, <1>2, <1>3, <1>4, <1>5, <1>6
-----------------------------------------------------------------------------
\* The steps of the retention run: one lemma to a step that writes.
LEMMA ArchiveKeeps ==
  ASSUME RetentionInv, Archive
  PROVE  RetentionInv'
<1> USE LifecycleAssumption
<1>0. /\ RetentionShapes /\ PickedSound /\ ControllerSpared /\ ArchiveSound
      /\ keeper.stage = "archive" /\ keeper \in Keepers
      /\ UNCHANGED <<clock, rows, stored, controller, keeps>>
      /\ keeper' = [keeper EXCEPT !.stage = "delete"]
  BY DEF RetentionInv, Archive, RetentionShapes
<1>1. /\ keeper' \in Keepers /\ keeper'.stage = "delete"
      /\ keeper'.section = keeper.section /\ keeper'.stamp = keeper.stamp
      /\ keeper'.picked = keeper.picked
  BY <1>0 DEF Keepers
<1>2. RetentionShapes' /\ RowsSound' /\ ControllerFound'
  BY <1>0, <1>1 DEF RetentionInv, RetentionShapes, RowsSound, ControllerFound
<1>3. PickedSound' /\ ControllerSpared'
  BY <1>0, <1>1 DEF PickedSound, Holding, Section, ControllerSpared
<1>4. /\ keeper.section \in 1..4 /\ keeper.stamp \in 1..keeps
  BY <1>0 DEF Keepers, ArchiveSound, RetentionShapes
<1>5. archive' = archive \cup {[key |-> ArchiveKey, ids |-> keeper.picked]}
  <2> SUFFICES ASSUME NEW x \in archive PROVE x.key # ArchiveKey
    BY DEF Archive
  <2>1. PICK j \in 1..4, n \in 1..keeps :
               /\ x.key = <<Sections[j].name, n>>
               /\ keeper.stage # "none" /\ n = keeper.stamp => Behind(j)
    BY <1>0 DEF ArchiveSound
  <2>2. n = keeper.stamp => j # keeper.section
    BY <1>0, <1>4, <2>1 DEF Behind
  <2> QED
    BY <1>4, <2>1, <2>2, SectionsDiffer DEF ArchiveKey, Section
<1>6. ArchiveSound'
  <2>1. keeper'.stage # "none" => keeper'.stamp \in 1..keeps'
    BY <1>0, <1>1, <1>4
  <2>2. \A x \in archive' : \E j \in 1..4, n \in 1..keeps' :
          /\ x.key = <<Sections[j].name, n>>
          /\ keeper'.stage # "none" /\ n = keeper'.stamp => Behind(j)'
    <3> SUFFICES ASSUME NEW x \in archive'
                 PROVE  \E j \in 1..4, n \in 1..keeps :
                          /\ x.key = <<Sections[j].name, n>>
                          /\ n = keeper.stamp => Behind(j)'
      BY <1>0, <1>1
    <3>1. CASE x \in archive
      <4>1. PICK j \in 1..4, n \in 1..keeps :
                   /\ x.key = <<Sections[j].name, n>>
                   /\ keeper.stage # "none" /\ n = keeper.stamp => Behind(j)
        BY <1>0, <3>1 DEF ArchiveSound
      <4>2. n = keeper.stamp => Behind(j)'
        BY <1>0, <1>1, <4>1 DEF Behind
      <4> QED
        BY <4>1, <4>2
    <3>2. CASE x.key = <<Sections[keeper.section].name, keeper.stamp>>
      BY <1>0, <1>1, <1>4, <3>2 DEF Behind
    <3> QED
      <4>1. x \in archive \/ x.key = ArchiveKey
        BY <1>5
      <4> QED
        BY <3>1, <3>2, <4>1 DEF ArchiveKey, Section
  <2>3. \E x \in archive' : x.ids = keeper'.picked
    <3>1. /\ [key |-> ArchiveKey, ids |-> keeper.picked] \in archive'
          /\ [key |-> ArchiveKey, ids |-> keeper.picked].ids = keeper'.picked
      BY <1>1, <1>5
    <3> QED
      BY <3>1
  <2> QED
    BY <2>1, <2>2, <2>3 DEF ArchiveSound
<1>7. ArchivedBeforeGone'
  BY <1>0, <1>5 DEF RetentionInv, ArchivedBeforeGone
<1> QED
  BY <1>2, <1>3, <1>6, <1>7 DEF RetentionInv

\* A deletion keeps the invariant: what it takes away was archived in this run.
LEMMA DeleteKeeps ==
  ASSUME RetentionInv, Delete
  PROVE  RetentionInv'
<1> USE LifecycleAssumption
<1>0. /\ RetentionShapes /\ PickedSound /\ ControllerSpared /\ ArchiveSound
      /\ RowsSound /\ ControllerFound /\ ArchivedBeforeGone
      /\ keeper.stage = "delete" /\ keeper \in Keepers
      /\ rows' = [i \in Ids |-> IF i \in keeper.picked THEN NoRow ELSE rows[i]]
      /\ keeper' = Onwards
      /\ UNCHANGED <<clock, stored, controller, archive, keeps>>
  BY DEF RetentionInv, Delete, RetentionShapes
<1>1. /\ keeper' \in Keepers /\ PickedSound' /\ ControllerSpared' /\ ArchiveSound'
  BY <1>0, LettingGo
<1>2. NoRow \in RowRecords /\ NoRow.table = "none" /\ NoRow.status = "none"
  BY DEF NoRow, RowRecords, Statuses
<1>3. RetentionShapes'
  BY <1>0, <1>1, <1>2 DEF RetentionShapes
<1>4. RowsSound'
  BY <1>0, <1>2 DEF RowsSound
<1>5. ArchivedBeforeGone'
  <2> SUFFICES ASSUME NEW i \in 1..stored, rows'[i] = NoRow
               PROVE  \E x \in archive : i \in x.ids
    BY <1>0 DEF ArchivedBeforeGone
  <2>1. i \in Ids
    BY <1>0 DEF RetentionShapes, Ids
  <2>2. CASE i \in keeper.picked
    BY <1>0, <2>2 DEF ArchiveSound
  <2>3. CASE i \notin keeper.picked
    BY <1>0, <2>1, <2>3 DEF ArchivedBeforeGone
  <2> QED
    BY <2>2, <2>3
<1>6. ControllerFound'
  <2> SUFFICES ASSUME NEW i \in {controller.active, controller.latest} \ {0}
               PROVE  rows'[i].table = "cycles"
    BY <1>0 DEF ControllerFound
  <2>1. i \in Ids /\ rows[i].table = "cycles"
    BY <1>0 DEF RetentionShapes, Ids, ControllerFound
  <2>2. i \notin keeper.picked
    <3>1. CASE keeper.section = 4
      BY <1>0, <3>1 DEF ControllerSpared
    <3>2. CASE keeper.section # 4
      <4>1. keeper.section \in 1..4 /\ Section.table # "cycles"
        BY <1>0, <3>2, SectionsDiffer DEF Keepers, Section
      <4> QED
        BY <1>0, <2>1, <4>1 DEF PickedSound, Holding
    <3> QED
      BY <3>1, <3>2
  <2> QED
    BY <1>0, <2>1, <2>2
<1> QED
  BY <1>1, <1>3, <1>4, <1>5, <1>6 DEF RetentionInv

\* Its steps that only move it on.
LEMMA KeeperMoves ==
  ASSUME RetentionInv, KeeperBegins \/ Select \/ Spare \/ KeeperFails
  PROVE  RetentionInv'
<1> USE LifecycleAssumption
<1>0. /\ RetentionShapes /\ PickedSound /\ ControllerSpared /\ ArchiveSound
      /\ keeper \in Keepers /\ keeps \in Nat
      /\ UNCHANGED <<clock, rows, stored, controller, archive>>
  BY DEF RetentionInv, RetentionShapes, KeeperBegins, Select, Spare, KeeperFails
<1>1. RowsSound' /\ ArchivedBeforeGone' /\ ControllerFound'
  BY <1>0 DEF RetentionInv, RowsSound, ArchivedBeforeGone, ControllerFound
<1>2. SUFFICES keeper' \in Keepers /\ keeps' \in Nat /\ PickedSound' /\ ControllerSpared'
               /\ ArchiveSound'
  BY <1>0, <1>1 DEF RetentionInv, RetentionShapes
<1>3. CASE KeeperBegins
  <2>1. /\ keeps' = keeps + 1
        /\ keeper' = [NoKeeper EXCEPT !.stage = "select", !.at = clock, !.stamp = keeps + 1]
    BY <1>3 DEF KeeperBegins
  <2>2. /\ keeper' \in Keepers /\ keeper'.stage = "select" /\ keeper'.stamp = keeps + 1
    <3>1. keeper' = [stage |-> "select", section |-> 1, at |-> clock, stamp |-> keeps + 1,
                     picked |-> {}]
      BY <2>1 DEF NoKeeper
    <3>2. clock \in Clock /\ keeps + 1 \in Nat
      BY <1>0 DEF RetentionShapes
    <3> QED
      BY <3>1, <3>2 DEF Keepers
  <2>3. \A x \in archive : \E j \in 1..4, n \in 1..keeps' :
          x.key = <<Sections[j].name, n>> /\ n # keeper'.stamp
    <3> SUFFICES ASSUME NEW x \in archive
                 PROVE  \E j \in 1..4, n \in 1..keeps' :
                          x.key = <<Sections[j].name, n>> /\ n # keeper'.stamp
      OBVIOUS
    <3>1. PICK j \in 1..4, n \in 1..keeps : x.key = <<Sections[j].name, n>>
      BY <1>0 DEF ArchiveSound
    <3>2. n \in 1..keeps' /\ n # keeper'.stamp
      BY <1>0, <2>1, <2>2
    <3> QED
      BY <3>1, <3>2
  <2> QED
    BY <1>0, <2>1, <2>2, <2>3 DEF PickedSound, Holding, ControllerSpared, ArchiveSound
<1>4. CASE Select
  <2>1. /\ keeps' = keeps /\ keeper.stage = "select"
        /\ keeper' = [keeper EXCEPT !.stage = "spare", !.picked = {i \in Ids : Past(i)}]
    BY <1>4 DEF Select
  <2>2. /\ keeper' \in Keepers /\ keeper'.stage = "spare" /\ keeper'.stamp = keeper.stamp
        /\ keeper'.section = keeper.section /\ keeper'.picked = {i \in Ids : Past(i)}
    BY <1>0, <2>1 DEF Keepers
  <2>3. PickedSound'
    <3> SUFFICES ASSUME NEW i \in Ids, Past(i)
                 PROVE  /\ rows[i].table = Section.table
                        /\ keeper.section = 4 => rows[i].status = "finished"
      BY <1>0, <2>2 DEF PickedSound, Section
    <3> QED
      BY <1>0, SectionsDiffer DEF Past, Section, Keepers
  <2> QED
    BY <1>0, <2>1, <2>2, <2>3 DEF ControllerSpared, ArchiveSound, Behind
<1>5. CASE Spare
  <2>0. keeper.stage = "spare" /\ keeps' = keeps
    BY <1>5 DEF Spare
  <2>1. CASE keeper' = Onwards
    BY <1>0, <2>0, <2>1, LettingGo
  <2>2. CASE keeper' = [keeper EXCEPT !.stage = "archive", !.picked = keeper.picked \ Protected]
    <3>1. /\ keeper' \in Keepers /\ keeper'.stage = "archive" /\ keeper'.stamp = keeper.stamp
          /\ keeper'.section = keeper.section /\ keeper'.picked = keeper.picked \ Protected
      BY <1>0, <2>2 DEF Keepers
    <3>2. PickedSound'
      BY <1>0, <2>0, <3>1 DEF PickedSound, Holding, Section
    <3>3. keeper.section = 4 => Protected = {controller.active, controller.latest}
      BY SectionsDiffer DEF Protected, Section
    <3> QED
      BY <1>0, <2>0, <3>1, <3>2, <3>3 DEF ControllerSpared, ArchiveSound, Behind
  <2> QED
    BY <1>5, <2>1, <2>2 DEF Spare
<1>6. CASE KeeperFails
  <2>1. keeper.stage # "none"
    BY <1>0, <1>6 DEF KeeperFails, Keepers
  <2> QED
    BY <1>0, <1>6, <2>1, LettingGo DEF KeeperFails
<1> QED
  BY <1>3, <1>4, <1>5, <1>6
-----------------------------------------------------------------------------
\* Every step, of retention or of the tables' users, keeps the invariant.
LEMMA RetentionStep ==
  ASSUME RetentionInv, [LifecycleNext]_lifecycleVars
  PROVE  RetentionInv'
<1>1. CASE UNCHANGED lifecycleVars
  BY <1>1 DEF lifecycleVars, RetentionInv, RetentionShapes, RowsSound, PickedSound, Holding, Section,
              ControllerSpared, ArchiveSound, Behind, ArchivedBeforeGone, ControllerFound
<1>2. CASE DayPasses \/ (\E t \in Tables : Add(t))
           \/ (\E i \in Ids : CycleShown(i) \/ CycleEnds(i) \/ CycleReleased(i) \/ Work(i))
  BY <1>2, OthersStep, OthersKeep
<1>3. CASE KeeperBegins \/ Select \/ Spare \/ KeeperFails
  BY <1>3, KeeperMoves
<1>4. CASE Archive
  BY <1>4, ArchiveKeeps
<1>5. CASE Delete
  BY <1>5, DeleteKeeps
<1> QED
  BY <1>1, <1>2, <1>3, <1>4, <1>5 DEF LifecycleNext

\* The strengthened invariant holds throughout.
THEOREM LifecycleInvariant == LifecycleSpec => []RetentionInv
<1> QED
  BY RetentionInit, RetentionStep, PTL DEF LifecycleSpec

\* Retention loses nothing: a row that is gone is in an object of the archive that no later section,
\* run or failure has overwritten (services/lifecycle.py: archive, then delete, under one key).
THEOREM GoneMeansArchived == LifecycleSpec => []ArchivedBeforeGone
<1>1. RetentionInv => ArchivedBeforeGone
  BY DEF RetentionInv
<1> QED
  BY <1>1, LifecycleInvariant, PTL

\* Retention never takes a cycle the controller names, though it reads the cycles and the
\* controller at two times (_protected_runtime_cycle_ids).
THEOREM ControllerAlwaysFound == LifecycleSpec => []ControllerFound
<1>1. RetentionInv => ControllerFound
  BY DEF RetentionInv
<1> QED
  BY <1>1, LifecycleInvariant, PTL

-----------------------------------------------------------------------------
(* Migrations: what a host is told is healthy has been built, and versions *)
(* are built in order.  The argument: a recorded version was built in the  *)
(* text of its checksum; the statements of the version in hand that the    *)
(* host has counted ran; and a version the host has left to apply no more  *)
(* is recorded, so that below the least one pending all are.               *)

HostStates == [stage : {"none", "read", "apply"}, store : Stores, apply : BOOLEAN,
               pending : SUBSET Nat, ran : Nat, healthy : SUBSET Stores]

BootstrapShapes ==
  /\ schema \in [Stores -> [rows : SUBSET (Nat \X Nat), ran : SUBSET (Nat \X Nat \X Nat)]]
  /\ host \in [Hosts -> HostStates]
  /\ \A h \in Hosts : host[h].pending \subseteq 1..Expected(h)
  /\ \A h \in Hosts : IF host[h].stage = "apply" THEN Expected(h) <= Available(h) ELSE host[h].ran = 0

\* What is recorded was built.
RecordedBuilt ==
  \A s \in Stores : \A x \in schema[s].rows :
    \A i \in 1..Statements : <<x[1], x[2], i>> \in schema[s].ran

\* What a host has counted of the version in hand ran.
CountedRan ==
  \A h \in Hosts : Applying(h, "clickhouse") =>
    \A i \in 1..host[h].ran : <<NextUp(h), Sum(h, NextUp(h)), i>> \in schema["clickhouse"].ran

\* What a host has no longer to apply is recorded.
AppliedRecorded ==
  \A h \in Hosts : host[h].stage = "apply" =>
    \A v \in 1..Expected(h) : v \notin host[h].pending => v \in Versions(Rows(h))

BootstrapInv == BootstrapShapes /\ RecordedBuilt /\ CountedRan /\ AppliedRecorded /\ HealthyMeansBuilt

-----------------------------------------------------------------------------
\* The least of a set of naturals.
LEMMA LeastOfNats ==
  ASSUME NEW S, S \subseteq Nat, S # {}
  PROVE  Min(S) \in S /\ \A y \in S : Min(S) <= y
<1> DEFINE Below(x) == {y \in Nat : y < x}
           T == {Below(x) : x \in S}
<1>1. T \subseteq FiniteSubsetsOf(Nat)
  <2> SUFFICES ASSUME NEW x \in S PROVE Below(x) \in SUBSET Nat /\ IsFiniteSet(Below(x))
    BY DEF FiniteSubsetsOf
  <2>1. x \in Nat /\ Below(x) \in SUBSET Nat /\ \A y \in Below(x) : y <= x
    OBVIOUS
  <2> QED
    BY <2>1, FS_BoundedSetOfNaturals
<1>2. T # {}
  OBVIOUS
<1> HIDE DEF T
<1>3. PICK D \in T : \A E \in T : ~(<<E, D>> \in StrictSubsetOrdering(Nat))
  BY <1>1, <1>2, FS_StrictSubsetOrderingWellFounded, WFMin
<1>4. PICK x \in S : D = Below(x)
  BY <1>3 DEF T
<1>5. ASSUME NEW y \in S, ~(x <= y)
      PROVE  FALSE
  <2>1. y \in Nat /\ x \in Nat /\ y < x
    BY <1>5
  <2>2. /\ Below(y) \in T /\ Below(y) \subseteq Below(x)
        /\ y \in Below(x) /\ y \notin Below(y)
    BY <2>1 DEF T
  <2>3. <<Below(y), D>> \in StrictSubsetOrdering(Nat)
    BY <1>4, <2>2 DEF StrictSubsetOrdering
  <2> QED
    BY <1>3, <2>2, <2>3
<1> QED
  BY <1>5 DEF Min
-----------------------------------------------------------------------------
\* The store goes on, and nothing of it is lost.
Grown ==
  /\ schema' \in [Stores -> [rows : SUBSET (Nat \X Nat), ran : SUBSET (Nat \X Nat \X Nat)]]
  /\ \A s \in Stores : schema[s].rows \subseteq schema'[s].rows /\ schema[s].ran \subseteq schema'[s].ran

\* A host may go on to x.
Sound(h, x) ==
  /\ x \in HostStates /\ x.pending \subseteq 1..Expected(h)
  /\ x.stage # "apply" => x.ran = 0
  /\ x.stage = "apply" =>
       /\ Expected(h) <= Available(h)
       /\ \A v \in 1..Expected(h) : v \notin x.pending => v \in Versions(schema'[x.store].rows)
       /\ x.pending # {} /\ x.store = "clickhouse" =>
            \A i \in 1..x.ran : <<Min(x.pending), Sum(h, Min(x.pending)), i>> \in schema'["clickhouse"].ran
  /\ \A v \in 1..Expected(h) : \A s \in x.healthy : AllOf(h, v) \subseteq schema'[s].ran

\* A step of one host that takes nothing from the stores keeps the invariant.
LEMMA HostMoves ==
  ASSUME BootstrapInv, NEW h \in Hosts, NEW x, host' = [host EXCEPT ![h] = x], Sound(h, x),
         Grown, RecordedBuilt'
  PROVE  BootstrapInv'
<1>0. /\ host \in [Hosts -> HostStates] /\ host' \in [Hosts -> HostStates]
      /\ host'[h] = x /\ \A k \in Hosts \ {h} : host'[k] = host[k]
  BY DEF BootstrapInv, BootstrapShapes, Sound
<1>1. BootstrapShapes'
  BY <1>0 DEF BootstrapInv, BootstrapShapes, Grown, Sound
<1>2. CountedRan'
  <2> SUFFICES ASSUME NEW k \in Hosts, Applying(k, "clickhouse")', NEW i \in 1..host'[k].ran
               PROVE  <<Min(host'[k].pending), Sum(k, Min(host'[k].pending)), i>>
                        \in schema'["clickhouse"].ran
    BY DEF CountedRan, NextUp
  <2>1. CASE k = h
    BY <1>0, <2>1 DEF Sound, Applying
  <2>2. CASE k # h
    BY <1>0, <2>2 DEF BootstrapInv, CountedRan, NextUp, Applying, Grown, Stores
  <2> QED
    BY <2>1, <2>2
<1>3. AppliedRecorded'
  <2> SUFFICES ASSUME NEW k \in Hosts, host'[k].stage = "apply", NEW v \in 1..Expected(k),
                      v \notin host'[k].pending
               PROVE  v \in Versions(schema'[host'[k].store].rows)
    BY DEF AppliedRecorded, Rows
  <2>1. CASE k = h
    BY <1>0, <2>1 DEF Sound
  <2>2. CASE k # h
    BY <1>0, <2>2 DEF BootstrapInv, AppliedRecorded, Rows, Versions, Grown, HostStates
  <2> QED
    BY <2>1, <2>2
<1>4. HealthyMeansBuilt'
  <2> SUFFICES ASSUME NEW k \in Hosts, NEW v \in 1..Expected(k), NEW s \in host'[k].healthy
               PROVE  AllOf(k, v) \subseteq schema'[s].ran
    BY DEF HealthyMeansBuilt
  <2>1. CASE k = h
    BY <1>0, <2>1 DEF Sound
  <2>2. CASE k # h
    <3>1. s \in Stores /\ AllOf(k, v) \subseteq schema[s].ran
      BY <1>0, <2>2 DEF BootstrapInv, HealthyMeansBuilt, HostStates
    <3> QED
      BY <3>1 DEF Grown
  <2> QED
    BY <2>1, <2>2
<1> QED
  BY <1>1, <1>2, <1>3, <1>4 DEF BootstrapInv

\* What is read as healthy was built.
LEMMA HealthyBuilt ==
  ASSUME BootstrapInv, NEW h \in Hosts, NEW R \in Reads(Rows(h)), Healthy(h, R),
         Expected(h) <= Available(h), NEW v \in 1..Expected(h)
  PROVE  AllOf(h, v) \subseteq schema[host[h].store].ran
<1>1. host[h].store \in Stores
  BY DEF BootstrapInv, BootstrapShapes, HostStates
<1>2. PICK x \in R : x[1] = v
  BY DEF Healthy, Versions
<1>3. x \in Rows(h) /\ x[2] = Sum(h, v)
  <2>1. x \in Rows(h)
    BY <1>2 DEF Reads
  <2>2. Expected(h) \in Nat /\ Available(h) \in Nat
    BY MigrationsAssumption DEF Expected, Available
  <2>3. v <= Available(h)
    BY <2>2
  <2>4. x[2] = Sum(h, v)
    BY <1>2, <2>3 DEF Healthy, Mismatched
  <2> QED
    BY <2>1, <2>4
<1>4. \A i \in 1..Statements : <<v, Sum(h, v), i>> \in schema[host[h].store].ran
  BY <1>1, <1>2, <1>3 DEF BootstrapInv, RecordedBuilt, Rows
<1> QED
  BY <1>4 DEF AllOf

\* To the next store, or the end.
LEMMA CheckedSound ==
  ASSUME BootstrapInv, NEW h \in Hosts, NEW b \in BOOLEAN, UNCHANGED schema,
         b => \A v \in 1..Expected(h) : AllOf(h, v) \subseteq schema[host[h].store].ran
  PROVE  Sound(h, Checked(h, b))
<1>1. host[h] \in HostStates
  BY DEF BootstrapInv, BootstrapShapes
<1> DEFINE told == IF b THEN host[h].healthy \cup {host[h].store} ELSE host[h].healthy
<1>2. told \in SUBSET Stores
  BY <1>1 DEF HostStates
<1>3. \A v \in 1..Expected(h) : \A s \in told : AllOf(h, v) \subseteq schema[s].ran
  BY DEF BootstrapInv, HealthyMeansBuilt
<1>4. /\ Checked(h, b) \in HostStates /\ Checked(h, b).stage \in {"none", "read"}
      /\ Checked(h, b).pending = {} /\ Checked(h, b).ran = 0 /\ Checked(h, b).healthy = told
  <2>1. CASE host[h].store = "postgres"
    <3>1. Checked(h, b) = [host[h] EXCEPT !.stage = "read", !.store = "clickhouse", !.pending = {},
                                          !.ran = 0, !.healthy = told]
      BY <2>1 DEF Checked
    <3>2. "clickhouse" \in Stores /\ 0 \in Nat /\ {} \in SUBSET Nat
      BY DEF Stores
    <3> HIDE DEF told
    <3>3. Checked(h, b) = [stage |-> "read", store |-> "clickhouse", apply |-> host[h].apply,
                           pending |-> {}, ran |-> 0, healthy |-> told]
      BY <1>1, <3>1 DEF HostStates
    <3>4. host[h].apply \in BOOLEAN
      BY <1>1 DEF HostStates
    <3> QED
      BY <1>2, <3>2, <3>3, <3>4 DEF HostStates
  <2>2. CASE host[h].store # "postgres"
    <3>1. Checked(h, b) = [stage |-> "none", store |-> "postgres", apply |-> FALSE, pending |-> {},
                           ran |-> 0, healthy |-> told]
      BY <2>2 DEF Checked, Idler
    <3> HIDE DEF told
    <3> QED
      BY <1>2, <3>1 DEF HostStates, Stores
  <2> QED
    BY <2>1, <2>2
<1> QED
  BY <1>3, <1>4 DEF Sound

\* Where only hosts move, the stores stand.
LEMMA StoresStand ==
  ASSUME BootstrapInv, UNCHANGED schema
  PROVE  Grown /\ RecordedBuilt'
BY DEF BootstrapInv, BootstrapShapes, Grown, RecordedBuilt

\* A version a host does not find pending was recorded when it read the ledger.
LEMMA ReadsHold ==
  ASSUME BootstrapInv, NEW h \in Hosts, NEW R \in Reads(Rows(h))
  PROVE  \A v \in 1..Expected(h) : v \notin PendingIn(h, R) => v \in Versions(Rows(h))
BY DEF Reads, PendingIn

\* The steps of a host that leave the stores alone.
LEMMA HostStep ==
  ASSUME BootstrapInv, NEW h \in Hosts, BootstrapBegins(h) \/ ReadVersions(h) \/ ReadAgain(h) \/ Breaks(h)
  PROVE  BootstrapInv'
<1>0. /\ UNCHANGED schema /\ Grown /\ RecordedBuilt' /\ host[h] \in HostStates
      /\ Expected(h) \in Nat
  BY StoresStand, MigrationsAssumption
     DEF BootstrapBegins, ReadVersions, ReadAgain, Breaks, BootstrapInv, BootstrapShapes, Expected
<1> SUFFICES \E x : host' = [host EXCEPT ![h] = x] /\ Sound(h, x)
  BY <1>0, HostMoves
<1>1. Sound(h, Checked(h, FALSE))
  BY <1>0, CheckedSound
<1>2. CASE BootstrapBegins(h)
  <2>1. PICK apply \in BOOLEAN : host' = [host EXCEPT ![h] = [Idler EXCEPT !.stage = "read", !.apply = apply]]
    BY <1>2 DEF BootstrapBegins
  <2> DEFINE x == [Idler EXCEPT !.stage = "read", !.apply = apply]
  <2>2. /\ Idler \in HostStates
        /\ Idler.pending = {} /\ Idler.ran = 0 /\ Idler.healthy = {}
    BY DEF Idler, HostStates, Stores
  <2>3. /\ x \in HostStates /\ x.stage = "read"
        /\ x.pending = {} /\ x.ran = 0 /\ x.healthy = {}
    BY <2>2 DEF HostStates
  <2>4. Sound(h, x)
    BY <2>3 DEF Sound
  <2> QED
    BY <2>1, <2>4
<1>3. CASE ReadVersions(h)
  <2>1. PICK R \in Reads(Rows(h)) : host' = [host EXCEPT ![h] =
          IF Available(h) < Expected(h) \/ (host[h].apply /\ Mismatched(h, R)) THEN Checked(h, FALSE)
          ELSE IF host[h].apply THEN [host[h] EXCEPT !.stage = "apply", !.pending = PendingIn(h, R)]
          ELSE Checked(h, Healthy(h, R))]
    BY <1>0, <1>3 DEF ReadVersions, BootstrapInv, BootstrapShapes
  <2>2. CASE Available(h) < Expected(h) \/ (host[h].apply /\ Mismatched(h, R))
    BY <1>1, <2>1, <2>2
  <2>3. CASE ~(Available(h) < Expected(h) \/ (host[h].apply /\ Mismatched(h, R)))
    <3>0. Expected(h) <= Available(h)
      BY <1>0, <2>3, MigrationsAssumption DEF Available
    <3>1. CASE host[h].apply
      <4> DEFINE x == [host[h] EXCEPT !.stage = "apply", !.pending = PendingIn(h, R)]
      <4>1. host' = [host EXCEPT ![h] = x]
        BY <2>1, <2>3, <3>1
      <4>2. PendingIn(h, R) \in SUBSET Nat /\ PendingIn(h, R) \subseteq 1..Expected(h)
        BY <1>0 DEF PendingIn
      <4>3. /\ x \in HostStates /\ x.stage = "apply" /\ x.pending = PendingIn(h, R)
            /\ x.store = host[h].store /\ x.ran = host[h].ran /\ x.healthy = host[h].healthy
        BY <1>0, <4>2 DEF HostStates
      <4>4. x.ran = 0
        BY <1>3, <4>3 DEF ReadVersions, BootstrapInv, BootstrapShapes
      <4>5. \A v \in 1..Expected(h) : v \notin x.pending => v \in Versions(schema'[x.store].rows)
        BY <1>0, <4>3, ReadsHold DEF Rows
      <4>6. \A v \in 1..Expected(h) : \A s \in x.healthy : AllOf(h, v) \subseteq schema'[s].ran
        BY <1>0, <4>3 DEF BootstrapInv, HealthyMeansBuilt
      <4> HIDE DEF x
      <4>7. Sound(h, x)
        BY <3>0, <4>2, <4>3, <4>4, <4>5, <4>6 DEF Sound
      <4> QED
        BY <4>1, <4>7
    <3>2. CASE ~host[h].apply
      <4>1. Sound(h, Checked(h, Healthy(h, R)))
        BY <1>0, <3>0, CheckedSound, HealthyBuilt DEF Healthy
      <4> QED
        BY <2>1, <2>3, <3>2, <4>1
    <3> QED
      BY <3>1, <3>2
  <2> QED
    BY <2>2, <2>3
<1>4. CASE ReadAgain(h)
  <2>1. PICK R \in Reads(Rows(h)) : host' = [host EXCEPT ![h] = Checked(h, Healthy(h, R))]
    BY <1>4 DEF ReadAgain
  <2>2. Expected(h) <= Available(h)
    BY <1>4 DEF ReadAgain, BootstrapInv, BootstrapShapes
  <2>3. Sound(h, Checked(h, Healthy(h, R)))
    BY <1>0, <2>2, CheckedSound, HealthyBuilt DEF Healthy
  <2> QED
    BY <2>1, <2>3
<1>5. CASE Breaks(h)
  <2>1. Sound(h, Idler)
    BY DEF Sound, Idler, HostStates, Stores
  <2> QED
    BY <1>1, <1>5, <2>1 DEF Breaks
<1> QED
  BY <1>2, <1>3, <1>4, <1>5

\* The version in hand.
LEMMA InHand ==
  ASSUME BootstrapInv, NEW h \in Hosts, NEW s \in Stores, Applying(h, s)
  PROVE  /\ NextUp(h) \in host[h].pending /\ NextUp(h) \in 1..Expected(h)
         /\ Sum(h, NextUp(h)) \in Nat
         /\ 1..(NextUp(h) - 1) \subseteq Versions(schema[s].rows)
<1>1. /\ host[h].pending # {} /\ host[h].pending \subseteq 1..Expected(h)
      /\ Expected(h) <= Available(h) /\ host[h].stage = "apply" /\ host[h].store = s
  BY DEF Applying, BootstrapInv, BootstrapShapes
<1>2. Expected(h) \in Nat /\ Releases[h].sums \in Seq(Nat)
  BY MigrationsAssumption DEF Expected
<1>3. NextUp(h) \in host[h].pending /\ \A y \in host[h].pending : NextUp(h) <= y
  <2>1. host[h].pending \subseteq Nat
    BY <1>1, <1>2
  <2> QED
    BY <1>1, <2>1, LeastOfNats DEF NextUp
<1>4. NextUp(h) \in 1..Expected(h)
  BY <1>1, <1>3
<1>5. Sum(h, NextUp(h)) \in Nat
  BY <1>1, <1>2, <1>4 DEF Sum, Available
<1>6. ASSUME NEW v \in 1..(NextUp(h) - 1)
      PROVE  v \in Versions(schema[s].rows)
  <2>1. v \in 1..Expected(h) /\ v \notin host[h].pending
    BY <1>1, <1>2, <1>3, <1>4
  <2> QED
    BY <1>1, <2>1 DEF BootstrapInv, AppliedRecorded, Rows
<1> QED
  BY <1>3, <1>4, <1>5, <1>6

\* A statement of a version runs, and the version is recorded, where those below it are.
LEMMA ApplyStep ==
  ASSUME BootstrapInv, NEW h \in Hosts, ApplyPostgres(h) \/ ApplyClickHouse(h)
  PROVE  /\ BootstrapInv'
         /\ \A s \in Stores : \A x \in schema'[s].ran \ schema[s].ran :
              1..(x[1] - 1) \subseteq Versions(schema[s].rows)
<1>0. /\ host[h] \in HostStates /\ Statements \in Nat
      /\ schema \in [Stores -> [rows : SUBSET (Nat \X Nat), ran : SUBSET (Nat \X Nat \X Nat)]]
  BY MigrationsAssumption DEF BootstrapInv, BootstrapShapes
<1> DEFINE v == NextUp(h)
           done == [host[h] EXCEPT !.pending = @ \ {v}, !.ran = 0]
<1>1. /\ done \in HostStates /\ done.pending = host[h].pending \ {v} /\ done.ran = 0
      /\ done.stage = host[h].stage /\ done.store = host[h].store
      /\ done.healthy = host[h].healthy
  BY <1>0 DEF HostStates
<1>2. ASSUME NEW s \in Stores, Applying(h, s), Grown, v \in Versions(schema'[s].rows)
      PROVE  Sound(h, done)
  <2>1. /\ v \in host[h].pending /\ host[h].stage = "apply" /\ host[h].store = s
        /\ host[h].pending \subseteq 1..Expected(h) /\ Expected(h) <= Available(h)
    BY <1>2, InHand DEF Applying, BootstrapInv, BootstrapShapes
  <2>2. \A w \in 1..Expected(h) : w \notin done.pending => w \in Versions(schema'[s].rows)
    <3> SUFFICES ASSUME NEW w \in 1..Expected(h), w \notin done.pending, w # v
                 PROVE  w \in Versions(schema'[s].rows)
      BY <1>2
    <3>1. w \in Versions(schema[s].rows)
      BY <1>1, <2>1 DEF BootstrapInv, AppliedRecorded, Rows
    <3> QED
      BY <1>2, <3>1 DEF Versions, Grown
  <2>3. \A w \in 1..Expected(h) : \A t \in done.healthy : AllOf(h, w) \subseteq schema'[t].ran
    BY <1>0, <1>1, <1>2 DEF BootstrapInv, HealthyMeansBuilt, Grown, HostStates
  <2> HIDE DEF done
  <2> QED
    BY <1>1, <2>1, <2>2, <2>3 DEF Sound
<1>3. ASSUME NEW s \in Stores, NEW added \in SUBSET (Nat \X Nat), NEW ran \in SUBSET (Nat \X Nat \X Nat),
             schema' = With(s, added, ran)
      PROVE  /\ Grown
             /\ schema'[s].rows = schema[s].rows \cup added /\ schema'[s].ran = schema[s].ran \cup ran
             /\ \A t \in Stores \ {s} : schema'[t] = schema[t]
  BY <1>0, <1>3 DEF With, Grown
<1>built. ASSUME NEW s \in Stores, NEW added \in SUBSET (Nat \X Nat), NEW ran \in SUBSET (Nat \X Nat \X Nat),
             schema' = With(s, added, ran),
             \A x \in added : \A i \in 1..Statements : <<x[1], x[2], i>> \in schema[s].ran \cup ran
      PROVE  RecordedBuilt'
  <2> SUFFICES ASSUME NEW t \in Stores, NEW x \in schema'[t].rows, NEW i \in 1..Statements
               PROVE  <<x[1], x[2], i>> \in schema'[t].ran
    BY DEF RecordedBuilt
  <2>1. /\ schema'[s].rows = schema[s].rows \cup added /\ schema'[s].ran = schema[s].ran \cup ran
        /\ \A r \in Stores \ {s} : schema'[r] = schema[r]
    BY <1>3, <1>built, SMTT(30)
  <2>2. \A r \in Stores : \A y \in schema[r].rows : <<y[1], y[2], i>> \in schema[r].ran
    BY DEF BootstrapInv, RecordedBuilt
  <2>3. CASE t = s
    BY <1>built, <2>1, <2>2, <2>3
  <2>4. CASE t # s
    BY <2>1, <2>2, <2>4
  <2> QED
    BY <2>3, <2>4
<1>4. ASSUME NEW s \in Stores, NEW ran \in SUBSET (Nat \X Nat \X Nat), Applying(h, s),
             \A x \in ran : x[1] = v, \E added \in SUBSET (Nat \X Nat) : schema' = With(s, added, ran)
      PROVE  \A t \in Stores : \A x \in schema'[t].ran \ schema[t].ran :
               1..(x[1] - 1) \subseteq Versions(schema[t].rows)
  BY <1>3, <1>4, InHand, SMTT(30)
<1>5. CASE ApplyPostgres(h)
  <2>1. CASE v \in Versions(Rows(h)) /\ UNCHANGED schema /\ host' = [host EXCEPT ![h] = Checked(h, FALSE)]
    BY <2>1, CheckedSound, HostMoves, StoresStand
  <2>2. CASE /\ schema' = With("postgres", {Text(h, v)}, AllOf(h, v))
             /\ host' = Done(h, v)
    <3>1. Applying(h, "postgres") /\ "postgres" \in Stores
      BY <1>5 DEF ApplyPostgres, Stores
    <3>2. v \in Nat /\ Sum(h, v) \in Nat
      BY <3>1, InHand, MigrationsAssumption DEF Expected
    <3>3. Text(h, v) \in Nat \X Nat /\ AllOf(h, v) \in SUBSET (Nat \X Nat \X Nat)
      BY <1>0, <3>2 DEF Text, AllOf
    <3>4. /\ Grown
          /\ schema'["postgres"].rows = schema["postgres"].rows \cup {Text(h, v)}
          /\ schema'["postgres"].ran = schema["postgres"].ran \cup AllOf(h, v)
          /\ \A t \in Stores \ {"postgres"} : schema'[t] = schema[t]
      BY <1>3, <2>2, <3>1, <3>3
    <3>5. RecordedBuilt'
      <4>1. \A i \in 1..Statements : <<Text(h, v)[1], Text(h, v)[2], i>> \in AllOf(h, v)
        BY DEF Text, AllOf
      <4> QED
        BY <1>built, <2>2, <3>1, <3>3, <4>1
    <3>6. v \in Versions(schema'["postgres"].rows)
      <4>1. Text(h, v) \in schema'["postgres"].rows /\ Text(h, v)[1] = v
        BY <3>4 DEF Text
      <4> QED
        BY <4>1 DEF Versions
    <3>7. host' = [host EXCEPT ![h] = done]
      BY <1>0, <2>2 DEF Done
    <3>8. BootstrapInv'
      <4> HIDE DEF done, v
      <4> QED
        BY <1>2, <3>1, <3>4, <3>5, <3>6, <3>7, HostMoves
    <3>9. \A x \in AllOf(h, v) : x[1] = v
      BY DEF AllOf
    <3> QED
      BY <1>4, <2>2, <3>1, <3>3, <3>8, <3>9
  <2> QED
    BY <1>5, <2>1, <2>2 DEF ApplyPostgres
<1>6. CASE ApplyClickHouse(h)
  <2>1. Applying(h, "clickhouse") /\ "clickhouse" \in Stores
    BY <1>6 DEF ApplyClickHouse, Stores
  <2>2. /\ v \in Nat /\ Sum(h, v) \in Nat /\ host[h].ran \in Nat
        /\ \A i \in 1..host[h].ran : <<v, Sum(h, v), i>> \in schema["clickhouse"].ran
    BY <1>0, <2>1, InHand, MigrationsAssumption DEF Expected, HostStates, BootstrapInv, CountedRan
  <2>3. CASE /\ Recordable(h)
             /\ schema' = With("clickhouse", {Text(h, v)}, {})
             /\ host' = Done(h, v)
    <3>1. Text(h, v) \in Nat \X Nat
      BY <2>2 DEF Text
    <3>2. {} \in SUBSET (Nat \X Nat \X Nat) /\ {Text(h, v)} \in SUBSET (Nat \X Nat)
      BY <3>1
    <3>3. /\ Grown
          /\ schema'["clickhouse"].rows = schema["clickhouse"].rows \cup {Text(h, v)}
          /\ schema'["clickhouse"].ran = schema["clickhouse"].ran \cup {}
          /\ \A t \in Stores \ {"clickhouse"} : schema'[t] = schema[t]
      BY <1>3, <2>1, <2>3, <3>2
    <3>4. RecordedBuilt'
      <4>1. \A i \in 1..Statements : <<Text(h, v)[1], Text(h, v)[2], i>> \in schema["clickhouse"].ran
        BY <2>2, <2>3 DEF Text, Recordable
      <4> QED
        BY <1>built, <2>1, <2>3, <3>2, <4>1
    <3>there. v \in Versions(schema'["clickhouse"].rows)
      <4>1. Text(h, v) \in schema'["clickhouse"].rows /\ Text(h, v)[1] = v
        BY <3>3 DEF Text
      <4> QED
        BY <4>1 DEF Versions
    <3>5. host' = [host EXCEPT ![h] = done]
      BY <1>0, <2>3 DEF Done
    <3>6. BootstrapInv'
      <4> HIDE DEF done, v
      <4> QED
        BY <1>2, <2>1, <3>3, <3>4, <3>5, <3>there, HostMoves
    <3> QED
      BY <1>4, <2>1, <2>3, <3>2, <3>6
  <2>4. CASE /\ schema' = With("clickhouse", {}, {<<v, Sum(h, v), host[h].ran + 1>>})
             /\ host' = [host EXCEPT ![h].ran = @ + 1]
    <3> DEFINE x == [host[h] EXCEPT !.ran = @ + 1]
    <3>1. {<<v, Sum(h, v), host[h].ran + 1>>} \in SUBSET (Nat \X Nat \X Nat)
          /\ {} \in SUBSET (Nat \X Nat)
      BY <2>2
    <3>2. /\ Grown
          /\ schema'["clickhouse"].rows = schema["clickhouse"].rows \cup {}
          /\ schema'["clickhouse"].ran
               = schema["clickhouse"].ran \cup {<<v, Sum(h, v), host[h].ran + 1>>}
          /\ \A t \in Stores \ {"clickhouse"} : schema'[t] = schema[t]
      BY <1>3, <2>1, <2>4, <3>1
    <3>3. RecordedBuilt'
      BY <1>built, <2>1, <2>4, <3>1
    <3>4. /\ x \in HostStates /\ x.ran = host[h].ran + 1 /\ x.pending = host[h].pending
          /\ x.stage = host[h].stage /\ x.store = host[h].store /\ x.healthy = host[h].healthy
      BY <1>0, <2>2 DEF HostStates
    <3>5. \A i \in 1..x.ran : <<Min(x.pending), Sum(h, Min(x.pending)), i>> \in schema'["clickhouse"].ran
      <4>1. \A i \in 1..x.ran : i \in 1..host[h].ran \/ i = host[h].ran + 1
        BY <2>2, <3>4
      <4> QED
        BY <2>2, <3>2, <3>4, <4>1 DEF NextUp
    <3>6. \A w \in 1..Expected(h) : w \notin x.pending => w \in Versions(schema'[x.store].rows)
      BY <2>1, <3>2, <3>4 DEF BootstrapInv, AppliedRecorded, Rows, Applying
    <3>7. \A w \in 1..Expected(h) : \A t \in x.healthy : AllOf(h, w) \subseteq schema'[t].ran
      BY <1>0, <3>2, <3>4 DEF BootstrapInv, HealthyMeansBuilt, Grown, HostStates
    <3>8. host[h].stage = "apply" /\ host[h].pending \subseteq 1..Expected(h) /\ Expected(h) <= Available(h)
      BY <2>1 DEF BootstrapInv, BootstrapShapes, Applying
    <3>9. host' = [host EXCEPT ![h] = x]
      BY <1>0, <2>4
    <3> HIDE DEF x
    <3>10. Sound(h, x)
      BY <3>4, <3>5, <3>6, <3>7, <3>8 DEF Sound
    <3>11. BootstrapInv'
      BY <3>2, <3>3, <3>9, <3>10, HostMoves
    <3>12. \A y \in {<<v, Sum(h, v), host[h].ran + 1>>} : y[1] = v
      OBVIOUS
    <3> QED
      BY <1>4, <2>1, <2>4, <3>1, <3>11, <3>12
  <2> QED
    BY <1>6, <2>3, <2>4 DEF ApplyClickHouse
<1> QED
  BY <1>5, <1>6

-----------------------------------------------------------------------------
\* The first states satisfy the invariant.
LEMMA BootstrapInit == MigrationsInit => BootstrapInv
<1> SUFFICES ASSUME MigrationsInit PROVE BootstrapInv
  OBVIOUS
<1>1. /\ Idler \in HostStates /\ Idler.pending = {} /\ Idler.ran = 0 /\ Idler.healthy = {}
      /\ Idler.stage = "none"
  BY DEF Idler, HostStates, Stores
<1>2. BootstrapShapes
  BY <1>1 DEF MigrationsInit, BootstrapShapes
<1>3. RecordedBuilt /\ CountedRan /\ AppliedRecorded /\ HealthyMeansBuilt
  BY <1>1 DEF MigrationsInit, RecordedBuilt, CountedRan, Applying, AppliedRecorded, HealthyMeansBuilt
<1> QED
  BY <1>2, <1>3 DEF BootstrapInv

\* Every step of a host keeps the invariant.
LEMMA BootstrapStep ==
  ASSUME BootstrapInv, [MigrationsNext]_migrationVars
  PROVE  /\ BootstrapInv'
         /\ \A s \in Stores : \A x \in schema'[s].ran \ schema[s].ran :
              1..(x[1] - 1) \subseteq Versions(schema[s].rows)
<1>1. CASE UNCHANGED migrationVars
  BY <1>1 DEF migrationVars, BootstrapInv, BootstrapShapes, RecordedBuilt, CountedRan, NextUp, Applying,
              AppliedRecorded, Rows, HealthyMeansBuilt
<1>2. ASSUME NEW h \in Hosts, BootstrapBegins(h) \/ ReadVersions(h) \/ ReadAgain(h) \/ Breaks(h)
      PROVE  BootstrapInv' /\ UNCHANGED schema
  BY <1>2, HostStep DEF BootstrapBegins, ReadVersions, ReadAgain, Breaks
<1> QED
  BY <1>1, <1>2, ApplyStep DEF MigrationsNext, migrationVars

\* What a host is told is healthy was built in the text it has, by whichever hosts and through
\* whatever broke (MigrationRunResult.healthy).
THEOREM HealthyStoresBuilt == MigrationsSpec => []HealthyMeansBuilt
<1>1. BootstrapInv => HealthyMeansBuilt
  BY DEF BootstrapInv
<1> QED
  BY <1>1, BootstrapInit, BootstrapStep, PTL DEF MigrationsSpec

\* Versions are built in order, whichever hosts build them (run_versioned_migrations).
THEOREM VersionsBuiltInOrder == MigrationsSpec => VersionsInOrder
<1>1. ASSUME BootstrapInv, [MigrationsNext]_migrationVars
      PROVE  [\A s \in Stores : \A x \in schema'[s].ran \ schema[s].ran :
                1..(x[1] - 1) \subseteq Versions(schema[s].rows)]_schema
  BY <1>1, BootstrapStep
<1> QED
  BY <1>1, BootstrapInit, BootstrapStep, PTL DEF MigrationsSpec, VersionsInOrder
=============================================================================
