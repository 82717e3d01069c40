------------------------------ MODULE Lifecycle -------------------------------
(***************************************************************************)
(* Retention in PostgreSQL (services/lifecycle.py): four sections, one     *)
(* after the other, each of which selects the rows past their time, writes *)
(* them into an object of the archive, deletes them by their ids and       *)
(* commits, while the outbox worker and the runtime go on.                 *)
(*                                                                         *)
(* Left out: the ClickHouse TTLs and the rules of the bucket, which are    *)
(* declarations to other systems; --dry-run, which changes nothing; what   *)
(* the rows hold beside their status and the time their section goes by.   *)
(***************************************************************************)
EXTENDS Integers, Sequences, FiniteSets

CONSTANTS
  Tables,       \* tables that rows are added to
  Retention,    \* days, of each section
  Clock,        \* bound: the days on which something happens
  MaxRows,      \* bound: rows ever added
  MaxKeeps,     \* bound: retention runs
  MaxKeepFaults \* bound: exceptions, deaths of the retention run

ASSUME LifecycleAssumption ==
  /\ Tables \subseteq {"audit", "outbox", "cycles"}
  /\ Retention \in Nat /\ Clock \subseteq Nat /\ 0 \in Clock
  /\ MaxRows \in Nat /\ MaxKeeps \in Nat /\ MaxKeepFaults \in Nat

\* specs: the name of a section's objects, its table, and the status its rows have settled in.
Sections == <<[name |-> "bootstrap-audit",  table |-> "audit",  settled |-> "recorded"],
              [name |-> "outbox-delivered", table |-> "outbox", settled |-> "delivered"],
              [name |-> "outbox-failed",    table |-> "outbox", settled |-> "failed"],
              [name |-> "runtime-cycles",   table |-> "cycles", settled |-> "finished"]>>

Ids == 1..MaxRows
NoRow == [table |-> "none", status |-> "none", at |-> 0]

VARIABLES
  clock,       \* the day
  rows,        \* by id: its table, its status and when it came to it; NoRow before and after
  stored,      \* rows ever added
  controller,  \* the runtime controller: its active and its latest cycle (0: none)
  archive,     \* the archive's objects
  keeper,      \* the retention run: its section, its stage, its day, its stamp, what it has picked
  keeps,       \* retention runs begun: the second of a run, for the name of its objects
  keepFaults

lifecycleVars == <<clock, rows, stored, controller, archive, keeper, keeps, keepFaults>>

NoKeeper == [stage |-> "none", section |-> 1, at |-> 0, stamp |-> 0, picked |-> {}]

LifecycleInit ==
  /\ clock = 0
  /\ rows = [i \in Ids |-> NoRow] /\ stored = 0
  /\ controller = [active |-> 0, latest |-> 0]
  /\ archive = {}
  /\ keeper = NoKeeper /\ keeps = 0 /\ keepFaults = 0

-----------------------------------------------------------------------------
(* Those who go on: time, the audit of bootstrap, publishers and workers   *)
(* of the outbox, and the runtime, which writes its cycle before the       *)
(* controller's row.                                                       *)

DayPasses ==
  /\ \E t \in Clock : t > clock /\ clock' = t
  /\ UNCHANGED <<rows, stored, controller, archive, keeper, keeps, keepFaults>>

Added == [audit |-> "recorded", outbox |-> "pending", cycles |-> "running"]

\* The runtime's cycle in progress is its own, whatever the controller's row says.
Running == {i \in Ids : rows[i].table = "cycles" /\ rows[i].status = "running"}

Add(t) ==
  /\ stored < MaxRows
  /\ t = "cycles" => Running = {}
  /\ stored' = stored + 1
  /\ rows' = [rows EXCEPT ![stored + 1] = [table |-> t, status |-> Added[t], at |-> clock]]
  /\ UNCHANGED <<clock, controller, archive, keeper, keeps, keepFaults>>

\* start_runtime_cycle, its second write.
CycleShown(i) ==
  /\ i \in Running /\ controller.active # i
  /\ controller' = [active |-> i, latest |-> i]
  /\ UNCHANGED <<clock, rows, stored, archive, keeper, keeps, keepFaults>>

\* complete_runtime_cycle, its first write and its second.
CycleEnds(i) ==
  /\ i \in Running /\ controller.active = i
  /\ rows' = [rows EXCEPT ![i].status = "finished", ![i].at = clock]
  /\ UNCHANGED <<clock, stored, controller, archive, keeper, keeps, keepFaults>>

CycleReleased(i) ==
  /\ rows[i].status = "finished" /\ controller.active = i
  /\ controller' = [active |-> 0, latest |-> i]
  /\ UNCHANGED <<clock, rows, stored, archive, keeper, keeps, keepFaults>>

\* The worker claims a row, a failed one again, and settles it.
Work(i) ==
  /\ rows[i].table = "outbox"
  /\ \/ /\ rows[i].status \in {"pending", "failed"}
        /\ rows' = [rows EXCEPT ![i].status = "processing", ![i].at = clock]
     \/ /\ rows[i].status = "processing"
        /\ \E s \in {"delivered", "failed"} : rows' = [rows EXCEPT ![i].status = s, ![i].at = clock]
  /\ UNCHANGED <<clock, stored, controller, archive, keeper, keeps, keepFaults>>

-----------------------------------------------------------------------------
(* The retention run.                                                      *)

KeeperBegins ==
  /\ keeper = NoKeeper /\ keeps < MaxKeeps
  /\ keeps' = keeps + 1
  /\ keeper' = [NoKeeper EXCEPT !.stage = "select", !.at = clock, !.stamp = keeps + 1]
  /\ UNCHANGED <<clock, rows, stored, controller, archive, keepFaults>>

Section == Sections[keeper.section]

\* The where clause of a section: settled, and before the cutoff.
Past(i) ==
  /\ rows[i].table = Section.table /\ rows[i].status = Section.settled
  /\ rows[i].at < keeper.at - Retention

\* _protected_runtime_cycle_ids; the mutant spares only the cycle in progress.
ProtectedActive == IF Section.table = "cycles" THEN {controller.active} ELSE {}
Protected == IF Section.table = "cycles" THEN {controller.active, controller.latest} ELSE {}

\* The next section, or the end; the mutant has no end.
OnwardsAlways == [keeper EXCEPT !.stage = "select", !.section = @ + 1, !.picked = {}]
Onwards == IF keeper.section < Len(Sections)
             THEN [keeper EXCEPT !.stage = "select", !.section = @ + 1, !.picked = {}]
           ELSE NoKeeper

Select ==
  /\ keeper.stage = "select"
  /\ keeper' = [keeper EXCEPT !.stage = "spare", !.picked = {i \in Ids : Past(i)}]
  /\ UNCHANGED <<clock, rows, stored, controller, archive, keeps, keepFaults>>

Spare ==
  /\ keeper.stage = "spare"
  /\ LET left == keeper.picked \ Protected
     IN keeper' = IF left = {} THEN Onwards
                  ELSE [keeper EXCEPT !.stage = "archive", !.picked = left]
  /\ UNCHANGED <<clock, rows, stored, controller, archive, keeps, keepFaults>>

\* Mutant: the object is named for the table and not for the section.
ArchiveKeyOfTable == <<Section.table, keeper.stamp>>
ArchiveKey == <<Section.name, keeper.stamp>>

\* _archive_rows: put with overwrite.
Archive ==
  /\ keeper.stage = "archive"
  /\ archive' = {x \in archive : x.key # ArchiveKey} \cup {[key |-> ArchiveKey, ids |-> keeper.picked]}
  /\ keeper' = [keeper EXCEPT !.stage = "delete"]
  /\ UNCHANGED <<clock, rows, stored, controller, keeps, keepFaults>>

\* _delete_rows and the commit: by id, whatever has become of the row.
Delete ==
  /\ keeper.stage = "delete"
  /\ rows' = [i \in Ids |-> IF i \in keeper.picked THEN NoRow ELSE rows[i]]
  /\ keeper' = Onwards
  /\ UNCHANGED <<clock, stored, controller, archive, keeps, keepFaults>>

\* An exception rolls the section back, and the next one is run; a death ends the run.
KeeperFails ==
  /\ keeper # NoKeeper /\ keepFaults < MaxKeepFaults
  /\ keepFaults' = keepFaults + 1
  /\ keeper' \in {Onwards, NoKeeper}
  /\ UNCHANGED <<clock, rows, stored, controller, archive, keeps>>

LifecycleNext ==
  \/ DayPasses
  \/ \E t \in Tables : Add(t)
  \/ \E i \in Ids : CycleShown(i) \/ CycleEnds(i) \/ CycleReleased(i) \/ Work(i)
  \/ KeeperBegins \/ Select \/ Spare \/ Archive \/ Delete \/ KeeperFails

LifecycleSpec == LifecycleInit /\ [][LifecycleNext]_lifecycleVars

-----------------------------------------------------------------------------
LifecycleTypeOK ==
  /\ clock \in Clock /\ stored \in 0..MaxRows /\ keeps \in 0..MaxKeeps
  /\ keepFaults \in 0..MaxKeepFaults
  /\ \A i \in Ids : rows[i] = NoRow \/ rows[i].table \in Tables
  /\ controller \in [active : 0..MaxRows, latest : 0..MaxRows]
  /\ keeper.stage \in {"none", "select", "spare", "archive", "delete"}
  /\ keeper.section \in 1..4 /\ keeper.picked \subseteq Ids

\* A row that is gone is in the archive: whatever section of whatever run took it, and whatever
\* failed in between, no later object has taken the place of the one that holds it.
ArchivedBeforeGone ==
  \A i \in 1..stored : rows[i] = NoRow => \E x \in archive : i \in x.ids

\* The cycles the controller names are there: retention, which selects the cycles and reads the
\* controller at two times, never takes one that the runtime goes on showing.
ControllerFound ==
  \A i \in {controller.active, controller.latest} \ {0} : rows[i].table = "cycles"
=============================================================================
