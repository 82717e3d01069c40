-------------------------------- MODULE Lanes ---------------------------------
(***************************************************************************)
(* The runtime with several lanes: one process with a loop a lane (a       *)
(* thread each, run_multi_lane_continuous), the operator's commands, and   *)
(* the two control planes.  In SQLite each lane has a row, and one lane's  *)
(* row is copied to the singleton row of older releases; PostgreSQL has    *)
(* one row and takes one lane, and commits the row of a cycle before the   *)
(* controller's.  What RuntimeControl says of pauses on one lane is left   *)
(* out here; the phases of a cycle, left out there, are here.              *)
(*                                                                         *)
(* Left out: heartbeats, errors and labels (they guard nothing), and the   *)
(* second attempt at a cycle's end when the first one raised half-way.     *)
(***************************************************************************)
EXTENDS Integers, Sequences, FiniteSets

CONSTANTS
  LaneNames,
  Default,     \* DEFAULT_RUNTIME_LANE
  Planes,      \* control planes in use
  Crews,       \* bound: the lanes started together
  Pasts,       \* bound: what an older release left, [cycles, controller]
  Phases,      \* the phases of a cycle, in order
  MaxCycles,   \* bound: cycles
  MaxLaunches, \* bound: processes of the runtime
  MaxOrders,   \* bound: operator commands
  MaxMishaps   \* bound: deaths, exceptions and interrupts

ASSUME LanesAssumption ==
  /\ Default \in LaneNames /\ "operator" \notin LaneNames /\ IsFiniteSet(LaneNames)
  /\ Planes \subseteq {"sqlite", "postgres"} /\ Crews \subseteq (SUBSET LaneNames) \ {{}}
  /\ Phases \in Seq(STRING) /\ Len(Phases) > 1
  /\ {MaxCycles, MaxLaunches, MaxOrders, MaxMishaps} \subseteq Nat

VARIABLES
  plane,      \* the control plane this installation has
  lanes,      \* controller rows, by lane
  singleton,  \* runtime_controller_state of SQLite
  ran,        \* runtime_cycles: lane, status, phase
  crew,       \* lanes of the process
  loop,       \* of a lane: where its loop stands, and in which cycle
  call,       \* a write of the controller row that somebody is at
  halt,       \* how the loops are asked to stop
  torn,       \* history: lanes whose row was written half, or back over a newer one
  launches, orders, mishaps

lanesVars == <<plane, lanes, singleton, ran, crew, loop, call, halt, torn, launches, orders, mishaps>>

NoCycle == 0
NoCall == [stage |-> "none"]
NewRow == [status |-> "idle", phase |-> "idle", active |-> NoCycle, latest |-> NoCycle,
           requested |-> "none"]
Actors == LaneNames \cup {"operator"}

\* PostgreSQL drops the lane: every call is about the one row.
Key(l) == IF plane = "postgres" THEN Default ELSE l
Row(l) == IF Key(l) \in DOMAIN lanes THEN lanes[Key(l)] ELSE NewRow

\* Mutant: the latest lane that wrote is shown.
SyncedAlways(l, rowsNow) == TRUE

\* _sync_legacy_runtime_controller_state_from_lane: the default lane, or else the only one.
Synced(l, rowsNow) ==
  l = Default \/ (Default \notin DOMAIN rowsNow /\ Cardinality(DOMAIN rowsNow) = 1)

Copied(l, row, rowsNow) == IF plane = "sqlite" /\ Synced(l, rowsNow) THEN row ELSE singleton

\* A row with some columns changed.
Over(change, row) == [f \in DOMAIN row |-> IF f \in DOMAIN change THEN change[f] ELSE row[f]]

\* An upsert of a lane's row; SQLite copies it in the same transaction.
Upsert(l, row) ==
  LET rowsNow == [k \in DOMAIN lanes \cup {Key(l)} |-> IF k = Key(l) THEN row ELSE lanes[k]] IN
  /\ lanes' = rowsNow
  /\ singleton' = Copied(l, row, rowsNow)

\* _controller_status_from_runtime_cycle_status, _controller_phase_from_runtime_state
ControllerStatus(status) == IF status \in {"running", "failed"} THEN status ELSE "idle"
ControllerPhase(status, phase) == IF ControllerStatus(status) = "idle" THEN "idle" ELSE phase

\* What the calls change, over the row that is there.
Opening(c) == [status |-> "running", phase |-> "starting", active |-> c, latest |-> c,
               requested |-> "none"]
Closing(c, status, phase) ==
  [status |-> ControllerStatus(status), phase |-> ControllerPhase(status, phase),
   active |-> NoCycle, latest |-> c]
Scheduling(latest) == [status |-> "scheduled", phase |-> "waiting", active |-> NoCycle,
                       latest |-> latest, requested |-> "none"]
Pausing(latest) == [status |-> "paused", phase |-> "paused", active |-> NoCycle,
                    latest |-> latest, requested |-> "none"]
Idling == [status |-> "idle", phase |-> "idle", active |-> NoCycle, requested |-> "none"]

-----------------------------------------------------------------------------
(* What an older release left.                                             *)

\* Its controller was written with its cycles: it says running of the last of them or of none.
ASSUME PastsAssumption ==
  \A past \in Pasts :
    LET row == past.controller
        last == Len(past.cycles)
    IN /\ past.cycles \in Seq([lane : LaneNames, status : STRING, phase : STRING])
       /\ DOMAIN row = DOMAIN NewRow /\ {row.active, row.latest} \subseteq 0..last
       /\ row.status = "running" <=> row.active # NoCycle
       /\ row.active # NoCycle =>
            /\ row.active = last /\ row.latest = last
            /\ past.cycles[last].status = "running" /\ past.cycles[last].phase = row.phase

\* _backfill_runtime_controller_state, from the latest cycle.
SingletonOf(past) ==
  IF past.controller # NewRow \/ past.cycles = <<>> THEN past.controller
  ELSE LET c == Len(past.cycles)
           last == past.cycles[c]
       IN [status |-> ControllerStatus(last.status), phase |-> last.phase, latest |-> c,
           active |-> IF last.status = "running" THEN c ELSE NoCycle, requested |-> "none"]

\* _backfill_runtime_lane_controller_state: one lane, that of the latest cycle.
LanesOf(past) ==
  IF past.cycles = <<>> /\ past.controller = NewRow THEN [l \in {} |-> NewRow]
  ELSE [l \in {IF past.cycles = <<>> THEN Default ELSE past.cycles[Len(past.cycles)].lane} |->
          SingletonOf(past)]

Off == [at |-> "off", cycle |-> NoCycle]

LanesInit ==
  /\ plane \in Planes
  /\ \E past \in Pasts :
       /\ plane = "postgres" => past.cycles = <<>> /\ past.controller = NewRow
       /\ lanes = LanesOf(past) /\ singleton = SingletonOf(past) /\ ran = past.cycles
  /\ crew = {} /\ loop = [l \in LaneNames |-> Off] /\ call = [a \in Actors |-> NoCall]
  /\ halt = "no" /\ torn = {} /\ launches = 0 /\ orders = 0 /\ mishaps = 0

-----------------------------------------------------------------------------
(* set_runtime_controller_state: asked for, the row read, the row written. *)

Bounds == <<launches, orders, mishaps>>
Goes(l, at) == loop' = [loop EXCEPT ![l].at = at]
Calls(a, l, change) ==
  call' = [call EXCEPT ![a] = [stage |-> "asked", lane |-> Key(l), change |-> change]]
Free(l) == call[l] = NoCall

\* A loop's own changes set every column that is kept here but the latest cycle, which only the
\* loop changes, so that in SQLite its second read does not matter.
Reread(a) == a = "operator" \/ plane = "postgres"

LoadRow(a) ==
  /\ call[a].stage = "asked" /\ Reread(a)
  /\ call' = [call EXCEPT ![a] = [stage |-> "loaded", lane |-> @.lane, change |-> @.change,
                                  base |-> Row(@.lane)]]
  /\ UNCHANGED <<plane, lanes, singleton, ran, crew, loop, halt, torn, Bounds>>

\* request_runtime_pause, request_runtime_resume: what they change of the row they read.
PauseOf(row) == IF row.status \in {"scheduled", "paused"}
                THEN [status |-> "paused", phase |-> "paused", requested |-> "none"]
                ELSE [requested |-> "pause"]
ResumeOf(row) == IF row.status = "paused"
                 THEN [status |-> "scheduled", phase |-> "waiting", requested |-> "none"]
                 ELSE [requested |-> IF row.requested = "pause" THEN "none" ELSE "resume"]

\* A command wrote over a row that had moved since it read it.
Overtaken(a) ==
  a = "operator" /\ (\/ call[a].base # Row(Default)
                     \/ call[a].change \notin {PauseOf(Row(Default)), ResumeOf(Row(Default))})

\* Loops end, and with the last one the process.
Ends(gone, asked) ==
  LET over == \A l \in LaneNames \ gone : loop[l] = Off IN
  /\ loop' = [l \in LaneNames |-> IF l \in gone THEN Off ELSE loop[l]]
  /\ crew' = IF over THEN {} ELSE crew
  /\ halt' = IF over THEN "no" ELSE asked

WriteRow(a) ==
  /\ call[a].stage = (IF Reread(a) THEN "loaded" ELSE "asked")
  /\ Upsert(call[a].lane, Over(call[a].change, IF Reread(a) THEN call[a].base ELSE Row(a)))
  /\ torn' = IF Overtaken(a) THEN torn \cup {call[a].lane}
             ELSE IF a \in LaneNames /\ "active" \in DOMAIN call[a].change THEN torn \ {call[a].lane}
             ELSE torn
  /\ call' = [call EXCEPT ![a] = NoCall]
  /\ IF a \in LaneNames /\ loop[a].at = "ending" THEN Ends({a}, halt)
     ELSE UNCHANGED <<loop, crew, halt>>
  /\ UNCHANGED <<plane, ran, Bounds>>

-----------------------------------------------------------------------------
(* The loops.                                                              *)

\* _ensure_lane_aware_control_plane: PostgreSQL takes no lane_name.
LaneAware(c) == plane = "postgres" => Cardinality(c) = 1

\* continuous, or several lanes at once.
LaunchCrew(c) ==
  /\ \A l \in LaneNames : loop[l] = Off
  /\ LaneAware(c)
  /\ launches < MaxLaunches /\ launches' = launches + 1
  /\ crew' = c /\ halt' = "no"
  /\ loop' = [l \in LaneNames |-> IF l \in c THEN [Off EXCEPT !.at = "boot"] ELSE Off]
  /\ UNCHANGED <<plane, lanes, singleton, ran, call, torn, orders, mishaps>>

\* _bootstrap_controller
BootLane(l) ==
  /\ loop[l].at = "boot" /\ Goes(l, "poll")
  /\ Calls(l, l, IF Row(l).status = "paused" THEN Pausing(Row(l).latest) ELSE Scheduling(Row(l).latest))
  /\ UNCHANGED <<plane, lanes, singleton, ran, crew, halt, torn, Bounds>>

\* _wait_for_next_cycle_window
PollLane(l) ==
  /\ loop[l].at = "poll" /\ Free(l)
  /\ \/ halt # "no" /\ Goes(l, "stopping") /\ UNCHANGED call
     \/ /\ halt = "no" /\ Row(l).status = "paused"
        /\ Calls(l, l, Pausing(Row(l).latest)) /\ UNCHANGED loop
     \/ /\ halt = "no" /\ Row(l).status = "scheduled"
        /\ \/ Calls(l, l, Scheduling(Row(l).latest)) /\ UNCHANGED loop
           \/ Goes(l, "start") /\ UNCHANGED call
     \/ /\ halt = "no" /\ Row(l).status \notin {"paused", "scheduled"}
        /\ Calls(l, l, Scheduling(Row(l).latest)) /\ Goes(l, "start")
  /\ UNCHANGED <<plane, lanes, singleton, ran, crew, halt, torn, Bounds>>

\* A cycle's row, then the controller's: in one transaction, or the second by a call of its own.
Together(l, change) ==
  IF plane = "sqlite"
  THEN /\ Upsert(l, Over(change, Row(l))) /\ UNCHANGED call
       /\ torn' = IF "active" \in DOMAIN change THEN torn \ {l} ELSE torn
  ELSE Calls(l, l, change) /\ UNCHANGED <<lanes, singleton, torn>>

\* start_runtime_cycle
StartCycle(l) ==
  /\ loop[l].at = "start" /\ Free(l) /\ Len(ran) < MaxCycles
  /\ ran' = Append(ran, [lane |-> l, status |-> "running", phase |-> "starting"])
  /\ loop' = [loop EXCEPT ![l] = [at |-> "work", cycle |-> Len(ran) + 1]]
  /\ Together(l, Opening(Len(ran) + 1))
  /\ UNCHANGED <<plane, crew, halt, Bounds>>

PhaseOrder(phase) == CHOOSE k \in DOMAIN Phases : Phases[k] = phase
PhaseNow(l) == PhaseOrder(ran[loop[l].cycle].phase)

\* update_runtime_cycle_phase: the controller's too if it is at this cycle.
NextPhase(l) ==
  LET c == loop[l].cycle IN
  /\ loop[l].at = "work" /\ Free(l) /\ halt # "ctrl-c" /\ PhaseNow(l) < Len(Phases)
  /\ ran' = [ran EXCEPT ![c].phase = Phases[PhaseNow(l) + 1]]
  /\ IF Row(l).active = c THEN Together(l, [phase |-> Phases[PhaseNow(l) + 1]])
     ELSE UNCHANGED <<lanes, singleton, call, torn>>
  /\ UNCHANGED <<plane, crew, loop, halt, Bounds>>

\* complete_runtime_cycle; then the loop goes on, or has had its cycles.
EndCycle(l, status, phase) ==
  LET c == loop[l].cycle IN
  /\ ran' = [ran EXCEPT ![c] = Over([status |-> status, phase |-> phase], @)]
  /\ Together(l, Closing(c, status, phase))
  /\ \/ loop' = [loop EXCEPT ![l] = [at |-> "stopping", cycle |-> NoCycle]]
     \/ halt = "no" /\ Goes(l, "settle")
  /\ UNCHANGED <<plane, crew, halt, Bounds>>

\* The end of run_cycle.  Ctrl-C reaches the cycle only if its loop is the process.
CycleOver(l) ==
  /\ loop[l].at = "work" /\ Free(l) /\ PhaseNow(l) > 1
  /\ \/ halt # "ctrl-c" /\ PhaseNow(l) = Len(Phases) /\ EndCycle(l, "completed", "completed")
     \/ halt # "ctrl-c" /\ EndCycle(l, "failed", Phases[PhaseNow(l)])
     \/ halt = "ctrl-c" /\ EndCycle(l, "interrupted", Phases[PhaseNow(l)])

\* After a cycle: a pause that was asked for, or the next window.
SettleLane(l) ==
  /\ loop[l].at = "settle" /\ Free(l)
  /\ \/ /\ halt # "no" /\ loop' = [loop EXCEPT ![l] = [at |-> "stopping", cycle |-> NoCycle]]
        /\ UNCHANGED call
     \/ /\ halt = "no" /\ loop' = [loop EXCEPT ![l] = [at |-> "poll", cycle |-> NoCycle]]
        /\ Calls(l, l, IF Row(l).requested = "pause" THEN Pausing(loop[l].cycle)
                      ELSE Scheduling(loop[l].cycle))
  /\ UNCHANGED <<plane, lanes, singleton, ran, crew, halt, torn, Bounds>>

\* _idle_controller
StopLane(l) ==
  /\ loop[l].at = "stopping" /\ Free(l) /\ Goes(l, "ending")
  /\ Calls(l, l, Idling)
  /\ UNCHANGED <<plane, lanes, singleton, ran, crew, halt, torn, Bounds>>

\* Ctrl-C: the one loop is interrupted, several are asked to stop.
Interrupted ==
  /\ halt = "no" /\ mishaps < MaxMishaps /\ mishaps' = mishaps + 1
  /\ \E l \in crew : loop[l].at = "poll" \/ (loop[l].at = "work" /\ PhaseNow(l) > 1)
  /\ halt' = IF Cardinality(crew) = 1 THEN "ctrl-c" ELSE "stop"
  /\ \A l \in crew : Cardinality(crew) = 1 => Free(l)
  /\ UNCHANGED <<plane, lanes, singleton, ran, crew, loop, call, torn, launches, orders>>

\* Loops end where they are, and what they had not yet written is not written: one of several
\* raises and stops the others, or the process dies.
Lost(gone) ==
  /\ mishaps < MaxMishaps /\ mishaps' = mishaps + 1
  /\ gone # {} /\ \A l \in gone : loop[l] # Off
  /\ call' = [a \in Actors |-> IF a \in gone THEN NoCall ELSE call[a]]
  /\ Ends(gone, "stop")
  /\ torn' = torn \cup {Key(l) : l \in {l \in gone : plane = "postgres" /\ ~Free(l)}}
  /\ UNCHANGED <<plane, lanes, singleton, ran, launches, orders>>

LaneRaises(l) == Lost({l})
RuntimeDies == Cardinality(crew) > 1 /\ Lost({l \in crew : loop[l] # Off})

\* runtime-pause, runtime-resume: of the default lane.
Order ==
  /\ Free("operator") /\ orders < MaxOrders /\ orders' = orders + 1
  /\ \E change \in {PauseOf(Row(Default)), ResumeOf(Row(Default))} : Calls("operator", Default, change)
  /\ UNCHANGED <<plane, lanes, singleton, ran, crew, loop, halt, torn, launches, mishaps>>

LanesNext ==
  \/ \E c \in Crews : LaunchCrew(c)
  \/ \E l \in LaneNames : \/ BootLane(l) \/ PollLane(l) \/ StartCycle(l) \/ NextPhase(l)
                          \/ CycleOver(l) \/ SettleLane(l) \/ StopLane(l) \/ LaneRaises(l)
  \/ \E a \in Actors : LoadRow(a) \/ WriteRow(a)
  \/ Interrupted \/ RuntimeDies \/ Order

LanesSpec == LanesInit /\ [][LanesNext]_lanesVars

-----------------------------------------------------------------------------
(* What is shown: runtime_status.                                          *)

LatestOf(l) == {k \in DOMAIN ran : Key(ran[k].lane) = l /\ \A j \in DOMAIN ran :
                                     Key(ran[j].lane) = l => j <= k}

\* _build_runtime_status_view: the controller, or else the latest cycle.
ViewOf(l) ==
  IF l \in DOMAIN lanes THEN [status |-> lanes[l].status, active |-> lanes[l].active]
  ELSE LET k == CHOOSE k \in LatestOf(l) : TRUE
       IN [status |-> ControllerStatus(ran[k].status), active |-> NoCycle]

KnownLanes == DOMAIN lanes \cup {Key(ran[k].lane) : k \in DOMAIN ran}

\* Mutant: a pause comes before all.
PriorityPausedFirst(status) == CASE status = "running" -> 4 [] status = "paused" -> 5
                                 [] status = "scheduled" -> 3 [] status = "failed" -> 2
                                 [] OTHER -> 1

Priority(status) == CASE status = "running" -> 5 [] status = "paused" -> 4
                      [] status = "scheduled" -> 3 [] status = "failed" -> 2 [] OTHER -> 1

\* runtime_status of PostgreSQL: the one controller, or else the latest cycle of all.
PostgresViews == {ViewOf(l) : l \in KnownLanes}

\* _aggregate_runtime_status_from_lanes; of equal ones the row written last, which may be any.
ShownViews ==
  IF plane = "postgres" THEN PostgresViews
  ELSE {ViewOf(l) : l \in {l \in KnownLanes : \A m \in KnownLanes :
                 Priority(ViewOf(m).status) <= Priority(ViewOf(l).status)}}

-----------------------------------------------------------------------------
LanesTypeOK ==
  /\ DOMAIN lanes \subseteq (IF plane = "postgres" THEN {Default} ELSE LaneNames)
  /\ \A l \in LaneNames : /\ loop[l].at = "work" => loop[l].cycle \in DOMAIN ran
                          /\ loop[l] # Off => l \in crew
  /\ \A a \in Actors : call[a].stage \in {"none", "asked", "loaded"}
  /\ torn \subseteq LaneNames /\ halt \in {"no", "stop", "ctrl-c"}

\* The singleton row, which readers of older releases and the status page still take for the
\* controller, is at every moment the row of the default lane, whatever other lanes write; and
\* while there is only one lane, of that lane.  Not for a database the release before left with
\* lanes but without the default one: then it keeps the row of the first.
SingletonFollows ==
  plane = "sqlite" => \A l \in DOMAIN lanes : l = Default \/ DOMAIN lanes = {l} => singleton = lanes[l]

\* A row whose loop is not between its two writes, and that was not written half or back over
\* a newer one.
Sound(l) == l \notin torn /\ \A m \in LaneNames : plane = "postgres" /\ Key(m) = l => Free(m)

\* What is shown of the runtime, lane by lane and of all lanes together, is what its cycles
\* are: a lane says running exactly if it names a cycle, which is the lane's latest one, runs
\* and is in the phase shown; and the whole says running if a loop works, and then some cycle
\* does run.
StatusHonest ==
  /\ \A l \in DOMAIN lanes : Sound(l) =>
       LET row == lanes[l] IN
       /\ row.status = "running" <=> row.active # NoCycle
       /\ row.active # NoCycle =>
            /\ row.active = row.latest /\ row.active \in LatestOf(l)
            /\ ran[row.active].status = "running" /\ ran[row.active].phase = row.phase
  /\ \A view \in ShownViews :
       /\ (\E l \in LaneNames : loop[l].at = "work" /\ Sound(Key(l))) => view.status = "running"
       /\ view.status = "running" /\ (\A l \in LaneNames : Sound(Key(l))) =>
            \E k \in DOMAIN ran : ran[k].status = "running"
=============================================================================
