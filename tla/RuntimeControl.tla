--------------------------- MODULE RuntimeControl ---------------------------
(***************************************************************************)
(* The runtime control plane of one lane: the controller row that          *)
(* services/runtime.py and the operator's runtime-pause / runtime-resume   *)
(* share through repository.py.                                            *)
(*                                                                         *)
(* Each repository call is a transaction of its own on a connection of its *)
(* own, so a loop that reads the row and writes it back takes two steps.   *)
(* set_runtime_controller_state selects the row before its transaction     *)
(* opens (sqlite3 opens one at the first INSERT), so an operator's command *)
(* takes three: the read it decides on, the read it writes back, the       *)
(* write.  The loop's own writes set every modelled column, so its second  *)
(* read does not matter.                                                   *)
(*                                                                         *)
(* Left out: phase, heartbeat, errors and labels (they guard nothing); the *)
(* legacy singleton row, which the default lane's calls copy in the same   *)
(* transaction; start_immediately, which only scripts/run_vps_benchmark.py *)
(* asks for.                                                               *)
(***************************************************************************)
EXTENDS Integers

CONSTANTS
  Runners,    \* processes of the continuous command, at most one at a time a lane
  Batches,    \* processes of the batch command on the same lane
  Operators,  \* processes of runtime-pause and runtime-resume
  Interval,   \* interval_seconds, in ticks
  None

ASSUME ControlAssumption ==
  /\ Interval \in Nat \ {0}
  /\ Runners \cap Batches = {}
  /\ None \notin (Runners \cup Batches) \X {0, 1}

Procs == Runners \cup Batches
Cycles == Procs \X {0, 1}      \* the latest cycle of a process and the one before
NoWait == -1                   \* next_resume_at IS NULL
Waits == NoWait .. Interval    \* next_resume_at, in ticks from now; 0 when past

Row == [status : {"idle", "scheduled", "running", "paused", "failed"},
        mode : {"none", "continuous", "batch"},
        active : Cycles \cup {None},
        requested : {"none", "pause", "resume"},
        wait : Waits]

VARIABLES
  ctl,      \* the lane's row of runtime_lane_controller_state
  cycles,   \* runtime_cycles.status of the latest cycle of each process
  pc,       \* where a process stands
  next,     \* what a loop will write, decided on the row it read
  mine,     \* the cycle a process runs, or ran last
  op,       \* an operator's command: what it decided to write
  loaded,   \* the row the command will write back
  order,    \* history: what the last command asked for, and whether it can still be kept
  torn      \* history: a command wrote back a row that had changed under it

procs == <<pc, next, mine>>
vars == <<ctl, cycles, procs, op, loaded, order, torn>>

\* Stages in which a loop has read the row and not yet written what follows from it.
Decided == {"heartbeat", "kick", "start", "stopping"}
Stages == {"off", "boot", "poll", "work", "settle"} \cup Decided
Forms == {"none", "hold", "ask", "early", "release", "clear", "nudge"}
Orders == {"run", "asked", "held", "lost", "stuck"}

NoRow == [status |-> "idle", mode |-> "none", active |-> None, requested |-> "none",
          wait |-> NoWait]
\* What _schedule_controller, _pause_controller and _idle_controller write.
Scheduled(wait) == [status |-> "scheduled", mode |-> "continuous", active |-> None,
                    requested |-> "none", wait |-> wait]
Paused == [Scheduled(NoWait) EXCEPT !.status = "paused"]
Idle == [Scheduled(NoWait) EXCEPT !.status = "idle"]

Busy(p) == pc[p] \in {"work", "settle"}
LoopRuns == \E p \in Runners : pc[p] \notin {"off", "boot"}
Goes(p, stage) == pc' = [pc EXCEPT ![p] = stage]
Writes(row) == ctl' = row /\ torn' = FALSE
Plans(p, row) == next' = [next EXCEPT ![p] = row]

-----------------------------------------------------------------------------
Init ==
  /\ ctl = NoRow
  /\ cycles = [c \in Cycles |-> "none"]
  /\ pc = [p \in Procs |-> "off"]
  /\ next = [p \in Procs |-> NoRow]
  /\ mine = [p \in Procs |-> <<p, 0>>]
  /\ op = [o \in Operators |-> "none"]
  /\ loaded = [o \in Operators |-> NoRow]
  /\ order = "run"
  /\ torn = FALSE

\* The command starts: continuous bootstraps its controller, batch goes straight to a cycle.
Launch(p) ==
  /\ pc[p] = "off"
  /\ p \in Runners => \A q \in Runners : pc[q] = "off"
  /\ Goes(p, IF p \in Runners THEN "boot" ELSE "start")
  /\ UNCHANGED <<ctl, cycles, next, mine, op, loaded, order, torn>>

\* What the bootstrap makes of the row it reads: a pause and a schedule survive a restart.
Bootstrapped(row) ==
  IF row.status = "paused" THEN Paused
  ELSE IF row.status = "scheduled" /\ row.wait # NoWait THEN Scheduled(row.wait)
  ELSE Scheduled(0)

\* _bootstrap_controller reads the row; Heartbeat writes.
Boot(p) ==
  /\ pc[p] = "boot"
  /\ Plans(p, Bootstrapped(ctl))
  /\ Goes(p, "heartbeat")
  /\ UNCHANGED <<ctl, cycles, mine, op, loaded, order, torn>>

\* _wait_for_next_cycle_window reads the row.  A row that is neither paused nor scheduled is
\* scheduled for now, and the cycle starts.
Poll(p) ==
  /\ pc[p] = "poll"
  /\ \/ /\ ctl.status = "paused"
        /\ Plans(p, Paused) /\ Goes(p, "heartbeat")
     \/ /\ ctl.status = "scheduled" /\ ctl.wait > 0
        /\ Plans(p, Scheduled(ctl.wait)) /\ Goes(p, "heartbeat")
     \/ /\ ctl.status = "scheduled" /\ ctl.wait <= 0
        /\ Goes(p, "start") /\ UNCHANGED next
     \/ /\ ctl.status \notin {"paused", "scheduled"}
        /\ Plans(p, Scheduled(0)) /\ Goes(p, "kick")
  /\ UNCHANGED <<ctl, cycles, mine, op, loaded, order, torn>>

\* The loop writes what it decided, and looks again after a sleep.
Heartbeat(p) ==
  /\ pc[p] = "heartbeat"
  /\ Writes(next[p])
  /\ order' = IF order = "asked" /\ next[p].status = "paused" THEN "held" ELSE order
  /\ Plans(p, NoRow)
  /\ Goes(p, "poll")
  /\ UNCHANGED <<cycles, mine, op, loaded>>

\* The same, and the cycle starts.
Kick(p) ==
  /\ pc[p] = "kick"
  /\ Writes(next[p])
  /\ Plans(p, NoRow)
  /\ Goes(p, "start")
  /\ UNCHANGED <<cycles, mine, op, loaded, order>>

\* A pause ends when a batch cycle takes the row over.
TakenOver(p) == IF p \in Batches /\ order \in {"asked", "held"} THEN "lost" ELSE order

\* start_runtime_cycle: the cycle row and the controller in one transaction.
Start(p) ==
  LET cycle == <<p, 1 - mine[p][2]>> IN
  /\ pc[p] = "start"
  /\ mine' = [mine EXCEPT ![p] = cycle]
  /\ cycles' = [cycles EXCEPT ![cycle] = "running", ![mine[p]] = "none"]
  /\ Writes([status |-> "running", mode |-> IF p \in Runners THEN "continuous" ELSE "batch",
             active |-> cycle, requested |-> "none", wait |-> NoWait])
  /\ order' = TakenOver(p)
  /\ Goes(p, "work")
  /\ UNCHANGED <<next, op, loaded>>

\* Mutants: the finished cycle stays the active one; its end drops the requested action.
ClosedActive(row, p, outcome) ==
  [row EXCEPT !.status = IF outcome = "failed" THEN "failed" ELSE "idle",
              !.mode = IF p \in Runners THEN "continuous" ELSE "batch", !.wait = NoWait]

ClosedForgetful(row, p, outcome) ==
  [row EXCEPT !.status = IF outcome = "failed" THEN "failed" ELSE "idle",
              !.mode = IF p \in Runners THEN "continuous" ELSE "batch",
              !.active = None, !.wait = NoWait, !.requested = "none"]

\* The row after a cycle: complete_runtime_cycle keeps the requested action.
Closed(row, p, outcome) ==
  [row EXCEPT !.status = IF outcome = "failed" THEN "failed" ELSE "idle",
              !.mode = IF p \in Runners THEN "continuous" ELSE "batch",
              !.active = None, !.wait = NoWait]

\* The cycle ends: on to the next one, or stop (max_cycles, Ctrl-C), or just exit.
Complete(p, outcome) ==
  /\ pc[p] = "work"
  /\ cycles' = [cycles EXCEPT ![mine[p]] = outcome]
  /\ Writes(Closed(ctl, p, outcome))
  /\ order' = IF p \in Batches /\ order = "held" THEN "lost" ELSE order
  /\ IF p \in Batches THEN Goes(p, "off")
     ELSE IF outcome = "interrupted" THEN Goes(p, "stopping")
     ELSE Goes(p, "settle") \/ Goes(p, "stopping")
  /\ UNCHANGED <<next, mine, op, loaded>>

\* After a cycle the loop reads the row for a pause request, and pauses or schedules the
\* next window from the start of the last one; Heartbeat writes.
Settle(p) ==
  /\ pc[p] = "settle"
  /\ \/ ctl.requested = "pause" /\ Plans(p, Paused)
     \/ ctl.requested # "pause" /\ \E wait \in 0 .. Interval : Plans(p, Scheduled(wait))
  /\ Goes(p, "heartbeat")
  /\ UNCHANGED <<ctl, cycles, mine, op, loaded, order, torn>>

\* _idle_controller, the last write of a loop that stops: a pause ends with the loop.
Stop(p) ==
  /\ pc[p] = "stopping"
  /\ Writes(Idle)
  /\ order' = "run"
  /\ Goes(p, "off")
  /\ UNCHANGED <<cycles, next, mine, op, loaded>>

\* Ctrl-C, or stop_requested, while waiting for a window.
Interrupt(p) ==
  /\ pc[p] = "poll"
  /\ Goes(p, "stopping")
  /\ UNCHANGED <<ctl, cycles, next, mine, op, loaded, order, torn>>

\* The process dies.  What it had been asked and not yet written as a pause is gone.
Crash(p) ==
  /\ pc[p] # "off"
  /\ Goes(p, "off")
  /\ Plans(p, NoRow)
  /\ order' = IF order = "asked" THEN "lost" ELSE order
  /\ UNCHANGED <<ctl, cycles, mine, op, loaded, torn>>

-----------------------------------------------------------------------------
\* What a command decides on the row it reads.  A pause asked for where no loop runs is
\* written like any other, but nobody has to honour it.
PauseForm(row) ==
  IF row.status \in {"scheduled", "paused"} /\ row.mode = "continuous" THEN "hold"
  ELSE IF LoopRuns THEN "ask" ELSE "early"

ResumeForm(row) ==
  IF row.status = "paused" /\ row.mode = "continuous" THEN "release"
  ELSE IF row.requested = "pause" THEN "clear" ELSE "nudge"

\* Mutant: a resume clears the request and leaves the pause.
RewrittenHeld(row, form) ==
  IF form = "hold" THEN [row EXCEPT !.status = "paused", !.wait = NoWait, !.requested = "none"]
  ELSE [row EXCEPT !.requested = IF form \in {"ask", "early"} THEN "pause"
                                 ELSE IF form = "nudge" THEN "resume" ELSE "none"]

\* The row a command writes back over the one it loaded.
Rewritten(row, form) ==
  IF form = "hold" THEN [row EXCEPT !.status = "paused", !.wait = NoWait, !.requested = "none"]
  ELSE IF form = "release" THEN [row EXCEPT !.status = "scheduled", !.wait = 0, !.requested = "none"]
  ELSE [row EXCEPT !.requested = IF form \in {"ask", "early"} THEN "pause"
                                 ELSE IF form = "nudge" THEN "resume" ELSE "none"]

\* request_runtime_pause and request_runtime_resume read the row ...
Command(o) ==
  /\ op[o] = "none"
  /\ \E form \in {PauseForm(ctl), ResumeForm(ctl)} : op' = [op EXCEPT ![o] = form]
  /\ loaded' = [loaded EXCEPT ![o] = None]
  /\ UNCHANGED <<ctl, cycles, procs, order, torn>>

\* ... set_runtime_controller_state reads it again ...
Load(o) ==
  /\ op[o] # "none"
  /\ loaded[o] = None
  /\ loaded' = [loaded EXCEPT ![o] = ctl]
  /\ UNCHANGED <<ctl, cycles, procs, op, order, torn>>

\* The command fell between a read and a write of the loop, or the row moved under it.
Overlaps(o) ==
  \/ \E p \in Runners : pc[p] \in Decided
  \/ loaded[o] # ctl
  \/ op[o] \notin {PauseForm(ctl), ResumeForm(ctl)}

\* What becomes of a command that is written now.
Ordered(o) ==
  IF op[o] = "hold" THEN
    IF Overlaps(o) \/ \E p \in Procs : Busy(p) THEN "lost" ELSE "held"
  ELSE IF op[o] = "ask" THEN
    IF ~Overlaps(o) /\ \E p \in Runners : Busy(p) THEN "asked" ELSE "lost"
  ELSE IF op[o] = "early" THEN
    IF ~Overlaps(o) THEN order
    ELSE IF order \in {"asked", "held", "lost"} THEN "lost" ELSE "stuck"
  ELSE IF Overlaps(o) THEN "stuck" ELSE "run"

\* ... and writes it back, merged.
Write(o) ==
  /\ op[o] # "none"
  /\ loaded[o] # None
  /\ ctl' = Rewritten(loaded[o], op[o])
  /\ order' = Ordered(o)
  /\ torn' = (torn \/ loaded[o] # ctl \/ op[o] \notin {PauseForm(ctl), ResumeForm(ctl)})
  /\ op' = [op EXCEPT ![o] = "none"]
  /\ loaded' = [loaded EXCEPT ![o] = NoRow]
  /\ UNCHANGED <<cycles, procs>>

Sooner(row) == IF row = None \/ row.wait <= 0 THEN row ELSE [row EXCEPT !.wait = @ - 1]

Tick ==
  /\ ctl' = Sooner(ctl)
  /\ next' = [p \in Procs |-> Sooner(next[p])]
  /\ loaded' = [o \in Operators |-> Sooner(loaded[o])]
  /\ UNCHANGED <<cycles, pc, mine, op, order, torn>>

Loop(p) ==
  \/ Boot(p) \/ Poll(p) \/ Heartbeat(p) \/ Kick(p) \/ Start(p) \/ Settle(p) \/ Stop(p)
  \/ \E outcome \in {"completed", "failed", "interrupted"} : Complete(p, outcome)

Next ==
  \/ \E p \in Procs : Launch(p) \/ Loop(p) \/ Crash(p)
  \/ \E p \in Runners : Interrupt(p)
  \/ \E o \in Operators : Command(o) \/ Load(o) \/ Write(o)
  \/ Tick

Spec == Init /\ [][Next]_vars

\* A running loop goes on, a cycle ends (every request of it has a timeout), time passes.
FairSpec == Spec /\ WF_vars(Tick) /\ \A p \in Procs : WF_vars(Loop(p))

-----------------------------------------------------------------------------
TypeOK ==
  /\ ctl \in Row
  /\ cycles \in [Cycles -> {"none", "running", "completed", "failed", "interrupted"}]
  /\ pc \in [Procs -> Stages]
  /\ next \in [Procs -> Row]
  /\ mine \in [Procs -> Cycles]
  /\ op \in [Operators -> Forms]
  /\ loaded \in [Operators -> Row \cup {None}]
  /\ order \in Orders
  /\ torn \in BOOLEAN

\* The controller row tells the truth about cycles: it says running exactly when it names an
\* active cycle, and the cycle it names is recorded as running; through crashes, restarts,
\* interrupts and a batch on the same lane, unless a command wrote back a row that had changed
\* under it.
ControllerTruth ==
  ~torn => /\ ctl.status = "running" <=> ctl.active # None
           /\ ctl.active # None => cycles[ctl.active] = "running"

\* A pause the operator ordered holds until a resume: no continuous cycle starts, also across
\* heartbeats, the end of the running cycle, crashes and restarts.
PauseHolds ==
  [][\A p \in Runners : order \in {"asked", "held"} /\ pc[p] # "work" => pc'[p] # "work"]_<<pc>>

\* As it is told to the operator: once runtime-pause has returned, no cycle starts before a
\* resume or a stop, whatever the command overlapped with.
PauseNeverLost ==
  [][\A p \in Runners : order \in {"asked", "held", "lost"} /\ pc[p] # "work"
        => pc'[p] # "work"]_<<pc>>

\* A lane that is not paused keeps running cycles: after a resume the next cycle starts, or
\* the process ends, or another command comes.
ResumeRuns ==
  \A p \in Runners : (order = "run" /\ pc[p] # "off")
                       ~> (pc[p] \in {"work", "off"} \/ order # "run")
=============================================================================
