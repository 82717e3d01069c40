------------------------ MODULE RuntimeControlProofs ------------------------
(***************************************************************************)
(* The control plane of a lane, for any number of runner, batch and        *)
(* operator processes and any interval: the controller row tells the truth *)
(* about cycles, and an order to pause holds.                              *)
(*                                                                         *)
(* ControllerTruth is carried by what a loop has decided to write naming   *)
(* no cycle.  PauseHolds is carried by where the one running loop of the   *)
(* lane can be while an order stands: asked, it is in the cycle the pause  *)
(* was asked in, or about to write the pause; held, the row says paused    *)
(* and so does whatever the loop is about to write.                        *)
(***************************************************************************)
EXTENDS RuntimeControl, TLAPS

\* What a loop is about to write names no cycle.
PlansSound ==
  \A p \in Procs : pc[p] \in {"heartbeat", "kick"} =>
    next[p].active = None /\ next[p].status # "running"

\* One runner of the lane at a time; a batch is one cycle.
OneRunner ==
  /\ \A p, q \in Runners : pc[p] # "off" /\ pc[q] # "off" => p = q
  /\ \A p \in Batches : pc[p] \in {"off", "start", "work"}

AskedSound ==
  order = "asked" =>
    \E p \in Runners : \/ Busy(p) /\ ctl.requested = "pause"
                       \/ pc[p] = "heartbeat" /\ next[p].status = "paused"
                       \/ pc[p] = "stopping"

HeldSound ==
  order = "held" =>
    /\ ctl.status = "paused"
    /\ \A p \in Runners : /\ pc[p] \in {"off", "boot", "poll", "heartbeat", "stopping"}
                          /\ pc[p] = "heartbeat" => next[p].status = "paused"

Standing == OneRunner /\ AskedSound /\ HeldSound
-----------------------------------------------------------------------------
(* Types.                                                                  *)

\* The rows the code writes anew are rows.
LEMMA RowsMade ==
  /\ NoRow \in Row /\ Paused \in Row /\ Idle \in Row
  /\ \A wait \in Waits : Scheduled(wait) \in Row
  /\ NoWait \in Waits /\ 0..Interval \subseteq Waits
<1>1. NoWait \in Waits /\ 0..Interval \subseteq Waits
  BY ControlAssumption DEF NoWait, Waits
<1>2. \A wait \in Waits : Scheduled(wait) \in Row
  BY DEF Scheduled, Row
<1>3. Paused \in Row /\ Idle \in Row
  BY <1>1 DEF Paused, Idle, Scheduled, Row
<1>4. NoRow \in Row
  BY <1>1 DEF NoRow, Row
<1> QED
  BY <1>1, <1>2, <1>3, <1>4

\* The rows the code makes of the row it read are rows.
LEMMA RowsChanged ==
  ASSUME NEW row \in Row
  PROVE  /\ Bootstrapped(row) \in Row
         /\ row # None => Sooner(row) \in Row
         /\ \A form : Rewritten(row, form) \in Row
         /\ \A p, outcome : Closed(row, p, outcome) \in Row
<1>1. Bootstrapped(row) \in Row
  <2>1. row.wait \in Waits /\ 0 \in Waits
    BY RowsMade, ControlAssumption DEF Row
  <2> QED
    BY <2>1, RowsMade DEF Bootstrapped
<1>2. row # None => Sooner(row) \in Row
  <2>1. CASE row.wait <= 0
    BY <2>1 DEF Sooner
  <2>2. CASE ~(row.wait <= 0)
    BY <2>2, ControlAssumption DEF Sooner, Row, Waits, NoWait
  <2> QED
    BY <2>1, <2>2
<1>3. ASSUME NEW form PROVE Rewritten(row, form) \in Row
  <2>1. row \in Row /\ NoWait \in Waits /\ 0 \in Waits
    BY RowsMade, ControlAssumption
  <2>2. CASE form = "hold"
    <3>1. [row EXCEPT !.status = "paused", !.wait = NoWait, !.requested = "none"] \in Row
      BY <2>1 DEF Row
    <3> QED
      BY <2>2, <3>1 DEF Rewritten
  <2>3. CASE form = "release"
    <3>1. [row EXCEPT !.status = "scheduled", !.wait = 0, !.requested = "none"] \in Row
      BY <2>1 DEF Row
    <3> QED
      BY <2>3, <3>1 DEF Rewritten
  <2>4. CASE form \notin {"hold", "release"}
    <3>1. \A r \in {"none", "pause", "resume"} : [row EXCEPT !.requested = r] \in Row
      BY <2>1 DEF Row
    <3>2. \E r \in {"none", "pause", "resume"} : Rewritten(row, form) = [row EXCEPT !.requested = r]
      BY <2>4 DEF Rewritten
    <3> QED
      BY <3>1, <3>2
  <2> QED
    BY <2>2, <2>3, <2>4
<1>4. ASSUME NEW p, NEW outcome PROVE Closed(row, p, outcome) \in Row
  <2>1. row \in Row /\ NoWait \in Waits
    BY RowsMade
  <2>2. \A s \in {"failed", "idle"}, m \in {"continuous", "batch"} :
          [row EXCEPT !.status = s, !.mode = m, !.active = None, !.wait = NoWait] \in Row
    BY <2>1 DEF Row
  <2>3. \E s \in {"failed", "idle"}, m \in {"continuous", "batch"} :
          Closed(row, p, outcome)
            = [row EXCEPT !.status = s, !.mode = m, !.active = None, !.wait = NoWait]
    BY DEF Closed
  <2> QED
    BY <2>2, <2>3
<1> QED
  BY <1>1, <1>2, <1>3, <1>4

\* The first states have the types.
LEMMA TypeInit == Init => TypeOK
<1> SUFFICES ASSUME Init PROVE TypeOK
  OBVIOUS
<1>1. mine \in [Procs -> Cycles]
  BY DEF Init, Cycles
<1> QED
  BY <1>1, RowsMade DEF Init, TypeOK, Stages, Forms, Orders

\* Every step keeps the types.
LEMMA TypeStep ==
  ASSUME TypeOK, [Next]_vars
  PROVE  TypeOK'
<1> USE DEF TypeOK, Goes, Plans, Writes
<1>1. CASE UNCHANGED vars
  BY <1>1 DEF vars, procs
<1>2. ASSUME NEW p \in Procs, Launch(p) \/ Boot(p) \/ Poll(p) \/ Kick(p) \/ Heartbeat(p)
      PROVE  TypeOK'
  <2>1. CASE Launch(p)
    BY <2>1 DEF Launch, Stages, Decided
  <2>2. CASE Boot(p)
    BY <2>2, RowsChanged DEF Boot, Stages, Decided
  <2>3. CASE Poll(p)
    <3>1. ctl.wait \in Waits /\ 0 \in Waits
      BY RowsMade, ControlAssumption DEF Row
    <3>2. \E row \in Row : next' = next \/ next' = [next EXCEPT ![p] = row]
      BY <2>3, <3>1, RowsMade DEF Poll
    <3>3. \E stage \in Decided : pc' = [pc EXCEPT ![p] = stage]
      BY <2>3 DEF Poll, Decided
    <3>4. UNCHANGED <<ctl, cycles, mine, op, loaded, order, torn>>
      BY <2>3 DEF Poll
    <3> QED
      BY <3>2, <3>3, <3>4 DEF Stages
  <2>4. CASE Kick(p)
    BY <2>4, RowsMade DEF Kick, Stages, Decided
  <2>5. CASE Heartbeat(p)
    BY <2>5, RowsMade DEF Heartbeat, Stages, Orders
  <2> QED
    BY <1>2, <2>1, <2>2, <2>3, <2>4, <2>5
<1>3. ASSUME NEW p \in Procs, Start(p)
      PROVE  TypeOK'
  <2>1. <<p, 1 - mine[p][2]>> \in Cycles
    BY DEF Cycles
  <2>2. [status |-> "running", mode |-> IF p \in Runners THEN "continuous" ELSE "batch",
         active |-> <<p, 1 - mine[p][2]>>, requested |-> "none", wait |-> NoWait] \in Row
    BY <2>1, RowsMade DEF Row
  <2> QED
    BY <1>3, <2>1, <2>2 DEF Start, TakenOver, Orders, Stages
<1>4. ASSUME NEW p \in Procs, NEW outcome \in {"completed", "failed", "interrupted"},
             Complete(p, outcome)
      PROVE  TypeOK'
  <2>1. \E stage \in Stages : pc' = [pc EXCEPT ![p] = stage]
    BY <1>4 DEF Complete, Stages, Decided
  <2> QED
    BY <1>4, <2>1, RowsChanged DEF Complete, Orders
<1>5. ASSUME NEW p \in Procs, Settle(p) \/ Stop(p) \/ Crash(p)
      PROVE  TypeOK'
  <2>1. CASE Settle(p)
    <3>1. \E row \in Row : next' = [next EXCEPT ![p] = row]
      BY <2>1, RowsMade DEF Settle
    <3> QED
      BY <2>1, <3>1 DEF Settle, Stages, Decided
  <2>2. CASE Stop(p)
    BY <2>2, RowsMade DEF Stop, Stages, Orders
  <2>3. CASE Crash(p)
    BY <2>3, RowsMade DEF Crash, Stages, Orders
  <2> QED
    BY <1>5, <2>1, <2>2, <2>3
<1>6. ASSUME NEW p \in Runners, Interrupt(p)
      PROVE  TypeOK'
  BY <1>6 DEF Interrupt, Stages, Decided
<1>7. ASSUME NEW o \in Operators, Command(o) \/ Load(o)
      PROVE  TypeOK'
  BY <1>7 DEF Command, Load, Forms, PauseForm, ResumeForm, procs
<1>8. ASSUME NEW o \in Operators, Write(o)
      PROVE  TypeOK'
  <2>1. Rewritten(loaded[o], op[o]) \in Row
    BY <1>8, RowsChanged DEF Write
  <2>2. Ordered(o) \in Orders
    BY DEF Ordered, Orders
  <2>3. torn' \in BOOLEAN
    BY <1>8 DEF Write
  <2> QED
    BY <1>8, <2>1, <2>2, <2>3, RowsMade DEF Write, Forms, procs
<1>9. CASE Tick
  <2>1. ASSUME NEW row \in Row PROVE Sooner(row) \in Row
    BY RowsChanged DEF Sooner
  <2>2. Sooner(None) = None
    BY DEF Sooner
  <2> QED
    BY <1>9, <2>1, <2>2 DEF Tick
<1> QED
  BY <1>1, <1>2, <1>3, <1>4, <1>5, <1>6, <1>7, <1>8, <1>9 DEF Next, Loop

-----------------------------------------------------------------------------
(* What the rows say.                                                      *)

\* What the changes to a row leave alone of its status, its cycle and its request.
LEMMA RowsSay ==
  ASSUME NEW row \in Row
  PROVE  /\ Sooner(row).status = row.status /\ Sooner(row).active = row.active
         /\ Sooner(row).requested = row.requested
         /\ Bootstrapped(row).status # "running" /\ Bootstrapped(row).active = None
         /\ row.status = "paused" => Bootstrapped(row).status = "paused"
         /\ Rewritten(row, "hold").status = "paused"
         /\ Rewritten(row, "release").status = "scheduled"
         /\ Rewritten(row, "ask").requested = "pause"
         /\ \A form : /\ Rewritten(row, form).active = row.active
                      /\ form \notin {"hold", "release"} => Rewritten(row, form).status = row.status
         /\ \A p, outcome : /\ Closed(row, p, outcome).active = None
                            /\ Closed(row, p, outcome).status # "running"
                            /\ Closed(row, p, outcome).requested = row.requested
<1>1. /\ Sooner(row).status = row.status /\ Sooner(row).active = row.active
      /\ Sooner(row).requested = row.requested
  BY DEF Sooner, Row
<1>2. /\ Bootstrapped(row).status # "running" /\ Bootstrapped(row).active = None
      /\ row.status = "paused" => Bootstrapped(row).status = "paused"
  BY DEF Bootstrapped, Paused, Scheduled
<1>3. /\ Rewritten(row, "hold").status = "paused"
      /\ Rewritten(row, "release").status = "scheduled"
      /\ Rewritten(row, "ask").requested = "pause"
  BY DEF Rewritten, Row
<1>4. ASSUME NEW form
      PROVE  /\ Rewritten(row, form).active = row.active
             /\ form \notin {"hold", "release"} => Rewritten(row, form).status = row.status
  <2>1. CASE form \in {"hold", "release"}
    BY <2>1 DEF Rewritten, Row
  <2>2. CASE form \notin {"hold", "release"}
    <3>1. \E r : Rewritten(row, form) = [row EXCEPT !.requested = r]
      BY <2>2 DEF Rewritten
    <3> QED
      BY <2>2, <3>1 DEF Row
  <2> QED
    BY <2>1, <2>2
<1>5. ASSUME NEW p, NEW outcome
      PROVE  /\ Closed(row, p, outcome).active = None
             /\ Closed(row, p, outcome).status # "running"
             /\ Closed(row, p, outcome).requested = row.requested
  BY DEF Closed, Row
<1> QED
  BY <1>1, <1>2, <1>3, <1>4, <1>5

\* The rows written anew name no cycle.
LEMMA RowsWritten ==
  /\ Paused.status = "paused" /\ Paused.active = None
  /\ Idle.status = "idle" /\ Idle.active = None
  /\ NoRow.status = "idle" /\ NoRow.active = None
  /\ \A wait : Scheduled(wait).status = "scheduled" /\ Scheduled(wait).active = None
BY DEF Paused, Idle, Scheduled, NoRow

-----------------------------------------------------------------------------
(* The controller's row and the cycles.                                    *)

Truth == ControllerTruth /\ PlansSound

\* Every step keeps the row true of the cycles, and the plans with it.
LEMMA TruthStep ==
  ASSUME TypeOK, Truth, [Next]_vars
  PROVE  Truth'
<1> USE DEF Truth, Goes, Plans, Writes
<1>0. /\ ctl \in Row /\ next \in [Procs -> Row] /\ pc \in [Procs -> Stages]
      /\ mine \in [Procs -> Cycles] /\ None \notin Cycles
      /\ cycles \in [Cycles -> {"none", "running", "completed", "failed", "interrupted"}]
  BY ControlAssumption DEF TypeOK, Cycles, Procs
<1>1. CASE UNCHANGED vars
  BY <1>1 DEF vars, procs, ControllerTruth, PlansSound
<1>2. ASSUME NEW p \in Procs, Launch(p) \/ Boot(p) \/ Poll(p)
      PROVE  Truth'
  <2>1. UNCHANGED <<ctl, cycles, torn>>
    BY <1>2 DEF Launch, Boot, Poll
  <2>2. ControllerTruth'
    BY <2>1 DEF ControllerTruth
  <2>3. CASE Launch(p)
    BY <1>0, <2>2, <2>3 DEF Launch, PlansSound
  <2>4. CASE Boot(p)
    BY <1>0, <2>2, <2>4, RowsSay DEF Boot, PlansSound
  <2>5. CASE Poll(p)
    BY <1>0, <2>2, <2>5, RowsWritten DEF Poll, PlansSound
  <2> QED
    BY <1>2, <2>3, <2>4, <2>5
<1>3. ASSUME NEW p \in Procs, Kick(p) \/ Heartbeat(p)
      PROVE  Truth'
  <2>1. /\ ctl' = next[p] /\ UNCHANGED cycles /\ next' = [next EXCEPT ![p] = NoRow]
        /\ next[p].active = None /\ next[p].status # "running"
        /\ \E stage \in {"poll", "start"} : pc' = [pc EXCEPT ![p] = stage]
    BY <1>3 DEF Kick, Heartbeat, PlansSound
  <2>2. ControllerTruth'
    BY <2>1 DEF ControllerTruth
  <2>3. PlansSound'
    BY <1>0, <2>1 DEF PlansSound
  <2> QED
    BY <2>2, <2>3
<1>4. ASSUME NEW p \in Procs, Start(p)
      PROVE  Truth'
  <2> DEFINE cycle == <<p, 1 - mine[p][2]>>
  <2>1. cycle \in Cycles /\ mine[p] \in Cycles /\ cycle # mine[p]
    BY <1>0 DEF Cycles
  <2>2. /\ ctl'.status = "running" /\ ctl'.active = cycle
        /\ cycles' = [cycles EXCEPT ![cycle] = "running", ![mine[p]] = "none"]
    BY <1>4 DEF Start
  <2>3. ControllerTruth'
    BY <1>0, <2>1, <2>2 DEF ControllerTruth
  <2>4. PlansSound'
    BY <1>0, <1>4 DEF Start, PlansSound
  <2> QED
    BY <2>3, <2>4
<1>5. ASSUME NEW p \in Procs, NEW outcome \in {"completed", "failed", "interrupted"},
             Complete(p, outcome)
      PROVE  Truth'
  <2>1. ctl' = Closed(ctl, p, outcome) /\ UNCHANGED next
        /\ \E stage \in {"off", "settle", "stopping"} : pc' = [pc EXCEPT ![p] = stage]
    BY <1>5 DEF Complete
  <2>2. ControllerTruth'
    BY <1>0, <2>1, RowsSay DEF ControllerTruth
  <2>3. PlansSound'
    BY <1>0, <2>1 DEF PlansSound
  <2> QED
    BY <2>2, <2>3
<1>6. ASSUME NEW p \in Procs, Settle(p) \/ Stop(p) \/ Crash(p)
      PROVE  Truth'
  <2>1. CASE Settle(p)
    BY <1>0, <2>1, RowsWritten DEF Settle, ControllerTruth, PlansSound
  <2>2. CASE Stop(p)
    BY <1>0, <2>2, RowsWritten DEF Stop, ControllerTruth, PlansSound
  <2>3. CASE Crash(p)
    BY <1>0, <2>3 DEF Crash, ControllerTruth, PlansSound
  <2> QED
    BY <1>6, <2>1, <2>2, <2>3
<1>7. ASSUME NEW p \in Runners, Interrupt(p)
      PROVE  Truth'
  BY <1>0, <1>7 DEF Interrupt, ControllerTruth, PlansSound
<1>8. ASSUME NEW o \in Operators, Command(o) \/ Load(o)
      PROVE  Truth'
  BY <1>0, <1>8 DEF Command, Load, ControllerTruth, PlansSound, procs
<1>9. ASSUME NEW o \in Operators, Write(o)
      PROVE  Truth'
  <2>1. /\ UNCHANGED <<cycles, pc, next>> /\ op[o] # "none"
        /\ ~torn' => /\ ~torn /\ loaded[o] = ctl /\ ctl' = Rewritten(ctl, op[o])
                     /\ op[o] \in {PauseForm(ctl), ResumeForm(ctl)}
    BY <1>9 DEF Write, procs
  <2>2. ASSUME ~torn'
        PROVE  /\ ctl'.status = "running" <=> ctl'.active # None
               /\ ctl'.active # None => cycles'[ctl'.active] = "running"
    <3>1. CASE op[o] \in {"hold", "release"}
      <4>1. ctl.status \in {"scheduled", "paused"}
        BY <2>1, <2>2, <3>1 DEF PauseForm, ResumeForm
      <4> QED
        BY <1>0, <2>1, <2>2, <3>1, <4>1, RowsSay DEF ControllerTruth
    <3>2. CASE op[o] \notin {"hold", "release"}
      BY <1>0, <2>1, <2>2, <3>2, RowsSay DEF ControllerTruth
    <3> QED
      BY <3>1, <3>2
  <2> QED
    BY <2>1, <2>2 DEF ControllerTruth, PlansSound
<1>10. CASE Tick
  <2>1. /\ ctl'.status = ctl.status /\ ctl'.active = ctl.active
        /\ \A p \in Procs : next'[p].status = next[p].status /\ next'[p].active = next[p].active
        /\ UNCHANGED <<cycles, torn, pc>>
    BY <1>0, <1>10, RowsSay DEF Tick
  <2> QED
    BY <2>1 DEF ControllerTruth, PlansSound
<1> QED
  BY <1>1, <1>2, <1>3, <1>4, <1>5, <1>6, <1>7, <1>8, <1>9, <1>10 DEF Next, Loop

-----------------------------------------------------------------------------
(* Orders to pause.                                                        *)

\* No runner is where it would start a cycle while an order stands.
LEMMA OrderedStays ==
  ASSUME TypeOK, Standing, order \in {"asked", "held"}, NEW p \in Runners
  PROVE  pc[p] \notin {"start", "kick"}
<1>1. CASE order = "asked"
  <2>1. PICK q \in Runners : pc[q] \in {"work", "settle", "heartbeat", "stopping"}
    BY <1>1 DEF Standing, AskedSound, Busy
  <2> QED
    BY <2>1 DEF Standing, OneRunner
<1>2. CASE order = "held"
  BY <1>2 DEF Standing, HeldSound
<1> QED
  BY <1>1, <1>2

\* Every step keeps a pause that can be kept in the row or in a plan.
LEMMA StandingStep ==
  ASSUME TypeOK, Standing, [Next]_vars
  PROVE  Standing'
<1> USE DEF Standing, Goes, Plans, Writes
<1>0. /\ ctl \in Row /\ next \in [Procs -> Row] /\ pc \in [Procs -> Stages]
      /\ Runners \subseteq Procs /\ Batches \subseteq Procs /\ Runners \cap Batches = {}
      /\ Procs = Runners \cup Batches
  BY ControlAssumption DEF TypeOK, Procs
<1>1. CASE UNCHANGED vars
  BY <1>1 DEF vars, procs, OneRunner, AskedSound, HeldSound, Busy
<1>2. ASSUME NEW p \in Procs, Launch(p)
      PROVE  Standing'
  <2>1. /\ pc' = [pc EXCEPT ![p] = IF p \in Runners THEN "boot" ELSE "start"]
        /\ p \in Runners => \A q \in Runners : pc[q] = "off"
        /\ UNCHANGED <<ctl, next, order>>
    BY <1>2 DEF Launch
  <2>2. p \in Runners => order # "asked"
    BY <2>1 DEF AskedSound, Busy
  <2> QED
    BY <1>0, <2>1, <2>2 DEF OneRunner, AskedSound, HeldSound, Busy
<1>3. ASSUME NEW p \in Procs, Boot(p) \/ Poll(p)
      PROVE  Standing'
  <2>1. /\ pc[p] \in {"boot", "poll"} /\ UNCHANGED <<order, ctl>> /\ p \in Runners
        /\ \E stage \in {"heartbeat", "start", "kick"} : pc' = [pc EXCEPT ![p] = stage]
        /\ \A q \in Runners : q # p => next'[q] = next[q]
    BY <1>0, <1>3 DEF Boot, Poll, OneRunner
  <2>2. order # "asked"
    BY <2>1 DEF AskedSound, OneRunner, Busy
  <2>3. order = "held" => pc' = [pc EXCEPT ![p] = "heartbeat"] /\ next'[p].status = "paused"
    BY <1>0, <1>3, RowsSay, RowsWritten DEF Boot, Poll, HeldSound
  <2>4. OneRunner'
    BY <1>0, <2>1 DEF OneRunner
  <2> QED
    BY <1>0, <2>1, <2>2, <2>3, <2>4 DEF AskedSound, HeldSound
<1>4. ASSUME NEW p \in Procs, Heartbeat(p)
      PROVE  Standing'
  <2>1. /\ pc[p] = "heartbeat" /\ ctl' = next[p] /\ pc' = [pc EXCEPT ![p] = "poll"]
        /\ next' = [next EXCEPT ![p] = NoRow] /\ p \in Runners
        /\ order' = IF order = "asked" /\ next[p].status = "paused" THEN "held" ELSE order
    BY <1>0, <1>4 DEF Heartbeat, OneRunner
  <2>2. OneRunner'
    BY <1>0, <2>1 DEF OneRunner
  <2>3. \A q \in Runners : q # p => pc[q] = "off"
    BY <2>1 DEF OneRunner
  <2>4. order' # "asked"
    BY <2>1, <2>3 DEF AskedSound, Busy
  <2>5. order' = "held" => next[p].status = "paused"
    BY <2>1 DEF HeldSound
  <2> QED
    BY <1>0, <2>1, <2>2, <2>3, <2>4, <2>5 DEF AskedSound, HeldSound
<1>5. ASSUME NEW p \in Procs, Kick(p)
      PROVE  Standing'
  <2>1. /\ pc[p] = "kick" /\ pc' = [pc EXCEPT ![p] = "start"] /\ p \in Runners
        /\ order' = order
    BY <1>0, <1>5 DEF Kick, OneRunner
  <2>2. order' \notin {"asked", "held"}
    BY <2>1, OrderedStays
  <2> QED
    BY <1>0, <2>1, <2>2 DEF OneRunner, AskedSound, HeldSound
<1>6. ASSUME NEW p \in Procs, Start(p)
      PROVE  Standing'
  <2>1. /\ pc[p] = "start" /\ pc' = [pc EXCEPT ![p] = "work"] /\ order' = TakenOver(p)
    BY <1>6 DEF Start
  <2>2. order' \notin {"asked", "held"}
    BY <1>0, <2>1, OrderedStays DEF TakenOver
  <2> QED
    BY <1>0, <2>1, <2>2 DEF OneRunner, AskedSound, HeldSound
<1>7. ASSUME NEW p \in Procs, NEW outcome \in {"completed", "failed", "interrupted"},
             Complete(p, outcome)
      PROVE  Standing'
  <2>1. /\ pc[p] = "work" /\ ctl' = Closed(ctl, p, outcome) /\ UNCHANGED next
        /\ order' = IF p \in Batches /\ order = "held" THEN "lost" ELSE order
        /\ p \in Batches => pc' = [pc EXCEPT ![p] = "off"]
        /\ p \in Runners => \E stage \in {"settle", "stopping"} : pc' = [pc EXCEPT ![p] = stage]
    BY <1>0, <1>7 DEF Complete
  <2>2. OneRunner'
    BY <1>0, <2>1 DEF OneRunner
  <2>3. order' # "held"
    BY <1>0, <2>1 DEF HeldSound
  <2>4. ctl'.requested = ctl.requested
    BY <1>0, <2>1, RowsSay
  <2>5. AskedSound'
    BY <1>0, <2>1, <2>4 DEF AskedSound, Busy, OneRunner
  <2> QED
    BY <2>2, <2>3, <2>5 DEF HeldSound
<1>8. ASSUME NEW p \in Procs, Settle(p)
      PROVE  Standing'
  <2>1. /\ pc[p] = "settle" /\ pc' = [pc EXCEPT ![p] = "heartbeat"] /\ p \in Runners
        /\ UNCHANGED <<ctl, order>>
        /\ ctl.requested = "pause" => next'[p].status = "paused"
    BY <1>0, <1>8, RowsWritten DEF Settle, OneRunner
  <2>2. OneRunner'
    BY <1>0, <2>1 DEF OneRunner
  <2>3. order' # "held"
    BY <2>1 DEF HeldSound
  <2>4. order' = "asked" => ctl.requested = "pause"
    BY <2>1 DEF AskedSound, OneRunner
  <2>5. pc'[p] = "heartbeat"
    BY <1>0, <2>1
  <2> QED
    BY <2>1, <2>2, <2>3, <2>4, <2>5 DEF AskedSound, HeldSound
<1>9. ASSUME NEW p \in Procs, Stop(p)
      PROVE  Standing'
  BY <1>0, <1>9 DEF Stop, OneRunner, AskedSound, HeldSound
<1>10. ASSUME NEW p \in Procs, Crash(p)
       PROVE  Standing'
  BY <1>0, <1>10 DEF Crash, OneRunner, AskedSound, HeldSound
<1>11. ASSUME NEW p \in Runners, Interrupt(p)
       PROVE  Standing'
  BY <1>0, <1>11 DEF Interrupt, OneRunner, AskedSound, HeldSound, Busy
<1>12. ASSUME NEW o \in Operators, Command(o) \/ Load(o)
       PROVE  Standing'
  BY <1>12 DEF Command, Load, procs, OneRunner, AskedSound, HeldSound, Busy
<1>13. ASSUME NEW o \in Operators, Write(o)
       PROVE  Standing'
  <2>1. /\ UNCHANGED <<pc, next>> /\ order' = Ordered(o) /\ ctl' = Rewritten(loaded[o], op[o])
    BY <1>13 DEF Write, procs
  <2>2. OneRunner'
    BY <2>1 DEF OneRunner
  <2>3. CASE Overlaps(o)
    <3>1. order' \notin {"asked", "held"}
      BY <2>1, <2>3 DEF Ordered
    <3> QED
      BY <2>2, <3>1 DEF AskedSound, HeldSound
  <2>4. CASE ~Overlaps(o)
    <3>1. /\ \A p \in Runners : pc[p] \notin Decided
          /\ ctl' = Rewritten(ctl, op[o])
          /\ op[o] \in {PauseForm(ctl), ResumeForm(ctl)}
      BY <2>1, <2>4 DEF Overlaps
    <3>2. CASE op[o] = "hold"
      <4>1. ctl'.status = "paused" /\ order' # "asked"
        BY <1>0, <2>1, <3>1, <3>2, RowsSay DEF Ordered
      <4>2. order' = "held" => \A p \in Runners : pc[p] \in {"off", "boot", "poll"}
        BY <1>0, <2>1, <3>1, <3>2 DEF Ordered, Busy, Stages, Decided
      <4> QED
        BY <2>1, <2>2, <4>1, <4>2 DEF AskedSound, HeldSound
    <3>3. CASE op[o] = "ask"
      <4>1. ctl'.requested = "pause" /\ order' # "held"
        BY <1>0, <2>1, <3>1, <3>3, RowsSay DEF Ordered
      <4>2. order' = "asked" => \E p \in Runners : Busy(p)
        BY <2>1, <3>3 DEF Ordered
      <4> QED
        BY <2>1, <2>2, <4>1, <4>2 DEF AskedSound, HeldSound, Busy
    <3>4. CASE op[o] = "early"
      <4>1. order' = order /\ ctl'.status = ctl.status
        BY <1>0, <2>1, <2>4, <3>1, <3>4, RowsSay DEF Ordered
      <4>2. ~LoopRuns
        BY <3>1, <3>4 DEF PauseForm, ResumeForm
      <4>3. order # "asked"
        BY <4>2 DEF AskedSound, Busy, LoopRuns
      <4> QED
        BY <2>1, <2>2, <4>1, <4>3 DEF AskedSound, HeldSound
    <3>5. CASE op[o] \notin {"hold", "ask", "early"}
      BY <2>1, <2>2, <2>4, <3>5 DEF Ordered, AskedSound, HeldSound
    <3> QED
      BY <3>2, <3>3, <3>4, <3>5
  <2> QED
    BY <2>3, <2>4
<1>14. CASE Tick
  <2>1. /\ ctl'.status = ctl.status /\ ctl'.requested = ctl.requested
        /\ \A p \in Runners : next'[p].status = next[p].status
        /\ UNCHANGED <<order, pc>>
    BY <1>0, <1>14, RowsSay DEF Tick
  <2> QED
    BY <2>1 DEF OneRunner, AskedSound, HeldSound, Busy
<1> QED
  BY <1>1, <1>2, <1>3, <1>4, <1>5, <1>6, <1>7, <1>8, <1>9, <1>10, <1>11, <1>12, <1>13, <1>14
     DEF Next, Loop

-----------------------------------------------------------------------------
\* The first states satisfy the three parts of the invariant.
LEMMA InitHolds == Init => TypeOK /\ Truth /\ Standing
<1> SUFFICES ASSUME Init PROVE TypeOK /\ Truth /\ Standing
  OBVIOUS
<1>1. TypeOK
  BY TypeInit
<1>2. Runners \subseteq Procs /\ Batches \subseteq Procs
  BY DEF Procs
<1> QED
  BY <1>1, <1>2, RowsWritten DEF Init, Truth, ControllerTruth, PlansSound, Standing, OneRunner,
                                 AskedSound, HeldSound

\* The rows and the processes of the control plane keep their shapes.
THEOREM TypesHold == Spec => []TypeOK
<1> QED
  BY InitHolds, TypeStep, PTL DEF Spec

\* The controller row says running exactly when it names a cycle, and that cycle is recorded as
\* running: through crashes, restarts, interrupts and a batch on the lane, as long as no command
\* wrote back a row that had changed under it.
THEOREM ControllerTellsTheTruth == Spec => []ControllerTruth
<1>1. TypeOK /\ Truth => ControllerTruth
  BY DEF Truth
<1> QED
  BY <1>1, InitHolds, TypeStep, TruthStep, PTL DEF Spec

\* No continuous cycle starts while an order to pause stands, whatever the loop had in hand when it
\* came: across heartbeats, the end of the cycle, crashes and restarts.
THEOREM PausesHold == Spec => PauseHolds
<1>1. ASSUME TypeOK, Standing, [Next]_vars
      PROVE  [\A p \in Runners : order \in {"asked", "held"} /\ pc[p] # "work" => pc'[p] # "work"]_<<pc>>
  <2> SUFFICES ASSUME pc' # pc, NEW p \in Runners, order \in {"asked", "held"}, pc[p] # "work",
                      pc'[p] = "work"
               PROVE  FALSE
    OBVIOUS
  <2>1. p \in Procs /\ pc \in [Procs -> Stages]
    BY <1>1 DEF Procs, TypeOK
  <2>2. Start(p)
    BY <1>1, <2>1 DEF Next, Loop, vars, procs, Goes, Launch, Boot, Poll, Heartbeat, Kick, Start, Complete,
                Settle, Stop, Interrupt, Crash, Command, Load, Write, Tick
  <2> QED
    BY <1>1, <2>2, OrderedStays DEF Start
<1> QED
  BY <1>1, InitHolds, TypeStep, StandingStep, PTL DEF Spec, PauseHolds
=============================================================================
