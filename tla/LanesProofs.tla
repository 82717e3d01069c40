----------------------------- MODULE LanesProofs ------------------------------
(***************************************************************************)
(* Several lanes, for any number of lanes, cycles, commands and deaths:    *)
(* the singleton row follows the default lane, and what is shown of the    *)
(* runtime is what its cycles are.                                         *)
(*                                                                         *)
(* The argument: a loop at work is at the latest cycle of its row's lanes, *)
(* which runs; the row names that cycle, unless a write of it is pending   *)
(* or the row is torn; and a pending write either ends that, or says of    *)
(* the cycle what the cycle is.                                            *)
(***************************************************************************)
EXTENDS Lanes, FiniteSetTheorems, SequenceTheorems, WellFoundedInduction, TLAPS

Columns == {"status", "phase", "active", "latest", "requested"}
Ats == {"off", "boot", "poll", "start", "work", "settle", "stopping", "ending"}

\* A cycle's row has its three columns, whatever the last two hold.
IsCycles(rows) == \E S, P : rows \in Seq([lane : LaneNames, status : S, phase : P])

\* A row names cycle c as the one that runs.
Engaged(row, c) == row.status = "running" /\ row.active = c /\ row.latest = c

\* A row says of the cycles of lane l what they are.
Honest(row, l) ==
  /\ row.status = "running" <=> row.active # NoCycle
  /\ row.active # NoCycle =>
       /\ row.active = row.latest /\ row.active \in LatestOf(l)
       /\ ran[row.active].status = "running" /\ ran[row.active].phase = row.phase

Shapes ==
  /\ plane \in {"sqlite", "postgres"}
  /\ DOMAIN lanes \subseteq (IF plane = "postgres" THEN {Default} ELSE LaneNames)
  /\ \A l \in DOMAIN lanes : DOMAIN lanes[l] = Columns
  /\ IsCycles(ran)
  /\ loop \in [LaneNames -> [at : Ats, cycle : Nat]]
  /\ \A l \in LaneNames : loop[l].at = "off" => loop[l] = Off
  /\ \A l \in LaneNames : loop[l] # Off => l \in crew
  /\ halt \in {"no", "stop", "ctrl-c"} /\ torn \subseteq LaneNames /\ crew \subseteq LaneNames

\* PostgreSQL has one loop.
Alone == plane = "postgres" => \A l, m \in LaneNames : loop[l] # Off /\ loop[m] # Off => l = m

\* A change after which no cycle is named.
Quiet(change) == /\ {"status", "active"} \subseteq DOMAIN change
                 /\ change.active = NoCycle /\ change.status # "running"

\* What a loop's pending change says.
Pending(l) ==
  LET w == call[l]
      c == loop[l].cycle
  IN \/ Quiet(w.change) /\ loop[l].at # "work"
     \/ /\ plane = "postgres" /\ loop[l].at = "work"
        /\ \/ w.change = Opening(c) /\ ran[c].phase = "starting"
           \/ /\ DOMAIN w.change = {"phase"} /\ ran[c].phase = w.change.phase
              /\ Default \notin torn => /\ Engaged(Row(Default), c)
                                        /\ w.stage = "loaded" => Engaged(w.base, c)

CallsSound ==
  /\ call = [a \in Actors |-> call[a]]
  /\ \A a \in Actors : call[a] # NoCall =>
       /\ call[a].stage \in {"asked", "loaded"}
       /\ call[a].stage = "loaded" => Reread(a) /\ DOMAIN call[a].base = Columns
       /\ call[a].lane = IF a = "operator" THEN Default ELSE Key(a)
       /\ DOMAIN call[a].change \subseteq Columns
  /\ call["operator"] # NoCall => DOMAIN call["operator"].change \cap {"active", "latest"} = {}
  /\ \A l \in LaneNames : call[l] # NoCall => loop[l] # Off /\ Pending(l)

\* A loop at work is at the latest cycle of its lane, and its row, written whole, says so.
WorkSound ==
  \A l \in LaneNames : loop[l].at = "work" =>
    LET c == loop[l].cycle IN
    /\ c \in LatestOf(Key(l)) /\ ran[c].lane = l /\ ran[c].status = "running"
    /\ Sound(Key(l)) => Engaged(Row(l), c)

RowsHonest == \A l \in DOMAIN lanes : Sound(l) => Honest(lanes[l], l)

IInv == Shapes /\ Alone /\ CallsSound /\ WorkSound /\ RowsHonest /\ SingletonFollows
-----------------------------------------------------------------------------
\* What a row is after some of its columns were changed.
LEMMA OverFacts ==
  ASSUME NEW change, NEW row, DOMAIN row = Columns, DOMAIN change \subseteq Columns
  PROVE  /\ DOMAIN Over(change, row) = Columns
         /\ Over(change, row).status = IF "status" \in DOMAIN change THEN change.status ELSE row.status
         /\ Over(change, row).phase = IF "phase" \in DOMAIN change THEN change.phase ELSE row.phase
         /\ Over(change, row).active = IF "active" \in DOMAIN change THEN change.active ELSE row.active
         /\ Over(change, row).latest = IF "latest" \in DOMAIN change THEN change.latest ELSE row.latest
BY DEF Over, Columns

\* The changes after which a loop's row names no cycle.
LEMMA QuietChanges ==
  /\ \A n : Quiet(Scheduling(n)) /\ DOMAIN Scheduling(n) \subseteq Columns
  /\ \A n : Quiet(Pausing(n)) /\ DOMAIN Pausing(n) \subseteq Columns
  /\ Quiet(Idling) /\ DOMAIN Idling \subseteq Columns
  /\ \A c, status, phase : status # "running" =>
        Quiet(Closing(c, status, phase)) /\ DOMAIN Closing(c, status, phase) \subseteq Columns
<1>1. \A n : Quiet(Scheduling(n)) /\ DOMAIN Scheduling(n) \subseteq Columns
  BY DEF Quiet, Scheduling, Columns
<1>3. \A n : Quiet(Pausing(n)) /\ DOMAIN Pausing(n) \subseteq Columns
  BY DEF Quiet, Pausing, Columns
<1>4. Quiet(Idling) /\ DOMAIN Idling \subseteq Columns
  BY DEF Quiet, Idling, Columns
<1>5. \A c, status, phase : status # "running" =>
        Quiet(Closing(c, status, phase)) /\ DOMAIN Closing(c, status, phase) \subseteq Columns
  BY DEF Quiet, Closing, ControllerStatus, Columns
<1> QED
  BY <1>1, <1>3, <1>4, <1>5

\* What the operator changes of a row: the request, or one idle status for another.
LEMMA OrderFacts ==
  ASSUME NEW row, NEW change \in {PauseOf(row), ResumeOf(row)}
  PROVE  /\ DOMAIN change \subseteq Columns /\ DOMAIN change \cap {"active", "latest"} = {}
         /\ row.status \notin {"scheduled", "paused"} =>
              "status" \notin DOMAIN change /\ "phase" \notin DOMAIN change
         /\ "status" \in DOMAIN change => change.status # "running"
<1>1. CASE change = PauseOf(row)
  BY <1>1 DEF PauseOf, Columns
<1>2. CASE change = ResumeOf(row)
  BY <1>2 DEF ResumeOf, Columns
<1> QED
  BY <1>1, <1>2

\* A row that is not there is a row too, and names no cycle.
LEMMA RowShape ==
  ASSUME Shapes
  PROVE  /\ \A l : DOMAIN Row(l) = Columns
         /\ \A l : Row(l).status = "running" => Key(l) \in DOMAIN lanes
BY DEF Shapes, Row, NewRow, Columns

\* Keys are lanes, and the key of a key is itself.
LEMMA KeyFacts ==
  ASSUME plane \in {"sqlite", "postgres"}
  PROVE  /\ \A l \in LaneNames : Key(l) \in LaneNames /\ Key(Key(l)) = Key(l)
         /\ Key(Default) = Default
         /\ plane = "sqlite" => \A l : Key(l) = l
         /\ plane = "postgres" => \A l : Key(l) = Default
BY LanesAssumption DEF Key

\* The lanes and the operator are different actors.
LEMMA ActorFacts == Default \in LaneNames /\ "operator" \notin LaneNames /\ LaneNames \subseteq Actors
                    /\ "operator" \in Actors
BY LanesAssumption DEF Actors

-----------------------------------------------------------------------------
\* Where no row, no cycle and no mark of a whole row changes, what the rows say stays true.
LEMMA Unwritten ==
  ASSUME IInv, UNCHANGED <<plane, lanes, singleton, ran>>,
         torn \subseteq torn',
         \A l \in LaneNames : plane = "postgres" /\ call[l] # NoCall /\ call'[l] = NoCall =>
           Default \in torn',
         \A l \in LaneNames : loop'[l].at = "work" => loop'[l] = loop[l]
  PROVE  WorkSound' /\ RowsHonest' /\ SingletonFollows'
<1> USE KeyFacts
<1>1. plane \in {"sqlite", "postgres"} /\ \A l : Key(l)' = Key(l) /\ Row(l)' = Row(l)
  BY DEF IInv, Shapes, Key, Row
<1>2. \A l : LatestOf(l)' = LatestOf(l)
  BY <1>1 DEF LatestOf, Key
<1>3. \A l : Sound(l)' => Sound(l)
  <2> SUFFICES ASSUME NEW l, Sound(l)', NEW m \in LaneNames, plane = "postgres", Key(m) = l
               PROVE  l \notin torn /\ Free(m)
    BY DEF Sound
  <2> QED
    BY <1>1 DEF Sound, Free, Key
<1>4. WorkSound'
  <2> SUFFICES ASSUME NEW l \in LaneNames, loop'[l].at = "work"
               PROVE  LET c == loop'[l].cycle IN
                      /\ c \in LatestOf(Key(l))' /\ ran'[c].lane = l /\ ran'[c].status = "running"
                      /\ Sound(Key(l))' => Engaged(Row(l)', c)
    BY DEF WorkSound, Engaged
  <2>1. loop'[l] = loop[l]
    OBVIOUS
  <2>2. LatestOf(Key(l))' = LatestOf(Key(l)) /\ (Sound(Key(l))' => Sound(Key(l)))
    BY <1>1, <1>2, <1>3 DEF LatestOf, Key, Sound, Free
  <2> QED
    BY <1>1, <2>1, <2>2 DEF IInv, WorkSound
<1>5. RowsHonest'
  <2> SUFFICES ASSUME NEW l \in DOMAIN lanes, Sound(l)'
               PROVE  Honest(lanes[l], l)'
    BY DEF RowsHonest
  <2> QED
    BY <1>2, <1>3 DEF IInv, RowsHonest, Honest
<1>6. SingletonFollows'
  BY DEF IInv, SingletonFollows
<1> QED
  BY <1>4, <1>5, <1>6

\* Calls stay sound when each is as it was, is over, or is a new one that ends the naming of a cycle.
LEMMA CallsKept ==
  ASSUME IInv, UNCHANGED <<plane, lanes, ran>>, torn \subseteq torn',
         call' = [a \in Actors |-> call'[a]],
         call'["operator"] = call["operator"] \/ call'["operator"] = NoCall,
         \A m \in LaneNames :
           \/ call'[m] = NoCall
           \/ call'[m] = call[m] /\ loop'[m] = loop[m]
           \/ /\ loop'[m] # Off /\ loop'[m].at # "work"
              /\ \E change : /\ call'[m] = [stage |-> "asked", lane |-> Key(m), change |-> change]
                             /\ Quiet(change) /\ DOMAIN change \subseteq Columns
  PROVE  CallsSound'
<1>1. \A l : Key(l)' = Key(l) /\ Row(l)' = Row(l)
  BY DEF Key, Row
<1>2. /\ CallsSound /\ LaneNames \subseteq Actors
      /\ "operator" \notin LaneNames /\ "operator" \in Actors
  BY ActorFacts DEF IInv
<1>3. ASSUME NEW m \in LaneNames, call'[m] # NoCall
      PROVE  /\ /\ call'[m].stage \in {"asked", "loaded"}
                /\ call'[m].stage = "loaded" => plane = "postgres" /\ DOMAIN call'[m].base = Columns
                /\ call'[m].lane = Key(m)
                /\ DOMAIN call'[m].change \subseteq Columns
                /\ loop'[m] # Off
             /\ Pending(m)'
  <2>1. CASE call'[m] = call[m] /\ loop'[m] = loop[m]
    <3>1. Pending(m) => Pending(m)'
      BY <1>1, <2>1 DEF Pending
    <3>2. m # "operator" /\ m \in Actors
      BY <1>2
    <3> QED
      BY <1>2, <1>3, <2>1, <3>1, <3>2 DEF CallsSound, Reread
  <2>2. CASE /\ loop'[m] # Off /\ loop'[m].at # "work"
             /\ \E change : /\ call'[m] = [stage |-> "asked", lane |-> Key(m), change |-> change]
                            /\ Quiet(change) /\ DOMAIN change \subseteq Columns
    <3>0. PICK change : /\ call'[m] = [stage |-> "asked", lane |-> Key(m), change |-> change]
                        /\ Quiet(change) /\ DOMAIN change \subseteq Columns
      BY <2>2
    <3>1. /\ call'[m].stage = "asked" /\ call'[m].lane = Key(m)
          /\ call'[m].change = change
      BY <3>0
    <3>2. Pending(m)'
      BY <2>2, <3>0, <3>1 DEF Pending, Quiet
    <3> QED
      BY <2>2, <3>0, <3>1, <3>2
  <2> QED
    BY <1>3, <2>1, <2>2
<1>4. ASSUME call'["operator"] # NoCall
      PROVE  /\ call'["operator"].stage \in {"asked", "loaded"}
             /\ call'["operator"].stage = "loaded" => DOMAIN call'["operator"].base = Columns
             /\ call'["operator"].lane = Default
             /\ DOMAIN call'["operator"].change \subseteq Columns
             /\ DOMAIN call'["operator"].change \cap {"active", "latest"} = {}
  BY <1>2, <1>4 DEF CallsSound
<1>5. ASSUME NEW a \in Actors, call'[a] # NoCall
      PROVE  /\ call'[a].stage \in {"asked", "loaded"}
             /\ call'[a].stage = "loaded" => Reread(a)' /\ DOMAIN call'[a].base = Columns
             /\ call'[a].lane = IF a = "operator" THEN Default ELSE Key(a)'
             /\ DOMAIN call'[a].change \subseteq Columns
  <2>1. CASE a = "operator"
    BY <1>4, <1>5, <2>1 DEF Reread
  <2>2. CASE a \in LaneNames
    <3>1. a # "operator" /\ Key(a)' = Key(a)
      BY <1>1, <1>2, <2>2
    <3> QED
      BY <1>3, <1>5, <2>2, <3>1 DEF Reread
  <2> QED
    BY <2>1, <2>2 DEF Actors
<1> QED
  BY <1>3, <1>4, <1>5 DEF CallsSound

\* A lane's new call.
LEMMA LaneCalls ==
  ASSUME IInv, NEW l \in LaneNames, NEW change, Calls(l, l, change)
  PROVE  /\ call' = [a \in Actors |-> call'[a]]
         /\ call'[l] = [stage |-> "asked", lane |-> Key(l), change |-> change]
         /\ \A a \in Actors : a # l => call'[a] = call[a]
         /\ call'["operator"] = call["operator"]
BY ActorFacts DEF IInv, CallsSound, Calls

\* Loops that move on where they are keep their shape.
LEMMA LoopMoves ==
  ASSUME IInv, UNCHANGED <<plane, lanes, ran>>, torn' \subseteq LaneNames, crew' \subseteq LaneNames,
         halt' \in {"no", "stop", "ctrl-c"},
         loop' \in [LaneNames -> [at : Ats, cycle : Nat]],
         \A m \in LaneNames : /\ loop'[m].at = "off" => loop'[m] = Off
                              /\ loop'[m] # Off => loop[m] # Off /\ m \in crew'
  PROVE  Shapes' /\ Alone'
<1>1. Shapes'
  BY DEF IInv, Shapes, IsCycles
<1>2. Alone'
  BY DEF IInv, Alone
<1> QED
  BY <1>1, <1>2

\* A loop that goes on from one place to another, with a call that ends the naming of a cycle or none.
LEMMA LoopGoesOn ==
  ASSUME IInv, NEW l \in LaneNames, loop[l] # Off, NEW at \in Ats \ {"off", "work"}, NEW c \in Nat,
         UNCHANGED <<plane, lanes, singleton, ran, crew, halt, torn>>,
         loop' = [loop EXCEPT ![l] = [at |-> at, cycle |-> c]],
         \/ UNCHANGED call /\ Free(l)
         \/ \E change : Calls(l, l, change) /\ Quiet(change) /\ DOMAIN change \subseteq Columns
  PROVE  IInv'
<1>1. loop' \in [LaneNames -> [at : Ats, cycle : Nat]] /\ loop'[l].at = at
      /\ \A m \in LaneNames : m # l => loop'[m] = loop[m]
  BY DEF IInv, Shapes
<1>2. loop'[l] # Off /\ loop'[l].at \notin {"off", "work"}
  BY <1>1 DEF Off
<1>3. /\ call' = [a \in Actors |-> call'[a]]
      /\ call'["operator"] = call["operator"]
      /\ \A a \in Actors : a # l => call'[a] = call[a]
      /\ \/ call'[l] = NoCall /\ call[l] = NoCall
         \/ \E change : /\ call'[l] = [stage |-> "asked", lane |-> Key(l), change |-> change]
                        /\ Quiet(change) /\ DOMAIN change \subseteq Columns
  <2>1. CASE UNCHANGED call /\ Free(l)
    BY <2>1 DEF IInv, CallsSound, Free
  <2>2. ASSUME NEW change, Calls(l, l, change), Quiet(change), DOMAIN change \subseteq Columns
        PROVE  <1>3
    BY <2>2, LaneCalls
  <2> QED
    BY <2>1, <2>2
<1>4. Shapes' /\ Alone'
  <2>1. Shapes
    BY DEF IInv
  <2>2. \A m \in LaneNames : /\ loop'[m].at = "off" => loop'[m] = Off
                             /\ loop'[m] # Off => loop[m] # Off /\ m \in crew'
    BY <1>1, <1>2, <2>1 DEF Shapes
  <2>3. halt' \in {"no", "stop", "ctrl-c"} /\ torn' \subseteq LaneNames /\ crew' \subseteq LaneNames
    BY <2>1 DEF Shapes
  <2> QED
    BY <1>1, <2>2, <2>3, LoopMoves
<1>5. CallsSound'
  <2>1. \A m \in LaneNames :
           \/ call'[m] = NoCall
           \/ call'[m] = call[m] /\ loop'[m] = loop[m]
           \/ /\ loop'[m] # Off /\ loop'[m].at # "work"
              /\ \E change : /\ call'[m] = [stage |-> "asked", lane |-> Key(m), change |-> change]
                             /\ Quiet(change) /\ DOMAIN change \subseteq Columns
    <3> SUFFICES ASSUME NEW m \in LaneNames PROVE <2>1!(m)
      OBVIOUS
    <3>1. CASE m = l
      BY <1>2, <1>3, <3>1
    <3>2. CASE m # l
      BY <1>1, <1>3, <3>2, ActorFacts
    <3> QED
      BY <3>1, <3>2
  <2> QED
    BY <1>3, <2>1, CallsKept
<1>6. WorkSound' /\ RowsHonest' /\ SingletonFollows'
  <2>1. \A m \in LaneNames : loop'[m].at = "work" => loop'[m] = loop[m]
    BY <1>1, <1>2
  <2>2. \A m \in LaneNames : call[m] # NoCall => call'[m] # NoCall
    <3> SUFFICES ASSUME NEW m \in LaneNames, call[m] # NoCall PROVE call'[m] # NoCall
      OBVIOUS
    <3>1. CASE m = l
      <4>1. \A change : [stage |-> "asked", lane |-> Key(l), change |-> change].stage = "asked"
        OBVIOUS
      <4>2. NoCall.stage = "none"
        BY DEF NoCall
      <4> QED
        BY <1>3, <3>1, <4>1, <4>2
    <3>2. CASE m # l
      BY <1>3, <3>2, ActorFacts
    <3> QED
      BY <3>1, <3>2
  <2> QED
    BY <2>1, <2>2, Unwritten
<1> QED
  BY <1>4, <1>5, <1>6 DEF IInv

\* A loop stays on, and where it was it may make a call that ends the naming of a cycle.
LEMMA StartsAndStops ==
  ASSUME IInv, NEW l \in LaneNames, BootLane(l) \/ PollLane(l) \/ SettleLane(l) \/ StopLane(l)
  PROVE  IInv'
<1>1. loop \in [LaneNames -> [at : Ats, cycle : Nat]]
  BY DEF IInv, Shapes
<1>2. /\ \A at : Goes(l, at) => loop' = [loop EXCEPT ![l] = [at |-> at, cycle |-> loop[l].cycle]]
      /\ UNCHANGED loop => loop' = [loop EXCEPT ![l] = [at |-> loop[l].at, cycle |-> loop[l].cycle]]
      /\ loop[l].cycle \in Nat /\ NoCycle \in Nat
  BY <1>1 DEF Goes, NoCycle
<1>3. loop[l].at \in {"boot", "poll", "settle", "stopping"} => loop[l] # Off
  BY DEF Off
<1>4. UNCHANGED <<plane, lanes, singleton, ran, crew, halt, torn>>
  BY DEF BootLane, PollLane, SettleLane, StopLane
<1>5. \A n : /\ Quiet(Scheduling(n)) /\ DOMAIN Scheduling(n) \subseteq Columns
             /\ Quiet(Pausing(n)) /\ DOMAIN Pausing(n) \subseteq Columns
  BY QuietChanges
<1> DEFINE Arrives(at, c) ==
      /\ loop' = [loop EXCEPT ![l] = [at |-> at, cycle |-> c]]
      /\ \/ UNCHANGED call /\ Free(l)
         \/ \E change : Calls(l, l, change) /\ Quiet(change) /\ DOMAIN change \subseteq Columns
<1>6. ASSUME NEW at \in Ats \ {"off", "work"}, NEW c \in Nat, Arrives(at, c),
             loop[l].at \in {"boot", "poll", "settle", "stopping"}
      PROVE  IInv'
  BY <1>3, <1>4, <1>6, LoopGoesOn
<1>7. CASE BootLane(l)
  <2>1. Arrives("poll", loop[l].cycle) /\ loop[l].at = "boot"
    BY <1>2, <1>5, <1>7 DEF BootLane
  <2> QED
    BY <1>2, <1>6, <2>1 DEF Ats
<1>8. CASE PollLane(l)
  <2>1. loop[l].at = "poll" /\ Free(l)
    BY <1>8 DEF PollLane
  <2>2. \/ Goes(l, "stopping") /\ UNCHANGED call
        \/ UNCHANGED loop /\ \E n : Calls(l, l, Pausing(n)) \/ Calls(l, l, Scheduling(n))
        \/ Goes(l, "start") /\ UNCHANGED call
        \/ Goes(l, "start") /\ \E n : Calls(l, l, Scheduling(n))
    BY <1>8 DEF PollLane
  <2>3. \/ Arrives("stopping", loop[l].cycle) \/ Arrives("poll", loop[l].cycle)
        \/ Arrives("start", loop[l].cycle)
    BY <1>2, <1>5, <2>1, <2>2
  <2> HIDE DEF Arrives
  <2> QED
    BY <1>2, <1>6, <2>1, <2>3 DEF Ats
<1>9. CASE SettleLane(l)
  <2>1. loop[l].at = "settle" /\ Free(l)
    BY <1>9 DEF SettleLane
  <2>2. \/ loop' = [loop EXCEPT ![l] = [at |-> "stopping", cycle |-> NoCycle]] /\ UNCHANGED call
        \/ /\ loop' = [loop EXCEPT ![l] = [at |-> "poll", cycle |-> NoCycle]]
           /\ \E n : Calls(l, l, Pausing(n)) \/ Calls(l, l, Scheduling(n))
    BY <1>9 DEF SettleLane
  <2>3. Arrives("stopping", NoCycle) \/ Arrives("poll", NoCycle)
    BY <1>5, <2>1, <2>2
  <2> HIDE DEF Arrives
  <2> QED
    BY <1>2, <1>6, <2>1, <2>3 DEF Ats
<1>10. CASE StopLane(l)
  <2>1. Arrives("ending", loop[l].cycle) /\ loop[l].at = "stopping"
    BY <1>2, <1>10, QuietChanges DEF StopLane
  <2> QED
    BY <1>2, <1>6, <2>1 DEF Ats
<1> QED
  BY <1>7, <1>8, <1>9, <1>10

\* Ctrl-C only says so.
LEMMA InterruptKeeps ==
  ASSUME IInv, Interrupted
  PROVE  IInv'
<1>1. /\ UNCHANGED <<plane, lanes, singleton, ran, crew, loop, call, torn>>
      /\ halt' \in {"no", "stop", "ctrl-c"}
  BY DEF Interrupted
<1>2. Shapes' /\ Alone'
  BY <1>1, LoopMoves DEF IInv, Shapes
<1>3. CallsSound'
  <2>1. call' = [a \in Actors |-> call'[a]]
    BY <1>1 DEF IInv, CallsSound
  <2> QED
    BY <1>1, <2>1, CallsKept
<1>4. WorkSound' /\ RowsHonest' /\ SingletonFollows'
  BY <1>1, Unwritten
<1> QED
  BY <1>2, <1>3, <1>4 DEF IInv

\* Loops that end leave their calls and, in PostgreSQL, a row that may be half written.
LEMMA LossKeeps ==
  ASSUME IInv, NEW gone, gone \subseteq LaneNames, Lost(gone)
  PROVE  IInv'
<1>1. /\ UNCHANGED <<plane, lanes, singleton, ran>>
      /\ call' = [a \in Actors |-> IF a \in gone THEN NoCall ELSE call[a]]
      /\ loop' = [l \in LaneNames |-> IF l \in gone THEN Off ELSE loop[l]]
      /\ crew' = IF \A l \in LaneNames \ gone : loop[l] = Off THEN {} ELSE crew
      /\ halt' \in {"no", "stop"}
      /\ torn' = torn \cup {Key(l) : l \in {l \in gone : plane = "postgres" /\ ~Free(l)}}
  BY DEF Lost, Ends
<1>2. Off \in [at : Ats, cycle : Nat] /\ Off.at = "off"
  BY DEF Off, Ats, NoCycle
<1>3. /\ loop \in [LaneNames -> [at : Ats, cycle : Nat]]
      /\ plane \in {"sqlite", "postgres"} /\ torn \subseteq LaneNames /\ crew \subseteq LaneNames
      /\ \A l \in LaneNames : loop[l].at = "off" => loop[l] = Off
      /\ \A l \in LaneNames : loop[l] # Off => l \in crew
  BY DEF IInv, Shapes
<1>4. loop' \in [LaneNames -> [at : Ats, cycle : Nat]]
  BY <1>1, <1>2, <1>3
<1>5. Shapes' /\ Alone'
  <2>1. torn' \subseteq LaneNames /\ crew' \subseteq LaneNames
    BY <1>1, <1>3, KeyFacts
  <2>2. \A m \in LaneNames : /\ loop'[m].at = "off" => loop'[m] = Off
                             /\ loop'[m] # Off => loop[m] # Off /\ m \in crew'
    BY <1>1, <1>3
  <2> QED
    BY <1>1, <1>4, <2>1, <2>2, LoopMoves
<1>6. CallsSound'
  <2>1. call' = [a \in Actors |-> call'[a]]
    BY <1>1
  <2>2. call'["operator"] = call["operator"] /\ \A m \in LaneNames :
           call'[m] = NoCall \/ (call'[m] = call[m] /\ loop'[m] = loop[m])
    BY <1>1, ActorFacts
  <2> QED
    BY <1>1, <2>1, <2>2, CallsKept
<1>7. WorkSound' /\ RowsHonest' /\ SingletonFollows'
  <2>1. \A l \in LaneNames : plane = "postgres" /\ call[l] # NoCall /\ call'[l] = NoCall =>
          Default \in torn'
    BY <1>1, <1>3, KeyFacts, ActorFacts DEF Free
  <2>2. \A l \in LaneNames : loop'[l].at = "work" => loop'[l] = loop[l]
    BY <1>1, <1>2
  <2> QED
    BY <1>1, <2>1, <2>2, Unwritten
<1> QED
  BY <1>5, <1>6, <1>7 DEF IInv

\* A launch finds no loop and no loop's call; PostgreSQL takes one lane.
LEMMA LaunchKeeps ==
  ASSUME IInv, NEW c \in Crews, LaunchCrew(c)
  PROVE  IInv'
<1>1. /\ \A l \in LaneNames : loop[l] = Off
      /\ UNCHANGED <<plane, lanes, singleton, ran, call, torn>>
      /\ crew' = c /\ halt' = "no"
      /\ plane = "postgres" => Cardinality(c) = 1
      /\ loop' = [l \in LaneNames |-> IF l \in c THEN [Off EXCEPT !.at = "boot"] ELSE Off]
  BY DEF LaunchCrew, LaneAware
<1>2. [Off EXCEPT !.at = "boot"] = [at |-> "boot", cycle |-> NoCycle]
  BY DEF Off
<1>3. /\ Off \in [at : Ats, cycle : Nat] /\ Off.at = "off"
      /\ [at |-> "boot", cycle |-> NoCycle] \in [at : Ats, cycle : Nat]
      /\ [at |-> "boot", cycle |-> NoCycle].at = "boot"
  BY DEF Off, Ats, NoCycle
<1>4. c \subseteq LaneNames /\ IsFiniteSet(LaneNames)
  BY LanesAssumption
<1>5. /\ loop' \in [LaneNames -> [at : Ats, cycle : Nat]]
      /\ \A l \in LaneNames : loop'[l].at \in {"off", "boot"} /\ (loop'[l] # Off => l \in c)
      /\ \A l \in LaneNames : loop'[l].at = "off" => loop'[l] = Off
  BY <1>1, <1>2, <1>3
<1>6. Shapes'
  BY <1>1, <1>4, <1>5 DEF IInv, Shapes, IsCycles
<1>7. Alone'
  <2> SUFFICES ASSUME plane = "postgres" PROVE \A l, m \in c : l = m
    BY <1>1, <1>5 DEF Alone
  <2>1. IsFiniteSet(c)
    BY <1>4, FS_Subset
  <2>2. PICK x : c = {x}
    BY <1>1, <2>1, FS_Singleton
  <2> QED
    BY <2>2
<1>8. \A l \in LaneNames : call[l] = NoCall
  BY <1>1 DEF IInv, CallsSound
<1>9. CallsSound'
  <2>1. call' = [a \in Actors |-> call'[a]]
    BY <1>1 DEF IInv, CallsSound
  <2> QED
    BY <1>1, <1>8, <2>1, CallsKept
<1>10. WorkSound' /\ RowsHonest' /\ SingletonFollows'
  BY <1>1, <1>5, <1>8, Unwritten
<1> QED
  BY <1>6, <1>7, <1>9, <1>10 DEF IInv

\* A command is asked for.
LEMMA OrderKeeps ==
  ASSUME IInv, Order
  PROVE  IInv'
<1>1. /\ UNCHANGED <<plane, lanes, singleton, ran, crew, loop, halt, torn>>
      /\ call["operator"] = NoCall
  BY DEF Order, Free
<1>2. PICK change \in {PauseOf(Row(Default)), ResumeOf(Row(Default))} :
        call' = [call EXCEPT !["operator"] = [stage |-> "asked", lane |-> Key(Default), change |-> change]]
  BY DEF Order, Calls
<1>3. Key(Default) = Default /\ plane \in {"sqlite", "postgres"}
  BY KeyFacts DEF IInv, Shapes
<1>4. DOMAIN change \subseteq Columns /\ DOMAIN change \cap {"active", "latest"} = {}
  BY OrderFacts
<1>5. Shapes' /\ Alone'
  BY <1>1, LoopMoves DEF IInv, Shapes
<1>6. CallsSound /\ call = [a \in Actors |-> call[a]]
  BY DEF IInv, CallsSound
<1>7. /\ call' = [a \in Actors |-> call'[a]]
      /\ call'["operator"] = [stage |-> "asked", lane |-> Default, change |-> change]
      /\ \A l \in LaneNames : call'[l] = call[l]
  BY <1>2, <1>3, <1>6, ActorFacts
<1>8. CallsSound'
  <2>1. \A l : Key(l)' = Key(l) /\ Row(l)' = Row(l)
    BY <1>1 DEF Key, Row
  <2>2. /\ call'["operator"].stage = "asked" /\ call'["operator"].lane = Default
        /\ call'["operator"].change = change
    BY <1>7
  <2>3. \A l \in LaneNames : Pending(l) => Pending(l)'
    BY <1>1, <1>7, <2>1 DEF Pending
  <2>4. ASSUME NEW a \in Actors, call'[a] # NoCall
        PROVE  /\ call'[a].stage \in {"asked", "loaded"}
               /\ call'[a].stage = "loaded" => Reread(a)' /\ DOMAIN call'[a].base = Columns
               /\ call'[a].lane = IF a = "operator" THEN Default ELSE Key(a)'
               /\ DOMAIN call'[a].change \subseteq Columns
    <3>1. CASE a = "operator"
      BY <1>4, <2>2, <3>1
    <3>2. CASE a \in LaneNames
      BY <1>1, <1>6, <1>7, <2>1, <2>4, <3>2, ActorFacts DEF CallsSound, Reread
    <3> QED
      BY <3>1, <3>2 DEF Actors
  <2>5. \A l \in LaneNames : call'[l] # NoCall => loop'[l] # Off /\ Pending(l)'
    BY <1>1, <1>6, <1>7, <2>3 DEF CallsSound
  <2> QED
    BY <1>4, <1>7, <2>2, <2>4, <2>5 DEF CallsSound
<1>9. WorkSound' /\ RowsHonest' /\ SingletonFollows'
  BY <1>1, <1>7, Unwritten
<1> QED
  BY <1>5, <1>8, <1>9 DEF IInv

\* The row is read for a call.
LEMMA LoadKeeps ==
  ASSUME IInv, NEW a \in Actors, LoadRow(a)
  PROVE  IInv'
<1>1. /\ UNCHANGED <<plane, lanes, singleton, ran, crew, loop, halt, torn>>
      /\ call[a].stage = "asked" /\ Reread(a)
      /\ call' = [call EXCEPT ![a] = [stage |-> "loaded", lane |-> call[a].lane,
                                      change |-> call[a].change, base |-> Row(call[a].lane)]]
  BY DEF LoadRow
<1>2. CallsSound /\ call = [x \in Actors |-> call[x]] /\ Shapes
  BY DEF IInv, CallsSound
<1>3. /\ call' = [x \in Actors |-> call'[x]]
      /\ call'[a].stage = "loaded" /\ call'[a].lane = call[a].lane
      /\ call'[a].change = call[a].change /\ call'[a].base = Row(call[a].lane)
      /\ \A x \in Actors : x # a => call'[x] = call[x]
  BY <1>1, <1>2
<1>4. call[a] # NoCall /\ call'[a] # NoCall
  BY <1>1, <1>3 DEF NoCall
<1>5. Shapes' /\ Alone'
  BY <1>1, <1>2, LoopMoves DEF Shapes
<1>6. CallsSound'
  <2>1. \A l : Key(l)' = Key(l) /\ Row(l)' = Row(l)
    BY <1>1 DEF Key, Row
  <2>2. DOMAIN Row(call[a].lane) = Columns
    BY <1>2, RowShape
  <2>3. ASSUME NEW l \in LaneNames, call[l] # NoCall, Pending(l)
        PROVE  Pending(l)'
    <3>1. CASE l # a
      BY <1>1, <1>3, <2>1, <2>3, <3>1, ActorFacts DEF Pending
    <3>2. CASE l = a
      <4>1. call[a].lane = Key(l) /\ l # "operator"
        BY <1>2, <1>4, <3>2, ActorFacts DEF CallsSound
      <4>2. plane = "postgres" => Key(l) = Default
        BY <1>2, KeyFacts DEF Shapes
      <4> QED
        BY <1>1, <1>3, <2>1, <2>3, <3>2, <4>1, <4>2 DEF Pending
    <3> QED
      BY <3>1, <3>2
  <2>4. ASSUME NEW x \in Actors, call'[x] # NoCall
        PROVE  /\ call'[x].stage \in {"asked", "loaded"}
               /\ call'[x].stage = "loaded" => Reread(x)' /\ DOMAIN call'[x].base = Columns
               /\ call'[x].lane = IF x = "operator" THEN Default ELSE Key(x)'
               /\ DOMAIN call'[x].change \subseteq Columns
    <3>1. CASE x = a
      BY <1>1, <1>2, <1>3, <1>4, <2>1, <2>2, <3>1 DEF CallsSound, Reread
    <3>2. CASE x # a
      BY <1>1, <1>2, <1>3, <2>1, <2>4, <3>2 DEF CallsSound, Reread
    <3> QED
      BY <3>1, <3>2
  <2>5. \A l \in LaneNames : call'[l] # NoCall => loop'[l] # Off /\ Pending(l)'
    <3> SUFFICES ASSUME NEW l \in LaneNames, call'[l] # NoCall PROVE loop'[l] # Off /\ Pending(l)'
      OBVIOUS
    <3>1. call[l] # NoCall
      BY <1>3, <1>4, ActorFacts
    <3> QED
      BY <1>1, <1>2, <2>3, <3>1 DEF CallsSound
  <2>6. call'["operator"] # NoCall => DOMAIN call'["operator"].change \cap {"active", "latest"} = {}
    BY <1>2, <1>3, <1>4, ActorFacts DEF CallsSound
  <2> QED
    BY <1>3, <2>4, <2>5, <2>6 DEF CallsSound
<1>7. WorkSound' /\ RowsHonest' /\ SingletonFollows'
  <2>1. \A l \in LaneNames : call'[l] = NoCall => call[l] = NoCall
    BY <1>3, <1>4, ActorFacts
  <2> QED
    BY <1>1, <2>1, Unwritten
<1> QED
  BY <1>5, <1>6, <1>7 DEF IInv

-----------------------------------------------------------------------------
\* A row is written: the lanes' rows, and the singleton after them.
LEMMA UpsertFacts ==
  ASSUME IInv, plane' = plane, NEW l \in LaneNames, NEW row, DOMAIN row = Columns, Upsert(l, row)
  PROVE  /\ DOMAIN lanes' = DOMAIN lanes \cup {Key(l)}
         /\ lanes'[Key(l)] = row
         /\ \A k \in DOMAIN lanes : k # Key(l) => lanes'[k] = lanes[k]
         /\ \A m : Row(m)' = IF Key(m) = Key(l) THEN row ELSE Row(m)
         /\ DOMAIN lanes' \subseteq (IF plane' = "postgres" THEN {Default} ELSE LaneNames)
         /\ \A k \in DOMAIN lanes' : DOMAIN lanes'[k] = Columns
         /\ SingletonFollows'
<1>1. Shapes /\ SingletonFollows
  BY DEF IInv
<1>2. /\ Key(l) \in LaneNames /\ (plane = "sqlite" => Key(l) = l)
      /\ plane = "postgres" => Key(l) = Default
      /\ \A m : Key(m)' = Key(m)
  BY <1>1, KeyFacts DEF Shapes, Key
<1> DEFINE rowsNow == [k \in DOMAIN lanes \cup {Key(l)} |-> IF k = Key(l) THEN row ELSE lanes[k]]
<1>3. lanes' = rowsNow /\ singleton' = Copied(l, row, rowsNow)
  BY DEF Upsert
<1>4. /\ DOMAIN lanes' = DOMAIN lanes \cup {Key(l)}
      /\ lanes'[Key(l)] = row
      /\ \A k \in DOMAIN lanes : k # Key(l) => lanes'[k] = lanes[k]
  BY <1>3
<1>5. singleton' = Copied(l, row, lanes')
  BY <1>3
<1> HIDE DEF rowsNow
<1>6. \A m : Row(m)' = IF Key(m) = Key(l) THEN row ELSE Row(m)
  BY <1>2, <1>4 DEF Row
<1>7. DOMAIN lanes' \subseteq (IF plane' = "postgres" THEN {Default} ELSE LaneNames)
  BY <1>1, <1>2, <1>4 DEF Shapes
<1>8. \A k \in DOMAIN lanes' : DOMAIN lanes'[k] = Columns
  BY <1>1, <1>4 DEF Shapes
<1>9. SingletonFollows'
  <2> SUFFICES ASSUME plane = "sqlite", NEW m \in DOMAIN lanes', m = Default \/ DOMAIN lanes' = {m}
               PROVE  singleton' = lanes'[m]
    BY DEF SingletonFollows
  <2>1. Key(l) = l
    BY <1>2
  <2>2. CASE Synced(l, lanes')
    <3>1. singleton' = row
      BY <1>5, <2>2 DEF Copied
    <3>2. l = m
      <4>1. CASE l = Default
        BY <1>4, <2>1, <4>1
      <4>2. CASE l # Default
        <5>1. Default \notin DOMAIN lanes' /\ l \in DOMAIN lanes'
          BY <1>4, <2>1, <2>2, <4>2 DEF Synced
        <5> QED
          BY <5>1
      <4> QED
        BY <4>1, <4>2
    <3> QED
      BY <1>4, <2>1, <3>1, <3>2
  <2>3. CASE ~Synced(l, lanes')
    <3>1. singleton' = singleton /\ l # Default
      BY <1>5, <2>3 DEF Copied, Synced
    <3>2. DOMAIN lanes' # {m}
      <4> SUFFICES ASSUME DOMAIN lanes' = {m} PROVE FALSE
        OBVIOUS
      <4>1. m = l /\ Default \notin DOMAIN lanes'
        BY <1>4, <2>1, <3>1
      <4>2. Cardinality(DOMAIN lanes') = 1
        BY FS_Singleton
      <4> QED
        BY <2>3, <4>1, <4>2 DEF Synced
    <3>3. m = Default /\ m # Key(l) /\ m \in DOMAIN lanes
      BY <1>4, <2>1, <3>1, <3>2
    <3>4. singleton = lanes[m]
      BY <1>1, <3>3 DEF SingletonFollows
    <3> QED
      BY <1>4, <3>1, <3>3, <3>4
  <2> QED
    BY <2>2, <2>3
<1> QED
  BY <1>4, <1>6, <1>7, <1>8, <1>9

\* In SQLite, what one lane's loop does is nothing to the other lanes.
LEMMA OtherLanes ==
  ASSUME IInv, plane = "sqlite", plane' = plane, NEW l \in LaneNames,
         \A m \in LaneNames : m # l => loop'[m] = loop[m] /\ Row(m)' = Row(m),
         \A k \in DOMAIN lanes' : k # l => k \in DOMAIN lanes /\ lanes'[k] = lanes[k],
         torn \subseteq torn' \cup {l},
         DOMAIN ran \subseteq DOMAIN ran',
         \A k \in DOMAIN ran : /\ ran'[k].lane = ran[k].lane
                               /\ ran[k].lane # l => ran'[k] = ran[k],
         \A k \in DOMAIN ran' : k \notin DOMAIN ran => ran'[k].lane = l
  PROVE  /\ \A m \in LaneNames : m # l /\ loop'[m].at = "work" =>
              LET c == loop'[m].cycle IN
              /\ c \in LatestOf(Key(m))' /\ ran'[c].lane = m /\ ran'[c].status = "running"
              /\ Sound(Key(m))' => Engaged(Row(m)', c)
         /\ \A k \in DOMAIN lanes' : k # l /\ Sound(k)' => Honest(lanes[k], k)'
<1>1. (\A m : Key(m) = m) /\ \A m : Key(m)' = m
  BY DEF Key
<1>2. \A m : m # l => LatestOf(m)' = LatestOf(m)
  <2> SUFFICES ASSUME NEW m, m # l PROVE LatestOf(m)' = LatestOf(m)
    OBVIOUS
  <2>1. /\ LatestOf(m) = {k \in DOMAIN ran : ran[k].lane = m /\ \A j \in DOMAIN ran : ran[j].lane = m => j <= k}
        /\ LatestOf(m)' = {k \in DOMAIN ran' : ran'[k].lane = m /\ \A j \in DOMAIN ran' : ran'[j].lane = m => j <= k}
    BY DEF LatestOf, Key
  <2>2. \A k \in DOMAIN ran : k \in DOMAIN ran' /\ ran'[k].lane = ran[k].lane
    OBVIOUS
  <2>a. \A k \in DOMAIN ran' : k \notin DOMAIN ran => ran'[k].lane # m
    OBVIOUS
  <2>3. ASSUME NEW k PROVE k \in LatestOf(m)' <=> k \in LatestOf(m)
    BY <2>1, <2>2, <2>a
  <2> QED
    BY <2>1, <2>3
<1>3. \A m : m # l /\ Sound(m)' => Sound(m)
  BY DEF Sound
<1>4. ASSUME NEW m \in LaneNames, m # l, loop'[m].at = "work"
      PROVE  LET c == loop'[m].cycle IN
             /\ c \in LatestOf(Key(m))' /\ ran'[c].lane = m /\ ran'[c].status = "running"
             /\ Sound(Key(m))' => Engaged(Row(m)', c)
  <2>0. loop'[m] = loop[m] /\ Row(m)' = Row(m)
    BY <1>4
  <2>1. /\ loop[m].cycle \in LatestOf(m) /\ ran[loop[m].cycle].lane = m
        /\ ran[loop[m].cycle].status = "running"
        /\ Sound(m) => Engaged(Row(m), loop[m].cycle)
    BY <1>1, <1>4, <2>0 DEF IInv, WorkSound
  <2>2. loop[m].cycle \in DOMAIN ran
    BY <2>1 DEF LatestOf
  <2>3. Key(m)' = m
    BY DEF Key
  <2>4. ran'[loop[m].cycle] = ran[loop[m].cycle]
    BY <1>4, <2>1, <2>2
  <2>5. Engaged(Row(m), loop[m].cycle) => Engaged(Row(m)', loop'[m].cycle)
    BY <2>0 DEF Engaged
  <2> QED
    BY <1>2, <1>3, <1>4, <2>0, <2>1, <2>3, <2>4, <2>5 DEF LatestOf, Sound
<1>5. ASSUME NEW k \in DOMAIN lanes', k # l, Sound(k)'
      PROVE  Honest(lanes[k], k)'
  <2>1. k \in DOMAIN lanes /\ lanes'[k] = lanes[k]
    BY <1>5
  <2>2. Honest(lanes[k], k)
    BY <1>3, <1>5, <2>1 DEF IInv, RowsHonest
  <2>3. CASE lanes[k].active = NoCycle
    BY <2>1, <2>2, <2>3 DEF Honest
  <2>4. CASE lanes[k].active # NoCycle
    <3>1. /\ lanes[k].active \in LatestOf(k) /\ lanes[k].active \in DOMAIN ran
          /\ ran[lanes[k].active].lane = k
      BY <2>2, <2>4 DEF Honest, LatestOf, Key
    <3>2. ran'[lanes[k].active] = ran[lanes[k].active]
      BY <1>5, <3>1
    <3>3. lanes[k].active \in LatestOf(k)'
      BY <1>2, <1>5, <3>1
    <3> QED
      BY <2>1, <2>2, <2>4, <3>2, <3>3 DEF Honest
  <2> QED
    BY <2>3, <2>4
<1> QED
  BY <1>4, <1>5

\* PostgreSQL's one loop leaves the other lanes off and without calls.
LEMMA OtherLanesOff ==
  ASSUME IInv, plane = "postgres", NEW l \in LaneNames, loop[l] # Off
  PROVE  \A m \in LaneNames : m # l => loop[m] = Off /\ loop[m].at = "off" /\ call[m] = NoCall
BY DEF IInv, Alone, CallsSound, Off

\* A step of a loop that calls for nothing leaves the calls as they are.
LEMMA CallsStay ==
  ASSUME IInv, UNCHANGED <<plane, call>>, NEW l \in LaneNames, loop[l] # Off, Free(l),
         \A m \in LaneNames : m # l => loop'[m] = loop[m]
  PROVE  CallsSound'
<1>1. CallsSound /\ plane \in {"sqlite", "postgres"} /\ \A m : Key(m)' = Key(m)
  BY DEF IInv, Shapes, Key
<1>2. \A a \in Actors : Reread(a)' = Reread(a)
  BY DEF Reread
<1>3. \A m \in LaneNames : call[m] # NoCall => loop'[m] # Off /\ Pending(m)'
  <2> SUFFICES ASSUME NEW m \in LaneNames, call[m] # NoCall PROVE loop'[m] # Off /\ Pending(m)'
    OBVIOUS
  <2>1. m # l /\ loop'[m] = loop[m] /\ loop[m] # Off /\ Pending(m)
    BY <1>1 DEF CallsSound, Free
  <2>2. plane = "sqlite"
    BY <1>1, <2>1, OtherLanesOff
  <2> QED
    BY <2>1, <2>2 DEF Pending
<1> QED
  BY <1>1, <1>2, <1>3 DEF CallsSound

\* The calls, after one of PostgreSQL's loop.
LEMMA CallsOfPostgres ==
  ASSUME IInv, plane = "postgres", plane' = plane, NEW l \in LaneNames, loop[l] # Off,
         NEW change, Calls(l, l, change), DOMAIN change \subseteq Columns,
         loop'[l] # Off, Pending(l)', UNCHANGED lanes
  PROVE  CallsSound' /\ call'[l] # NoCall
<1>1. CallsSound /\ \A m : Key(m)' = Key(m)
  BY DEF IInv, Key
<1>2. /\ call' = [a \in Actors |-> call'[a]]
      /\ call'[l].stage = "asked" /\ call'[l].lane = Key(l) /\ call'[l].change = change
      /\ \A a \in Actors : a # l => call'[a] = call[a]
      /\ call'["operator"] = call["operator"]
  <2>1. call'[l] = [stage |-> "asked", lane |-> Key(l), change |-> change]
    BY LaneCalls
  <2> QED
    BY <2>1, LaneCalls
<1>3. \A m \in LaneNames : m # l => call'[m] = NoCall
  BY <1>2, OtherLanesOff, ActorFacts
<1>4. ASSUME NEW a \in Actors, call'[a] # NoCall
      PROVE  /\ call'[a].stage \in {"asked", "loaded"}
             /\ call'[a].stage = "loaded" => Reread(a)' /\ DOMAIN call'[a].base = Columns
             /\ call'[a].lane = IF a = "operator" THEN Default ELSE Key(a)'
             /\ DOMAIN call'[a].change \subseteq Columns
  <2>1. CASE a = l
    BY <1>1, <1>2, <2>1, ActorFacts
  <2>2. CASE a # l
    <3>1. call'[a] = call[a]
      BY <1>2, <2>2
    <3> QED
      BY <1>1, <1>4, <3>1 DEF CallsSound, Reread
  <2> QED
    BY <2>1, <2>2
<1>5. call'[l] # NoCall
  BY <1>2 DEF NoCall
<1>6. \A m \in LaneNames : call'[m] # NoCall => loop'[m] # Off /\ Pending(m)'
  BY <1>3
<1>7. call'["operator"] # NoCall => DOMAIN call'["operator"].change \cap {"active", "latest"} = {}
  BY <1>1, <1>2 DEF CallsSound
<1> QED
  BY <1>2, <1>4, <1>5, <1>6, <1>7 DEF CallsSound

-----------------------------------------------------------------------------
\* Cycles that are changed but not added stay the latest ones.
LEMMA LatestKept ==
  ASSUME plane' = plane, DOMAIN ran' = DOMAIN ran, \A k \in DOMAIN ran : ran'[k].lane = ran[k].lane
  PROVE  \A l : LatestOf(l)' = LatestOf(l)
<1> SUFFICES ASSUME NEW l PROVE LatestOf(l)' = LatestOf(l)
  OBVIOUS
<1>1. ASSUME NEW k PROVE k \in LatestOf(l)' <=> k \in LatestOf(l)
  BY DEF LatestOf, Key
<1>2. LatestOf(l) \subseteq DOMAIN ran /\ LatestOf(l)' \subseteq DOMAIN ran
  BY DEF LatestOf
<1> QED
  BY <1>1, <1>2

\* A cycle that is added is its lane's latest.
LEMMA CycleAdded ==
  ASSUME plane' = plane, IsCycles(ran), NEW l \in LaneNames, NEW status, NEW phase,
         ran' = Append(ran, [lane |-> l, status |-> status, phase |-> phase])
  PROVE  /\ IsCycles(ran') /\ Len(ran) + 1 \in Nat /\ Len(ran) + 1 # 0
         /\ DOMAIN ran' = DOMAIN ran \cup {Len(ran) + 1} /\ Len(ran) + 1 \notin DOMAIN ran
         /\ \A k \in DOMAIN ran : ran'[k] = ran[k]
         /\ ran'[Len(ran) + 1] = [lane |-> l, status |-> status, phase |-> phase]
         /\ Len(ran) + 1 \in LatestOf(Key(l))'
<1>1. PICK S, P : ran \in Seq([lane : LaneNames, status : S, phase : P])
  BY DEF IsCycles
<1> DEFINE row == [lane |-> l, status |-> status, phase |-> phase]
           T == [lane : LaneNames, status : S \cup {status}, phase : P \cup {phase}]
<1>2. row \in T
  OBVIOUS
<1>3. ran \in Seq(T)
  <2> DEFINE R == [lane : LaneNames, status : S, phase : P]
  <2>1. R \subseteq T /\ ran \in Seq(R)
    BY <1>1
  <2> HIDE DEF R, T
  <2> QED
    BY <2>1, SeqMonotonic
<1>4. ran' \in Seq(T)
  <2> HIDE DEF T, row
  <2> QED
    BY <1>2, <1>3 DEF row
<1>5. IsCycles(ran')
  BY <1>4 DEF IsCycles
<1>6. /\ Len(ran) \in Nat /\ DOMAIN ran = 1..Len(ran)
      /\ DOMAIN ran' = 1..(Len(ran) + 1)
      /\ \A k \in DOMAIN ran : ran'[k] = ran[k]
      /\ ran'[Len(ran) + 1] = row
  <2> HIDE DEF T, row
  <2> QED
    BY <1>2, <1>3 DEF row
<1>7. Len(ran) + 1 \in LatestOf(Key(l))'
  <2>1. ran'[Len(ran) + 1].lane = l
    BY <1>6
  <2>3. \A j \in DOMAIN ran' : j <= Len(ran) + 1
    BY <1>6
  <2>4. Len(ran) + 1 \in DOMAIN ran'
    BY <1>6
  <2> HIDE DEF row
  <2>5. \A k : k \in DOMAIN ran' /\ ran'[k].lane = l /\ (\A j \in DOMAIN ran' : j <= k) => k \in LatestOf(Key(l))'
    BY DEF LatestOf, Key
  <2> QED
    BY <2>1, <2>3, <2>4, <2>5
<1> QED
  BY <1>5, <1>6, <1>7

\* A cycle that is changed stays its lane's.
LEMMA CycleChanged ==
  ASSUME IsCycles(ran), NEW c \in DOMAIN ran, NEW status, NEW phase,
         ran' = [ran EXCEPT ![c] = [lane |-> ran[c].lane, status |-> status, phase |-> phase]]
  PROVE  /\ IsCycles(ran') /\ DOMAIN ran' = DOMAIN ran
         /\ ran'[c].lane = ran[c].lane /\ ran'[c].status = status /\ ran'[c].phase = phase
         /\ \A k \in DOMAIN ran : k # c => ran'[k] = ran[k]
<1>1. PICK S, P : ran \in Seq([lane : LaneNames, status : S, phase : P])
  BY DEF IsCycles
<1> DEFINE R == [lane : LaneNames, status : S, phase : P]
           T == [lane : LaneNames, status : S \cup {status}, phase : P \cup {phase}]
           row == [lane |-> ran[c].lane, status |-> status, phase |-> phase]
<1>2. R \subseteq T /\ ran \in Seq(R)
  BY <1>1
<1>3. ran[c].lane \in LaneNames
  <2> ran[c] \in R
    <3> HIDE DEF R
    <3> QED
      BY <1>2
  <2> QED
    OBVIOUS
<1>4. row \in T
  BY <1>3
<1>5. row.lane = ran[c].lane /\ row.status = status /\ row.phase = phase
  OBVIOUS
<1> HIDE DEF R, T
<1>6. ran \in Seq(T)
  BY <1>2, SeqMonotonic
<1>7. ran' = [ran EXCEPT ![c] = row]
  OBVIOUS
<1> HIDE DEF row
<1>8. /\ DOMAIN ran' = DOMAIN ran /\ ran'[c] = row
      /\ \A k \in DOMAIN ran : k # c => ran'[k] = ran[k]
  BY <1>7
<1>9. ran' \in Seq(T)
  <2>1. c \in 1..Len(ran)
    BY <1>6
  <2> QED
    BY <1>4, <1>6, <1>7, <2>1, ExceptSeq
<1>10. IsCycles(ran')
  BY <1>9 DEF T, IsCycles
<1> QED
  BY <1>5, <1>8, <1>10

-----------------------------------------------------------------------------
\* A loop makes a change of its row together with one of its cycles: the row then names the cycle the
\* loop is at, or none.  In both control planes; in PostgreSQL the call is left to be made.
LEMMA TogetherKeeps ==
  ASSUME IInv, NEW l \in LaneNames, loop[l] # Off, Free(l), UNCHANGED <<plane, crew, halt>>,
         NEW at \in Ats \ {"off"}, NEW d \in Nat, loop' = [loop EXCEPT ![l] = [at |-> at, cycle |-> d]],
         IsCycles(ran'), DOMAIN ran \subseteq DOMAIN ran',
         \A k \in DOMAIN ran : /\ ran'[k].lane = ran[k].lane
                               /\ ran[k].lane # l => ran'[k] = ran[k],
         \A k \in DOMAIN ran' : k \notin DOMAIN ran => ran'[k].lane = l,
         NEW change, DOMAIN change \subseteq Columns, Together(l, change),
         at # "work" => Quiet(change),
         at = "work" => /\ d # NoCycle /\ d \in LatestOf(Key(l))' /\ ran'[d].lane = l
                        /\ ran'[d].status = "running"
                        /\ \/ change = Opening(d) /\ ran'[d].phase = "starting"
                           \/ /\ DOMAIN change = {"phase"} /\ ran'[d].phase = change.phase
                              /\ loop[l].at = "work" /\ loop[l].cycle = d
  PROVE  IInv'
<1>1. /\ Shapes /\ Alone /\ plane \in {"sqlite", "postgres"} /\ LaneNames \subseteq Actors
      /\ \A k : Key(k)' = Key(k)
  BY ActorFacts DEF IInv, Shapes, Key
<1>2. /\ loop' \in [LaneNames -> [at : Ats, cycle : Nat]]
      /\ loop'[l].at = at /\ loop'[l].cycle = d /\ loop'[l].at # "off" /\ loop'[l] # Off
      /\ \A m \in LaneNames : m # l => loop'[m] = loop[m]
  BY <1>1 DEF Shapes, Off
<1>3. Alone'
  BY <1>1, <1>2 DEF Alone
<1>4. /\ \A m \in LaneNames : /\ loop'[m].at = "off" => loop'[m] = Off
                              /\ loop'[m] # Off => m \in crew'
      /\ halt' \in {"no", "stop", "ctrl-c"} /\ torn \subseteq LaneNames /\ torn' \subseteq LaneNames
      /\ torn \subseteq torn' \cup {l} /\ (l \in torn => l \in torn' \/ "active" \in DOMAIN change)
  BY <1>1, <1>2 DEF Shapes, Together
<1>5. loop[l].at = "work" /\ Sound(Key(l)) => Engaged(Row(l), loop[l].cycle)
  BY DEF IInv, WorkSound
<1>6. CASE plane = "sqlite"
  <2>1. /\ Upsert(l, Over(change, Row(l))) /\ call' = call
        /\ torn' = IF "active" \in DOMAIN change THEN torn \ {l} ELSE torn
    BY <1>6 DEF Together
  <2>2. DOMAIN Row(l) = Columns
    BY <1>1, RowShape
  <2>3. DOMAIN Over(change, Row(l)) = Columns
    BY <2>2, OverFacts
  <2>4. Key(l) = l /\ Key(l)' = l /\ \A m : Key(m) = m
    BY <1>1, <1>6, KeyFacts
  <2>5. /\ DOMAIN lanes' = DOMAIN lanes \cup {l}
        /\ lanes'[l] = Over(change, Row(l))
        /\ \A k \in DOMAIN lanes : k # l => lanes'[k] = lanes[k]
        /\ \A m : Row(m)' = IF m = l THEN Over(change, Row(l)) ELSE Row(m)
        /\ DOMAIN lanes' \subseteq (IF plane' = "postgres" THEN {Default} ELSE LaneNames)
        /\ \A k \in DOMAIN lanes' : DOMAIN lanes'[k] = Columns
        /\ SingletonFollows'
    BY <2>1, <2>3, <2>4, UpsertFacts
  <2>6. Shapes'
    BY <1>1, <1>2, <1>4, <2>5 DEF Shapes
  <2>7. CallsSound'
    BY <1>2, <2>1, CallsStay
  <2>8. /\ \A m \in LaneNames : m # l /\ loop'[m].at = "work" =>
              LET c == loop'[m].cycle IN
              /\ c \in LatestOf(Key(m))' /\ ran'[c].lane = m /\ ran'[c].status = "running"
              /\ Sound(Key(m))' => Engaged(Row(m)', c)
        /\ \A k \in DOMAIN lanes' : k # l /\ Sound(k)' => Honest(lanes[k], k)'
    BY <1>2, <1>4, <1>6, <2>5, OtherLanes
  <2>9. at = "work" /\ l \notin torn' => Engaged(Over(change, Row(l)), d)
    <3> SUFFICES ASSUME at = "work", l \notin torn' PROVE Engaged(Over(change, Row(l)), d)
      OBVIOUS
    <3>1. CASE change = Opening(d)
      <4>1. /\ DOMAIN change = Columns /\ change.status = "running"
            /\ change.active = d /\ change.latest = d
        BY <3>1 DEF Opening, Columns
      <4> QED
        BY <2>2, <4>1, OverFacts DEF Engaged, Columns
    <3>2. CASE DOMAIN change = {"phase"} /\ loop[l].at = "work" /\ loop[l].cycle = d
      <4>1. Sound(Key(l))
        BY <1>6, <2>1, <2>4, <3>2 DEF Sound
      <4>2. Engaged(Row(l), d)
        BY <1>5, <3>2, <4>1
      <4> QED
        BY <2>2, <3>2, <4>2, OverFacts DEF Engaged
    <3> QED
      BY <3>1, <3>2
  <2>10. at = "work" => Over(change, Row(l)).phase = ran'[d].phase
    <3>1. CASE at = "work" /\ change = Opening(d) /\ ran'[d].phase = "starting"
      <4>1. "phase" \in DOMAIN change /\ change.phase = "starting"
        BY <3>1 DEF Opening
      <4> QED
        BY <2>2, <3>1, <4>1, OverFacts
    <3>2. CASE at = "work" /\ DOMAIN change = {"phase"} /\ ran'[d].phase = change.phase
      BY <2>2, <3>2, OverFacts
    <3> QED
      BY <3>1, <3>2
  <2>11. WorkSound'
    <3>1. loop'[l].at = "work" =>
              LET c == loop'[l].cycle IN
              /\ c \in LatestOf(Key(l))' /\ ran'[c].lane = l /\ ran'[c].status = "running"
              /\ Sound(Key(l))' => Engaged(Row(l)', c)
      <4>1. Sound(Key(l))' => l \notin torn'
        BY <2>4 DEF Sound, Key
      <4> QED
        BY <1>2, <2>5, <2>9, <4>1
    <3> QED
      BY <2>8, <3>1 DEF WorkSound, Engaged
  <2>12. Sound(l)' => Honest(lanes[l], l)'
    <3>1. CASE at = "work"
      <4>1. Sound(l)' => Engaged(lanes'[l], d)
        BY <2>5, <2>9, <3>1 DEF Sound
      <4>2. d \in LatestOf(l)'
        BY <2>4, <3>1 DEF LatestOf, Key
      <4> QED
        BY <2>5, <2>10, <3>1, <4>1, <4>2 DEF Engaged, Honest, NoCycle
    <3>2. CASE at # "work"
      <4>1. Over(change, Row(l)).active = NoCycle /\ Over(change, Row(l)).status # "running"
        BY <2>2, <3>2, OverFacts DEF Quiet
      <4> QED
        BY <2>5, <4>1 DEF Honest
    <3> QED
      BY <3>1, <3>2
  <2>13. RowsHonest'
    BY <2>5, <2>8, <2>12 DEF RowsHonest
  <2> QED
    BY <1>3, <2>5, <2>6, <2>7, <2>11, <2>13 DEF IInv
<1>7. CASE plane = "postgres"
  <2>1. Calls(l, l, change) /\ UNCHANGED <<lanes, singleton, torn>>
    BY <1>7 DEF Together
  <2>2. (\A m : Key(m) = Default) /\ \A m : Key(m)' = Default
    BY <1>7 DEF Key
  <2>3. Shapes'
    BY <1>1, <1>2, <1>4, <2>1 DEF Shapes
  <2>4. at = "work" /\ DOMAIN change = {"phase"} => (Default \notin torn' => Engaged(Row(Default), d)')
    <3> SUFFICES ASSUME at = "work", DOMAIN change = {"phase"}, Default \notin torn
                 PROVE  Engaged(Row(Default), d)'
      BY <2>1
    <3>1. change # Opening(d)
      BY DEF Opening
    <3>2. loop[l].at = "work" /\ loop[l].cycle = d
      BY <3>1
    <3>3. Sound(Default)
      BY <1>7, OtherLanesOff DEF Sound, Free
    <3>4. Engaged(Row(l), d) /\ Row(l) = Row(Default) /\ Row(Default)' = Row(Default)
      BY <1>5, <2>1, <2>2, <3>2, <3>3 DEF Row
    <3> QED
      BY <3>4 DEF Engaged
  <2>5. call'[l].stage = "asked" /\ call'[l].change = change
    <3>1. call'[l] = [stage |-> "asked", lane |-> Key(l), change |-> change]
      BY <2>1, LaneCalls
    <3> QED
      BY <3>1
  <2>6. Pending(l)'
    <3>1. CASE at # "work"
      BY <1>2, <2>5, <3>1 DEF Pending, Quiet
    <3>2. CASE at = "work" /\ change = Opening(d) /\ ran'[d].phase = "starting"
      BY <1>2, <1>7, <2>5, <3>2 DEF Pending, Opening
    <3>3. CASE at = "work" /\ DOMAIN change = {"phase"} /\ ran'[d].phase = change.phase
      BY <1>2, <1>7, <2>4, <2>5, <3>3 DEF Pending, Engaged
    <3> QED
      BY <3>1, <3>2, <3>3
  <2>7. CallsSound' /\ call'[l] # NoCall
    BY <1>2, <1>7, <2>1, <2>6, CallsOfPostgres
  <2>8. ~Sound(Default)'
    BY <1>7, <2>2, <2>7 DEF Sound, Free, Key
  <2>9. WorkSound'
    <3> SUFFICES ASSUME NEW m \in LaneNames, loop'[m].at = "work"
                 PROVE  LET c == loop'[m].cycle IN
                        /\ c \in LatestOf(Key(m))' /\ ran'[c].lane = m /\ ran'[c].status = "running"
                        /\ Sound(Key(m))' => Engaged(Row(m)', c)
      BY DEF WorkSound, Engaged
    <3>1. m = l
      BY <1>2, <1>7, OtherLanesOff
    <3>2. ~Sound(Key(m))'
      BY <2>8, <1>7 DEF Key, Sound, Free
    <3> QED
      BY <1>2, <3>1, <3>2
  <2>10. RowsHonest'
    BY <1>1, <1>7, <2>1, <2>8 DEF Shapes, RowsHonest
  <2>11. SingletonFollows'
    BY <1>7 DEF SingletonFollows
  <2> QED
    BY <1>3, <2>3, <2>7, <2>9, <2>10, <2>11 DEF IInv
<1> QED
  BY <1>1, <1>6, <1>7

\* Where a loop at work stands.
LEMMA AtWork ==
  ASSUME IInv, NEW l \in LaneNames, loop[l].at = "work"
  PROVE  /\ loop[l] # Off /\ loop[l] = [at |-> "work", cycle |-> loop[l].cycle]
         /\ IsCycles(ran) /\ plane \in {"sqlite", "postgres"}
         /\ loop[l].cycle \in DOMAIN ran /\ loop[l].cycle \in Nat /\ loop[l].cycle # NoCycle
         /\ loop[l].cycle \in LatestOf(Key(l))
         /\ ran[loop[l].cycle].lane = l /\ ran[loop[l].cycle].status = "running"
         /\ Sound(Key(l)) => Engaged(Row(l), loop[l].cycle)
<1>1. /\ loop[l].cycle \in LatestOf(Key(l))
      /\ ran[loop[l].cycle].lane = l /\ ran[loop[l].cycle].status = "running"
      /\ Sound(Key(l)) => Engaged(Row(l), loop[l].cycle)
  BY DEF IInv, WorkSound
<1>2. loop[l].cycle \in DOMAIN ran
  BY <1>1 DEF LatestOf
<1>3. IsCycles(ran) /\ plane \in {"sqlite", "postgres"}
  BY DEF IInv, Shapes
<1>4. DOMAIN ran \subseteq Nat \ {0}
  BY <1>3 DEF IsCycles
<1>5. loop[l] # Off /\ loop[l] = [at |-> "work", cycle |-> loop[l].cycle]
  BY DEF IInv, Shapes, Off
<1> QED
  BY <1>1, <1>2, <1>3, <1>4, <1>5 DEF NoCycle

\* A cycle is a record of its three columns.
LEMMA CycleShape ==
  ASSUME IsCycles(ran), NEW c \in DOMAIN ran
  PROVE  ran[c] = [lane |-> ran[c].lane, status |-> ran[c].status, phase |-> ran[c].phase]
<1>1. PICK S, P : ran \in Seq([lane : LaneNames, status : S, phase : P])
  BY DEF IsCycles
<1> DEFINE R == [lane : LaneNames, status : S, phase : P]
<1>2. ran[c] \in R
  <2> HIDE DEF R
  <2>1. ran \in Seq(R)
    BY <1>1 DEF R
  <2> QED
    BY <2>1
<1> QED
  BY <1>2

\* A cycle is opened.
LEMMA StartKeeps ==
  ASSUME IInv, NEW l \in LaneNames, StartCycle(l)
  PROVE  IInv'
<1> DEFINE d == Len(ran) + 1
<1>1. /\ loop[l].at = "start" /\ Free(l) /\ UNCHANGED <<plane, crew, halt>>
      /\ ran' = Append(ran, [lane |-> l, status |-> "running", phase |-> "starting"])
      /\ loop' = [loop EXCEPT ![l] = [at |-> "work", cycle |-> d]]
      /\ Together(l, Opening(d))
  BY DEF StartCycle
<1>2. loop[l] # Off /\ IsCycles(ran)
  BY <1>1 DEF IInv, Shapes, Off
<1>3. /\ IsCycles(ran') /\ d \in Nat /\ d # 0
      /\ DOMAIN ran' = DOMAIN ran \cup {d} /\ d \notin DOMAIN ran
      /\ \A k \in DOMAIN ran : ran'[k] = ran[k]
      /\ ran'[d] = [lane |-> l, status |-> "running", phase |-> "starting"]
      /\ d \in LatestOf(Key(l))'
  BY <1>1, <1>2, CycleAdded
<1> HIDE DEF d
<1>4. ran'[d].lane = l /\ ran'[d].status = "running" /\ ran'[d].phase = "starting"
  BY <1>3
<1>5. DOMAIN Opening(d) \subseteq Columns
  BY DEF Opening, Columns
<1>6. "work" \in Ats \ {"off"}
  BY DEF Ats
<1>7. d # NoCycle
  BY <1>3 DEF NoCycle
<1>8. \A k \in DOMAIN ran' : k \notin DOMAIN ran => ran'[k].lane = l
  BY <1>3, <1>4
<1>9. \A k \in DOMAIN ran : /\ ran'[k].lane = ran[k].lane
                            /\ ran[k].lane # l => ran'[k] = ran[k]
  BY <1>3
<1> QED
  BY <1>1, <1>2, <1>3, <1>4, <1>5, <1>6, <1>7, <1>8, <1>9, TogetherKeeps

\* Cycle c of lane l gets a status and a phase.
CycleSet(c, l, status, phase) ==
  ran' = [ran EXCEPT ![c] = [lane |-> l, status |-> status, phase |-> phase]]

\* What a change of its cycle says of a loop at work.
LEMMA WorkChanges ==
  ASSUME IInv, NEW l \in LaneNames, loop[l].at = "work", plane' = plane, NEW status, NEW phase,
         CycleSet(loop[l].cycle, l, status, phase)
  PROVE  /\ IsCycles(ran') /\ DOMAIN ran' = DOMAIN ran
         /\ ran'[loop[l].cycle].lane = l /\ ran'[loop[l].cycle].status = status
         /\ ran'[loop[l].cycle].phase = phase
         /\ \A k \in DOMAIN ran : /\ ran'[k].lane = ran[k].lane
                                  /\ ran[k].lane # l => ran'[k] = ran[k]
         /\ loop[l].cycle \in LatestOf(Key(l))'
<1> DEFINE c == loop[l].cycle
<1>1. IsCycles(ran) /\ c \in DOMAIN ran /\ ran[c].lane = l
  BY AtWork
<1>2. /\ IsCycles(ran') /\ DOMAIN ran' = DOMAIN ran
      /\ ran'[c].lane = ran[c].lane /\ ran'[c].status = status /\ ran'[c].phase = phase
      /\ \A k \in DOMAIN ran : k # c => ran'[k] = ran[k]
  BY <1>1, CycleChanged DEF CycleSet
<1> HIDE DEF c
<1>3. \A k \in DOMAIN ran : /\ ran'[k].lane = ran[k].lane
                            /\ ran[k].lane # l => ran'[k] = ran[k]
  BY <1>1, <1>2
<1>4. c \in LatestOf(Key(l))'
  <2>1. \A k : LatestOf(k)' = LatestOf(k)
    BY <1>2, <1>3, LatestKept
  <2>2. c \in LatestOf(Key(l))
    BY AtWork DEF c
  <2> QED
    BY <2>1, <2>2 DEF LatestOf, Key
<1> QED
  BY <1>1, <1>2, <1>3, <1>4 DEF c

\* A cycle goes on to its next phase.
LEMMA PhaseKeeps ==
  ASSUME IInv, NEW l \in LaneNames, NextPhase(l)
  PROVE  IInv'
<1> DEFINE c == loop[l].cycle
<1>0. PICK next : next = Phases[PhaseNow(l) + 1]
  OBVIOUS
<1>1. /\ loop[l].at = "work" /\ Free(l) /\ UNCHANGED <<plane, crew, loop, halt>>
      /\ ran' = [ran EXCEPT ![c].phase = next]
      /\ IF Row(l).active = c THEN Together(l, [phase |-> next])
         ELSE UNCHANGED <<lanes, singleton, call, torn>>
  BY <1>0 DEF NextPhase
<1>2. /\ loop[l] # Off /\ loop[l] = [at |-> "work", cycle |-> c]
      /\ IsCycles(ran) /\ plane \in {"sqlite", "postgres"}
      /\ c \in DOMAIN ran /\ c \in Nat /\ c # NoCycle
      /\ c \in LatestOf(Key(l)) /\ ran[c].lane = l /\ ran[c].status = "running"
      /\ Sound(Key(l)) => Engaged(Row(l), c)
  BY <1>1, AtWork
<1>3. CycleSet(c, l, "running", next)
  <2>1. ran[c] = [lane |-> l, status |-> "running", phase |-> ran[c].phase]
    BY <1>2, CycleShape
  <2>2. [ran[c] EXCEPT !.phase = next] = [lane |-> l, status |-> "running", phase |-> next]
    BY <2>1
  <2> QED
    BY <1>1, <2>2 DEF CycleSet
<1>4. /\ IsCycles(ran') /\ DOMAIN ran' = DOMAIN ran
      /\ ran'[c].lane = l /\ ran'[c].status = "running" /\ ran'[c].phase = next
      /\ \A k \in DOMAIN ran : /\ ran'[k].lane = ran[k].lane
                               /\ ran[k].lane # l => ran'[k] = ran[k]
      /\ c \in LatestOf(Key(l))'
  <2>1. plane' = plane /\ loop[l].at = "work"
    BY <1>1
  <2>2. IsCycles(ran')
    BY <1>3, <2>1, WorkChanges
  <2>3. DOMAIN ran' = DOMAIN ran
    BY <1>3, <2>1, WorkChanges
  <2>4. ran'[c].lane = l
    BY <1>3, <2>1, WorkChanges
  <2>5. ran'[c].status = "running"
    BY <1>3, <2>1, WorkChanges
  <2>6. ran'[c].phase = next
    BY <1>2, <1>3 DEF CycleSet
  <2>7. \A k \in DOMAIN ran : /\ ran'[k].lane = ran[k].lane
                              /\ ran[k].lane # l => ran'[k] = ran[k]
    BY <1>3, <2>1, WorkChanges
  <2>8. c \in LatestOf(Key(l))'
    BY <1>3, <2>1, WorkChanges
  <2> QED
    BY <2>2, <2>3, <2>4, <2>5, <2>6, <2>7, <2>8
<1>6. CASE Row(l).active = c
  <2> DEFINE change == [phase |-> next]
  <2>1. DOMAIN change = {"phase"} /\ change.phase = next /\ DOMAIN change \subseteq Columns
    BY DEF Columns
  <2>2. Together(l, change)
    BY <1>1, <1>6
  <2>3. loop' = [loop EXCEPT ![l] = [at |-> "work", cycle |-> c]]
    BY <1>1, <1>2 DEF IInv, Shapes
  <2>4. c \in LatestOf(Key(l))'
    BY <1>4
  <2>5. "work" \in Ats \ {"off"}
    BY DEF Ats
  <2>6. loop[l].cycle = c
    OBVIOUS
  <2> HIDE DEF change, c
  <2> QED
    BY <1>1, <1>2, <1>4, <2>1, <2>2, <2>3, <2>4, <2>5, <2>6, TogetherKeeps
<1>7. CASE Row(l).active # c
  <2>1. UNCHANGED <<plane, crew, loop, halt, lanes, singleton, call, torn>>
    BY <1>1, <1>7
  <2>2. ~Sound(Key(l))
    BY <1>2, <1>7 DEF Engaged
  <2>3. \A k : Sound(k)' = Sound(k)
    BY <2>1 DEF Sound, Free, Key
  <2>4. \A m : Row(m)' = Row(m) /\ Key(m)' = Key(m)
    BY <2>1 DEF Row, Key
  <2>5. Shapes' /\ Alone' /\ SingletonFollows'
    BY <1>4, <2>1 DEF IInv, Shapes, Alone, SingletonFollows
  <2>6. CallsSound'
    BY <1>1, <1>2, <2>1, CallsStay
  <2>7. CASE plane = "sqlite"
    <3>1. Key(l) = l
      BY <2>7 DEF Key
    <3>2. \A k \in DOMAIN ran' : k \notin DOMAIN ran => ran'[k].lane = l
      BY <1>4
    <3>3. \A k \in DOMAIN lanes' : k # l => k \in DOMAIN lanes /\ lanes'[k] = lanes[k]
      BY <2>1
    <3>4. /\ \A m \in LaneNames : m # l /\ loop'[m].at = "work" =>
                LET d == loop'[m].cycle IN
                /\ d \in LatestOf(Key(m))' /\ ran'[d].lane = m /\ ran'[d].status = "running"
                /\ Sound(Key(m))' => Engaged(Row(m)', d)
          /\ \A k \in DOMAIN lanes' : k # l /\ Sound(k)' => Honest(lanes[k], k)'
      BY <1>4, <2>1, <2>4, <2>7, <3>2, <3>3, OtherLanes
    <3>5. c \in LatestOf(Key(l))' /\ ~Sound(Key(l))'
      BY <1>4, <2>1, <2>2 DEF Key, Sound, Free
    <3>6. WorkSound'
      BY <1>4, <2>1, <3>4, <3>5 DEF WorkSound, Engaged
    <3>7. RowsHonest'
      BY <2>2, <2>3, <3>1, <3>4 DEF RowsHonest
    <3> QED
      BY <2>5, <2>6, <3>6, <3>7 DEF IInv
  <2>8. CASE plane = "postgres"
    <3>1. (\A m : Key(m) = Default) /\ (\A m : Key(m)' = Default)
      BY <2>1, <2>8 DEF Key
    <3>2. ~Sound(Default)'
      BY <2>2, <2>3, <3>1
    <3>3. WorkSound'
      <4> SUFFICES ASSUME NEW m \in LaneNames, loop'[m].at = "work"
                   PROVE  LET d == loop'[m].cycle IN
                          /\ d \in LatestOf(Key(m))' /\ ran'[d].lane = m /\ ran'[d].status = "running"
                          /\ Sound(Key(m))' => Engaged(Row(m)', d)
        BY DEF WorkSound, Engaged
      <4>1. m = l
        BY <1>2, <2>1, <2>8, OtherLanesOff
      <4>2. c \in LatestOf(Key(l))' /\ ~Sound(Key(l))'
        BY <1>4, <2>1, <2>2 DEF Key, Sound, Free
      <4> QED
        BY <1>4, <2>1, <4>1, <4>2
    <3>4. RowsHonest'
      BY <2>1, <2>8, <3>2 DEF IInv, Shapes, RowsHonest
    <3> QED
      BY <2>5, <2>6, <3>3, <3>4 DEF IInv
  <2> QED
    BY <1>2, <2>7, <2>8
<1> QED
  BY <1>6, <1>7

\* A cycle ends.
LEMMA EndKeeps ==
  ASSUME IInv, NEW l \in LaneNames, loop[l].at = "work", Free(l), NEW status, NEW phase,
         status # "running", EndCycle(l, status, phase)
  PROVE  IInv'
<1> DEFINE c == loop[l].cycle
<1>1. /\ UNCHANGED <<plane, crew, halt>> /\ Together(l, Closing(c, status, phase))
      /\ ran' = [ran EXCEPT ![c] = Over([status |-> status, phase |-> phase], ran[c])]
  BY DEF EndCycle
<1>2. PICK at \in {"stopping", "settle"}, d \in Nat : loop' = [loop EXCEPT ![l] = [at |-> at, cycle |-> d]]
  <2>1. loop[l] = [at |-> "work", cycle |-> c] /\ c \in Nat
    BY AtWork
  <2>2. [loop[l] EXCEPT !.at = "settle"] = [at |-> "settle", cycle |-> c]
    BY <2>1
  <2>3. CASE loop' = [loop EXCEPT ![l].at = "settle"]
    BY <2>1, <2>2, <2>3
  <2>4. CASE loop' = [loop EXCEPT ![l] = [at |-> "stopping", cycle |-> NoCycle]]
    BY <2>4 DEF NoCycle
  <2> QED
    BY <2>3, <2>4 DEF EndCycle, Goes
<1>3. /\ loop[l] # Off /\ IsCycles(ran) /\ c \in DOMAIN ran /\ ran[c].lane = l
  BY AtWork
<1>4. CycleSet(c, l, status, phase)
  <2>1. ran[c] = [lane |-> l, status |-> ran[c].status, phase |-> ran[c].phase]
    BY <1>3, CycleShape
  <2>2. Over([status |-> status, phase |-> phase], ran[c]) = [lane |-> l, status |-> status, phase |-> phase]
    BY <2>1 DEF Over
  <2> QED
    BY <1>1, <2>2 DEF CycleSet
<1>5. /\ IsCycles(ran') /\ DOMAIN ran' = DOMAIN ran
      /\ \A k \in DOMAIN ran : /\ ran'[k].lane = ran[k].lane
                               /\ ran[k].lane # l => ran'[k] = ran[k]
  BY <1>1, <1>4, WorkChanges
<1>6. Quiet(Closing(c, status, phase)) /\ DOMAIN Closing(c, status, phase) \subseteq Columns
  BY QuietChanges
<1>7. at \in Ats \ {"off"} /\ at # "work"
  BY <1>2 DEF Ats
<1> HIDE DEF c
<1>8. \A k \in DOMAIN ran' : k \notin DOMAIN ran => ran'[k].lane = l
  BY <1>5
<1> QED
  BY <1>1, <1>2, <1>3, <1>5, <1>6, <1>7, <1>8, TogetherKeeps

\* The last write of a cycle, from the loop's end or after a failure.
LEMMA CycleOverKeeps ==
  ASSUME IInv, NEW l \in LaneNames, CycleOver(l)
  PROVE  IInv'
<1>1. PICK status \in {"completed", "failed", "interrupted"}, phase \in {"completed", Phases[PhaseNow(l)]} :
        EndCycle(l, status, phase)
  BY DEF CycleOver
<1> QED
  BY <1>1, EndKeeps DEF CycleOver

-----------------------------------------------------------------------------
\* Writing a row: what a loop or a command had called for.

\* A command leaves what a row says of its cycles as it is.
LEMMA CommandHonest ==
  ASSUME NEW row, DOMAIN row = Columns, NEW change \in {PauseOf(row), ResumeOf(row)}
  PROVE  /\ DOMAIN Over(change, row) = Columns
         /\ \A l : Honest(row, l) => Honest(Over(change, row), l)
         /\ \A c : Engaged(row, c) => Engaged(Over(change, row), c)
<1>1. /\ DOMAIN change \subseteq Columns /\ DOMAIN change \cap {"active", "latest"} = {}
      /\ row.status \notin {"scheduled", "paused"} =>
           "status" \notin DOMAIN change /\ "phase" \notin DOMAIN change
      /\ "status" \in DOMAIN change => change.status # "running"
  BY OrderFacts
<1> DEFINE new == Over(change, row)
<1>2. /\ DOMAIN new = Columns /\ new.active = row.active /\ new.latest = row.latest
      /\ new.status = IF "status" \in DOMAIN change THEN change.status ELSE row.status
      /\ new.phase = IF "phase" \in DOMAIN change THEN change.phase ELSE row.phase
  BY <1>1, OverFacts
<1> HIDE DEF new
<1>3. row.status = "running" => new.status = "running" /\ new.phase = row.phase
  BY <1>1, <1>2
<1>4. row.status # "running" => new.status # "running"
  BY <1>1, <1>2
<1>5. \A l : Honest(row, l) => Honest(new, l)
  BY <1>2, <1>3, <1>4 DEF Honest
<1>6. \A c : Engaged(row, c) => Engaged(new, c)
  BY <1>2, <1>3 DEF Engaged
<1> QED
  BY <1>2, <1>5, <1>6 DEF new

\* The row that is there is honest if it is sound, and so is one that is not there.
LEMMA RowHonest ==
  ASSUME IInv, NEW l, Key(l) = l, Sound(l)
  PROVE  Honest(Row(l), l)
<1>1. CASE l \in DOMAIN lanes
  BY <1>1 DEF IInv, RowsHonest, Row
<1>2. CASE l \notin DOMAIN lanes
  BY <1>2 DEF Row, NewRow, Honest, NoCycle
<1> QED
  BY <1>1, <1>2

\* Where a row is written, the others say what they said.
LEMMA RowWritten ==
  ASSUME IInv, UNCHANGED <<plane, ran>>, NEW k \in LaneNames, Key(k) = k,
         NEW row, DOMAIN row = Columns, Upsert(k, row), torn \subseteq torn' \cup {k},
         \A m \in LaneNames : loop'[m].at = "work" => loop'[m] = loop[m],
         \A m \in LaneNames : loop'[m].at = "work" /\ Key(m) = k /\ Sound(k)' =>
           Engaged(row, loop[m].cycle),
         Sound(k)' => Honest(row, k)
  PROVE  /\ WorkSound' /\ RowsHonest' /\ SingletonFollows'
         /\ DOMAIN lanes' \subseteq (IF plane' = "postgres" THEN {Default} ELSE LaneNames)
         /\ \A j \in DOMAIN lanes' : DOMAIN lanes'[j] = Columns
         /\ \A m : Row(m)' = IF Key(m) = k THEN row ELSE Row(m)
<1>1. /\ DOMAIN lanes' = DOMAIN lanes \cup {k} /\ lanes'[k] = row
      /\ \A j \in DOMAIN lanes : j # k => lanes'[j] = lanes[j]
      /\ \A m : Row(m)' = IF Key(m) = k THEN row ELSE Row(m)
      /\ DOMAIN lanes' \subseteq (IF plane' = "postgres" THEN {Default} ELSE LaneNames)
      /\ \A j \in DOMAIN lanes' : DOMAIN lanes'[j] = Columns
      /\ SingletonFollows'
  BY UpsertFacts
<1>2. plane \in {"sqlite", "postgres"} /\ \A m : Key(m)' = Key(m)
  BY DEF IInv, Shapes, Key
<1>3. \A l : LatestOf(l)' = LatestOf(l)
  BY LatestKept
<1>4. plane = "postgres" => k = Default /\ \A m : Key(m) = Default
  BY KeyFacts DEF Key
<1>5. \A j : plane = "sqlite" /\ j # k /\ Sound(j)' => Sound(j)
  BY DEF Sound
<1>6. WorkSound'
  <2> SUFFICES ASSUME NEW m \in LaneNames, loop'[m].at = "work"
               PROVE  LET c == loop'[m].cycle IN
                      /\ c \in LatestOf(Key(m))' /\ ran'[c].lane = m /\ ran'[c].status = "running"
                      /\ Sound(Key(m))' => Engaged(Row(m)', c)
    BY DEF WorkSound, Engaged
  <2>1. /\ loop'[m] = loop[m]
        /\ loop[m].cycle \in LatestOf(Key(m)) /\ ran[loop[m].cycle].lane = m
        /\ ran[loop[m].cycle].status = "running"
        /\ Sound(Key(m)) => Engaged(Row(m), loop[m].cycle)
    BY DEF IInv, WorkSound
  <2>2. LatestOf(Key(m))' = LatestOf(Key(m))
    BY <1>2, <1>3 DEF LatestOf, Key
  <2>3. CASE Key(m) = k
    <3>1. Sound(Key(m))' => Sound(k)'
      BY <1>2, <2>3 DEF Sound, Key, Free
    <3> QED
      BY <1>1, <2>1, <2>2, <2>3, <3>1
  <2>4. CASE Key(m) # k
    <3>1. plane = "sqlite"
      BY <1>2, <1>4, <2>4
    <3>2. Sound(Key(m))' => Sound(Key(m))
      BY <2>4, <3>1 DEF Sound, Key
    <3> QED
      BY <1>1, <2>1, <2>2, <2>4, <3>2
  <2> QED
    BY <2>3, <2>4
<1>7. RowsHonest'
  <2> SUFFICES ASSUME NEW j \in DOMAIN lanes', Sound(j)'
               PROVE  Honest(lanes[j], j)'
    BY DEF RowsHonest
  <2>1. CASE j = k
    <3>1. lanes'[j] = row /\ Honest(row, j)
      BY <1>1, <2>1
    <3> QED
      BY <1>3, <3>1 DEF Honest
  <2>2. CASE j # k
    <3>1. plane = "sqlite"
      BY <1>1, <1>2, <1>4, <2>2
    <3>2. Sound(j)
      BY <1>5, <2>2, <3>1
    <3>3. Honest(lanes[j], j) /\ lanes'[j] = lanes[j]
      BY <1>1, <2>2, <3>2 DEF IInv, RowsHonest
    <3> QED
      BY <1>3, <3>3 DEF Honest
  <2> QED
    BY <2>1, <2>2
<1> QED
  BY <1>1, <1>6, <1>7

\* Loops that end, or stay as they are.
LEMMA LoopsEnd ==
  ASSUME IInv, NEW gone, gone \subseteq LaneNames, torn' \subseteq LaneNames, UNCHANGED <<plane, ran>>,
         Ends(gone, halt) \/ UNCHANGED <<loop, crew, halt>>,
         DOMAIN lanes' \subseteq (IF plane' = "postgres" THEN {Default} ELSE LaneNames),
         \A k \in DOMAIN lanes' : DOMAIN lanes'[k] = Columns
  PROVE  /\ Shapes' /\ Alone'
         /\ \A m \in LaneNames : m \notin gone => loop'[m] = loop[m]
         /\ \A m \in LaneNames : loop'[m].at = "work" => loop'[m] = loop[m]
<1>1. Off \in [at : Ats, cycle : Nat] /\ Off.at = "off"
  BY DEF Off, Ats, NoCycle
<1>2. /\ loop \in [LaneNames -> [at : Ats, cycle : Nat]] /\ halt \in {"no", "stop", "ctrl-c"}
      /\ \A l \in LaneNames : loop[l].at = "off" => loop[l] = Off
      /\ \A l \in LaneNames : loop[l] # Off => l \in crew
  BY DEF IInv, Shapes
<1>3. CASE UNCHANGED <<loop, crew, halt>>
  BY <1>3 DEF IInv, Shapes, Alone
<1>4. CASE Ends(gone, halt)
  <2>1. /\ loop' = [l \in LaneNames |-> IF l \in gone THEN Off ELSE loop[l]]
        /\ crew' = IF \A l \in LaneNames \ gone : loop[l] = Off THEN {} ELSE crew
        /\ halt' \in {"no", "stop", "ctrl-c"}
    BY <1>2, <1>4 DEF Ends
  <2>2. /\ loop' \in [LaneNames -> [at : Ats, cycle : Nat]]
        /\ \A m \in LaneNames : /\ loop'[m].at = "off" => loop'[m] = Off
                                /\ loop'[m] # Off => loop[m] # Off /\ m \in crew'
        /\ \A m \in LaneNames : m \notin gone => loop'[m] = loop[m]
        /\ \A m \in LaneNames : loop'[m].at = "work" => loop'[m] = loop[m]
    BY <1>1, <1>2, <2>1
  <2>3. Shapes'
    BY <2>1, <2>2 DEF IInv, Shapes
  <2>4. Alone'
    BY <2>2 DEF IInv, Alone
  <2> QED
    BY <2>2, <2>3, <2>4
<1> QED
  BY <1>3, <1>4

\* A command's row is written.
LEMMA CommandWritten ==
  ASSUME IInv, WriteRow("operator")
  PROVE  IInv'
<1> DEFINE w == call["operator"]
           row == Over(w.change, w.base)
<1>1. /\ w.stage = "loaded" /\ Upsert(w.lane, row) /\ UNCHANGED <<plane, ran>>
      /\ torn' = IF Overtaken("operator") THEN torn \cup {w.lane} ELSE torn
      /\ call' = [call EXCEPT !["operator"] = NoCall]
      /\ UNCHANGED <<loop, crew, halt>>
  BY ActorFacts DEF WriteRow, Reread
<1>2. w # NoCall
  BY <1>1 DEF NoCall
<1>3. /\ w.lane = Default /\ DOMAIN w.base = Columns /\ DOMAIN w.change \subseteq Columns
      /\ CallsSound /\ call = [a \in Actors |-> call[a]]
  BY <1>1, <1>2, ActorFacts DEF IInv, CallsSound
<1>4. DOMAIN row = Columns
  BY <1>3, OverFacts
<1>5. Key(Default) = Default /\ Default \in LaneNames /\ plane \in {"sqlite", "postgres"}
      /\ torn' \subseteq LaneNames
  BY <1>1, <1>3, KeyFacts, ActorFacts DEF IInv, Shapes
<1>6. call' = [a \in Actors |-> call'[a]] /\ call'["operator"] = NoCall
      /\ \A l \in LaneNames : call'[l] = call[l]
  BY <1>1, <1>3, ActorFacts
<1>7. Default \notin torn' => /\ w.base = Row(Default) /\ Default \notin torn
                              /\ w.change \in {PauseOf(Row(Default)), ResumeOf(Row(Default))}
  BY <1>1, <1>3 DEF Overtaken
<1>8. Sound(Default)' => Sound(Default)
  BY <1>1, <1>6, <1>7 DEF Sound, Free, Key
<1> HIDE DEF w
<1>9. Default \notin torn' => /\ \A l : Honest(Row(Default), l) => Honest(row, l)
                              /\ \A c : Engaged(Row(Default), c) => Engaged(row, c)
  BY <1>3, <1>7, CommandHonest
<1>10. Sound(Default)' => Default \notin torn'
  BY DEF Sound
<1>11. Sound(Default)' => Honest(row, Default)
  BY <1>5, <1>8, <1>9, <1>10, RowHonest
<1>12. \A m \in LaneNames : loop'[m].at = "work" /\ Key(m) = Default /\ Sound(Default)' =>
         Engaged(row, loop[m].cycle)
  <2> SUFFICES ASSUME NEW m \in LaneNames, loop[m].at = "work", Key(m) = Default, Sound(Default)'
               PROVE  Engaged(row, loop[m].cycle)
    BY <1>1
  <2>1. Row(m) = Row(Default)
    BY <1>5 DEF Row
  <2> QED
    BY <1>8, <1>9, <1>10, <2>1 DEF IInv, WorkSound
<1> HIDE DEF row
<1>13. torn \subseteq torn' \cup {Default}
  BY <1>1
<1>14. /\ WorkSound' /\ RowsHonest' /\ SingletonFollows'
       /\ DOMAIN lanes' \subseteq (IF plane' = "postgres" THEN {Default} ELSE LaneNames)
       /\ \A k \in DOMAIN lanes' : DOMAIN lanes'[k] = Columns
       /\ \A m : Row(m)' = IF Key(m) = Default THEN row ELSE Row(m)
  BY <1>1, <1>3, <1>4, <1>5, <1>11, <1>12, <1>13, RowWritten
<1>15. Shapes' /\ Alone'
  BY <1>1, <1>5, <1>14, LoopsEnd
<1>16. CallsSound'
  <2>1. \A l : Key(l)' = Key(l)
    BY <1>1 DEF Key
  <2>2. ASSUME NEW l \in LaneNames, call[l] # NoCall, Pending(l)
        PROVE  Pending(l)'
    <3>1. loop'[l] = loop[l] /\ call'[l] = call[l] /\ ran' = ran /\ plane' = plane
      BY <1>1, <1>6
    <3>2. Default \notin torn' =>
            Default \notin torn /\ \A c : Engaged(Row(Default), c) => Engaged(Row(Default)', c)
      BY <1>5, <1>7, <1>9, <1>14
    <3> QED
      BY <2>2, <3>1, <3>2 DEF Pending, Engaged
  <2>3. ASSUME NEW a \in Actors, call'[a] # NoCall
        PROVE  /\ call'[a].stage \in {"asked", "loaded"}
               /\ call'[a].stage = "loaded" => Reread(a)' /\ DOMAIN call'[a].base = Columns
               /\ call'[a].lane = IF a = "operator" THEN Default ELSE Key(a)'
               /\ DOMAIN call'[a].change \subseteq Columns
    <3>1. a \in LaneNames /\ call'[a] = call[a]
      BY <1>6, <2>3 DEF Actors
    <3> QED
      BY <1>1, <1>3, <2>1, <2>3, <3>1 DEF CallsSound, Reread
  <2>4. \A l \in LaneNames : call'[l] # NoCall => loop'[l] # Off /\ Pending(l)'
    BY <1>1, <1>3, <1>6, <2>2 DEF CallsSound
  <2> QED
    BY <1>6, <2>3, <2>4 DEF CallsSound
<1> QED
  BY <1>14, <1>15, <1>16 DEF IInv

\* A loop's own row is written.
LEMMA LoopWritten ==
  ASSUME IInv, NEW a \in LaneNames, WriteRow(a)
  PROVE  IInv'
<1> DEFINE w == call[a]
           base == IF plane = "postgres" THEN w.base ELSE Row(a)
           row == Over(w.change, base)
           c == loop[a].cycle
<1>0. a # "operator" /\ a \in Actors /\ CallsSound /\ call = [x \in Actors |-> call[x]]
      /\ plane \in {"sqlite", "postgres"} /\ LaneNames \subseteq Actors /\ "operator" \in Actors
  BY ActorFacts DEF IInv, CallsSound, Shapes
<1>1. /\ w.stage \in {"asked", "loaded"} /\ (plane = "postgres" => w.stage = "loaded")
      /\ Upsert(w.lane, row) /\ UNCHANGED <<plane, ran>>
      /\ torn' = IF "active" \in DOMAIN w.change THEN torn \ {w.lane} ELSE torn
      /\ call' = [call EXCEPT ![a] = NoCall]
      /\ Ends({a}, halt) \/ UNCHANGED <<loop, crew, halt>>
      /\ loop[a].at = "ending" \/ UNCHANGED loop
  BY <1>0 DEF WriteRow, Reread, Overtaken
<1>2. w # NoCall
  BY <1>1 DEF NoCall
<1>3. /\ w.lane = Key(a) /\ DOMAIN w.change \subseteq Columns
      /\ w.stage = "loaded" => DOMAIN w.base = Columns
      /\ loop[a] # Off /\ Pending(a)
  BY <1>0, <1>2 DEF CallsSound
<1>4. DOMAIN base = Columns
  BY <1>0, <1>1, <1>3, RowShape DEF IInv
<1> HIDE DEF base
<1>5. DOMAIN row = Columns
  BY <1>3, <1>4, OverFacts
<1>6. /\ Key(a) \in LaneNames /\ Key(Key(a)) = Key(a) /\ (plane = "sqlite" => \A m : Key(m) = m)
      /\ plane = "postgres" => \A m : Key(m) = Default
  BY <1>0, KeyFacts
<1>7. torn' \subseteq LaneNames /\ torn \subseteq torn' \cup {Key(a)}
  BY <1>1, <1>3 DEF IInv, Shapes
<1>8. /\ call' = [x \in Actors |-> call'[x]] /\ call'[a] = NoCall
      /\ \A x \in Actors : x # a => call'[x] = call[x]
      /\ call'["operator"] = call["operator"]
  BY <1>0, <1>1
<1>9. \/ Quiet(w.change) /\ loop[a].at # "work"
      \/ /\ plane = "postgres" /\ loop[a].at = "work" /\ loop' = loop
         /\ \/ w.change = Opening(c) /\ ran[c].phase = "starting"
            \/ /\ DOMAIN w.change = {"phase"} /\ ran[c].phase = w.change.phase
               /\ Default \notin torn => Engaged(base, c)
  BY <1>1, <1>3 DEF Pending, base
<1>10. /\ \A m \in LaneNames : m # a => loop'[m] = loop[m]
       /\ \A m \in LaneNames : loop'[m].at = "work" => loop'[m] = loop[m]
  BY <1>1 DEF Ends, Off
<1>11. \A m \in LaneNames : m # a /\ Key(m) = Key(a) => loop[m].at # "work"
  BY <1>0, <1>3, <1>6, OtherLanesOff
<1>12. PICK k \in LaneNames : k = Key(a)
  BY <1>6
<1>13. Key(k) = k /\ w.lane = k /\ torn \subseteq torn' \cup {k} /\ (plane = "postgres" => k = Default)
  BY <1>3, <1>6, <1>7, <1>12
<1>14. Sound(k)' => k \notin torn'
  BY DEF Sound
<1>15. ASSUME loop[a].at = "work", Sound(k)'
       PROVE  Engaged(row, c) /\ row.phase = ran[c].phase
  <2>1. plane = "postgres" /\ k \notin torn' /\ k = Default
    BY <1>9, <1>13, <1>14, <1>15 DEF Quiet
  <2>2. CASE w.change = Opening(c) /\ ran[c].phase = "starting"
    <3>1. /\ {"status", "phase", "active", "latest"} \subseteq DOMAIN w.change
          /\ w.change.status = "running" /\ w.change.active = c /\ w.change.latest = c
          /\ w.change.phase = "starting"
      BY <2>2 DEF Opening
    <3> HIDE DEF w
    <3> QED
      BY <1>3, <1>4, <2>2, <3>1, OverFacts DEF Engaged
  <2>3. CASE /\ DOMAIN w.change = {"phase"} /\ ran[c].phase = w.change.phase
             /\ Default \notin torn => Engaged(base, c)
    <3>1. torn' = torn
      BY <1>1, <2>3
    <3>2. Engaged(base, c)
      BY <2>1, <2>3, <3>1
    <3> HIDE DEF w
    <3> QED
      BY <1>3, <1>4, <2>3, <3>2, OverFacts DEF Engaged
  <2> QED
    BY <1>9, <1>15, <2>2, <2>3
<1>16. \A m \in LaneNames : loop'[m].at = "work" /\ Key(m) = k /\ Sound(k)' =>
         Engaged(row, loop[m].cycle)
  <2> SUFFICES ASSUME NEW m \in LaneNames, loop'[m].at = "work", Key(m) = k, Sound(k)'
               PROVE  Engaged(row, loop[m].cycle)
    OBVIOUS
  <2>1. m = a /\ loop[a].at = "work"
    BY <1>10, <1>11, <1>12
  <2> QED
    BY <1>15, <2>1
<1>17. Sound(k)' => Honest(row, k)
  <2>1. CASE loop[a].at # "work"
    <3>1. Quiet(w.change)
      BY <1>9, <2>1
    <3> HIDE DEF w
    <3>2. row.active = NoCycle /\ row.status # "running"
      BY <1>3, <1>4, <3>1, OverFacts DEF Quiet
    <3> QED
      BY <3>2 DEF Honest
  <2>2. CASE loop[a].at = "work"
    <3>1. c \in LatestOf(k) /\ c # NoCycle /\ ran[c].status = "running"
      BY <1>12, <2>2, AtWork
    <3> HIDE DEF row, c
    <3> QED
      BY <1>15, <2>2, <3>1 DEF Engaged, Honest
  <2> QED
    BY <2>1, <2>2
<1>18. Upsert(k, row)
  BY <1>1, <1>13
<1> HIDE DEF row, w
<1>19. /\ WorkSound' /\ RowsHonest' /\ SingletonFollows'
       /\ DOMAIN lanes' \subseteq (IF plane' = "postgres" THEN {Default} ELSE LaneNames)
       /\ \A j \in DOMAIN lanes' : DOMAIN lanes'[j] = Columns
  BY <1>1, <1>5, <1>10, <1>13, <1>16, <1>17, <1>18, RowWritten
<1>20. Shapes' /\ Alone'
  BY <1>1, <1>7, <1>19, LoopsEnd
<1>21. CallsSound'
  <2>1. \A l : Key(l)' = Key(l)
    BY <1>1 DEF Key
  <2>2. ASSUME NEW m \in LaneNames, call'[m] # NoCall
        PROVE  loop'[m] # Off /\ Pending(m)'
    <3>1. m # a /\ call'[m] = call[m] /\ loop'[m] = loop[m]
      BY <1>0, <1>8, <1>10, <2>2
    <3>2. plane = "sqlite"
      BY <1>0, <1>3, <2>2, <3>1, OtherLanesOff
    <3>3. loop[m] # Off /\ Pending(m)
      BY <1>0, <2>2, <3>1 DEF CallsSound
    <3> QED
      BY <3>1, <3>2, <3>3 DEF Pending
  <2>3. ASSUME NEW x \in Actors, call'[x] # NoCall
        PROVE  /\ call'[x].stage \in {"asked", "loaded"}
               /\ call'[x].stage = "loaded" => Reread(x)' /\ DOMAIN call'[x].base = Columns
               /\ call'[x].lane = IF x = "operator" THEN Default ELSE Key(x)'
               /\ DOMAIN call'[x].change \subseteq Columns
    <3>1. call'[x] = call[x]
      BY <1>8, <2>3
    <3> QED
      BY <1>0, <1>1, <2>1, <2>3, <3>1 DEF CallsSound, Reread
  <2>4. call'["operator"] # NoCall => DOMAIN call'["operator"].change \cap {"active", "latest"} = {}
    BY <1>0, <1>8 DEF CallsSound
  <2> QED
    BY <1>8, <2>2, <2>3, <2>4 DEF CallsSound
<1> QED
  BY <1>19, <1>20, <1>21 DEF IInv

-----------------------------------------------------------------------------
\* What an older release left is sound: its rows are the latest cycle's, or nobody's.
LEMMA PastSound ==
  ASSUME NEW past \in Pasts, \A k : Key(k) = k, ran = past.cycles
  PROVE  /\ DOMAIN SingletonOf(past) = Columns
         /\ \A l \in DOMAIN LanesOf(past) : /\ l \in LaneNames /\ LanesOf(past)[l] = SingletonOf(past)
                                            /\ Honest(SingletonOf(past), l)
<1> DEFINE row == past.controller
           n == Len(past.cycles)
<1>1. /\ past.cycles \in Seq([lane : LaneNames, status : STRING, phase : STRING])
      /\ DOMAIN row = Columns /\ row.active \in 0..n
      /\ row.status = "running" <=> row.active # NoCycle
      /\ row.active # NoCycle =>
           /\ row.active = n /\ row.latest = n
           /\ past.cycles[n].status = "running" /\ past.cycles[n].phase = row.phase
  BY PastsAssumption DEF NewRow, Columns
<1>2. n \in Nat /\ DOMAIN past.cycles = 1..n
  BY <1>1
<1>3. past.cycles # <<>> => n \in DOMAIN past.cycles /\ past.cycles[n].lane \in LaneNames
  <2> DEFINE R == [lane : LaneNames, status : STRING, phase : STRING]
  <2>1. past.cycles # <<>> => n \in DOMAIN past.cycles
    BY <1>1, EmptySeq
  <2>2. n \in DOMAIN past.cycles => past.cycles[n] \in R
    <3>1. past.cycles \in Seq(R)
      BY <1>1
    <3> HIDE DEF R
    <3> QED
      BY <1>2, <3>1
  <2> QED
    BY <2>1, <2>2
<1>4. ASSUME past.cycles # <<>>
      PROVE  n \in LatestOf(past.cycles[n].lane) /\ n # 0
  BY <1>2, <1>3, <1>4 DEF LatestOf
<1> DEFINE last == past.cycles[n]
<1>5. CASE row # NewRow \/ past.cycles = <<>>
  <2>1. SingletonOf(past) = row
    BY <1>5 DEF SingletonOf
  <2>2. \A l \in DOMAIN LanesOf(past) : /\ LanesOf(past)[l] = row
                                        /\ l = IF past.cycles = <<>> THEN Default ELSE last.lane
    BY <2>1 DEF LanesOf
  <2>3. past.cycles = <<>> => row.active = NoCycle
    BY <1>1 DEF NoCycle
  <2> HIDE DEF row, n
  <2>4. ASSUME NEW l \in DOMAIN LanesOf(past)
        PROVE  l \in LaneNames /\ Honest(row, l)
    <3>1. CASE past.cycles = <<>>
      BY <1>1, <2>2, <2>3, <3>1, ActorFacts DEF Honest
    <3>2. CASE past.cycles # <<>>
      <4>1. l = last.lane /\ l \in LaneNames /\ n \in LatestOf(l)
        BY <1>3, <1>4, <2>2, <3>2 DEF n
      <4> QED
        BY <1>1, <4>1 DEF Honest
    <3> QED
      BY <3>1, <3>2
  <2> QED
    BY <1>1, <2>1, <2>2, <2>4
<1>6. CASE row = NewRow /\ past.cycles # <<>>
  <2> DEFINE new == [status |-> ControllerStatus(last.status), phase |-> last.phase, latest |-> n,
                     active |-> IF last.status = "running" THEN n ELSE NoCycle, requested |-> "none"]
  <2>1. SingletonOf(past) = new
    BY <1>6 DEF SingletonOf
  <2>2. \A l \in DOMAIN LanesOf(past) : LanesOf(past)[l] = new /\ l = last.lane
    BY <1>6, <2>1 DEF LanesOf
  <2>3. /\ DOMAIN new = Columns /\ new.phase = last.phase /\ new.latest = n
        /\ new.active = IF last.status = "running" THEN n ELSE NoCycle
        /\ new.status = "running" <=> last.status = "running"
    BY DEF Columns, ControllerStatus
  <2>4. last.lane \in LaneNames /\ n \in LatestOf(last.lane) /\ n # NoCycle
    BY <1>3, <1>4, <1>6 DEF NoCycle
  <2>5. ran[n] = last
    OBVIOUS
  <2> HIDE DEF new, n, last
  <2>6. Honest(new, last.lane)
    BY <2>3, <2>4, <2>5 DEF Honest
  <2> QED
    BY <2>1, <2>2, <2>3, <2>4, <2>6
<1> QED
  BY <1>5, <1>6

\* The installation starts so.
LEMMA InitSound == LanesInit => IInv
<1> SUFFICES ASSUME LanesInit PROVE IInv
  OBVIOUS
<1>1. PICK past \in Pasts :
        /\ plane = "postgres" => past.cycles = <<>> /\ past.controller = NewRow
        /\ lanes = LanesOf(past) /\ singleton = SingletonOf(past) /\ ran = past.cycles
  BY DEF LanesInit
<1>2. /\ plane \in {"sqlite", "postgres"}
      /\ crew = {} /\ loop = [l \in LaneNames |-> Off] /\ call = [a \in Actors |-> NoCall]
      /\ halt = "no" /\ torn = {}
  BY LanesAssumption DEF LanesInit
<1>3. IsCycles(ran)
  BY <1>1, PastsAssumption DEF IsCycles
<1>4. plane = "postgres" => DOMAIN lanes = {}
  BY <1>1 DEF LanesOf
<1>5. plane = "sqlite" =>
        \A l \in DOMAIN lanes : /\ l \in LaneNames /\ lanes[l] = singleton /\ DOMAIN lanes[l] = Columns
                                /\ Honest(lanes[l], l)
  <2> SUFFICES ASSUME plane = "sqlite"
               PROVE  \A l \in DOMAIN lanes : /\ l \in LaneNames /\ lanes[l] = singleton
                                              /\ DOMAIN lanes[l] = Columns /\ Honest(lanes[l], l)
    OBVIOUS
  <2>1. \A k : Key(k) = k
    BY DEF Key
  <2>2. /\ DOMAIN SingletonOf(past) = Columns
        /\ \A l \in DOMAIN LanesOf(past) : /\ l \in LaneNames /\ LanesOf(past)[l] = SingletonOf(past)
                                           /\ Honest(SingletonOf(past), l)
    BY <1>1, <2>1, PastSound
  <2>3. \A l \in DOMAIN lanes : lanes[l] = singleton
    BY <1>1, <2>2
  <2> QED
    BY <1>1, <2>2, <2>3
<1>6. Off \in [at : Ats, cycle : Nat] /\ Off.at = "off"
  BY DEF Off, Ats, NoCycle
<1>7. Shapes
  BY <1>2, <1>3, <1>4, <1>5, <1>6 DEF Shapes
<1>8. Alone /\ CallsSound /\ WorkSound
  BY <1>2, <1>6, ActorFacts DEF Alone, CallsSound, WorkSound
<1>9. RowsHonest
  BY <1>2, <1>4, <1>5 DEF RowsHonest
<1>10. SingletonFollows
  BY <1>5 DEF SingletonFollows
<1> QED
  BY <1>7, <1>8, <1>9, <1>10 DEF IInv

\* Every step keeps it.
LEMMA NextKeeps ==
  ASSUME IInv, [LanesNext]_lanesVars
  PROVE  IInv'
<1>1. ASSUME NEW c \in Crews, LaunchCrew(c)
      PROVE  IInv'
  BY <1>1, LaunchKeeps
<1>2. ASSUME NEW l \in LaneNames, BootLane(l) \/ PollLane(l) \/ SettleLane(l) \/ StopLane(l)
      PROVE  IInv'
  BY <1>2, StartsAndStops
<1>3. ASSUME NEW l \in LaneNames, StartCycle(l)
      PROVE  IInv'
  BY <1>3, StartKeeps
<1>4. ASSUME NEW l \in LaneNames, NextPhase(l)
      PROVE  IInv'
  BY <1>4, PhaseKeeps
<1>5. ASSUME NEW l \in LaneNames, CycleOver(l)
      PROVE  IInv'
  BY <1>5, CycleOverKeeps
<1>6. ASSUME NEW l \in LaneNames, LaneRaises(l)
      PROVE  IInv'
  BY <1>6, LossKeeps DEF LaneRaises
<1>7. ASSUME NEW a \in Actors, LoadRow(a)
      PROVE  IInv'
  BY <1>7, LoadKeeps
<1>8. ASSUME NEW a \in Actors, WriteRow(a)
      PROVE  IInv'
  <2>1. CASE a = "operator"
    BY <1>8, <2>1, CommandWritten
  <2>2. CASE a \in LaneNames
    BY <1>8, <2>2, LoopWritten
  <2> QED
    BY <2>1, <2>2 DEF Actors
<1>9. ASSUME Interrupted
      PROVE  IInv'
  BY <1>9, InterruptKeeps
<1>10. ASSUME RuntimeDies
       PROVE  IInv'
  <2>1. {l \in crew : loop[l] # Off} \subseteq LaneNames
    BY DEF IInv, Shapes
  <2> QED
    BY <1>10, <2>1, LossKeeps DEF RuntimeDies
<1>11. ASSUME Order
       PROVE  IInv'
  BY <1>11, OrderKeeps
<1>12. ASSUME UNCHANGED lanesVars
       PROVE  IInv'
  <2>1. UNCHANGED <<plane, lanes, singleton, ran, crew, loop, call, halt, torn>>
    BY <1>12 DEF lanesVars
  <2>2. Shapes' /\ Alone'
    BY <2>1, LoopMoves DEF IInv, Shapes
  <2>3. CallsSound'
    BY <2>1, CallsKept DEF IInv, CallsSound
  <2>4. WorkSound' /\ RowsHonest' /\ SingletonFollows'
    BY <2>1, Unwritten
  <2> QED
    BY <2>2, <2>3, <2>4 DEF IInv
<1> QED
  BY <1>1, <1>2, <1>3, <1>4, <1>5, <1>6, <1>7, <1>8, <1>9, <1>10, <1>11, <1>12 DEF LanesNext

-----------------------------------------------------------------------------
\* Rows, loops and calls are as they are described, and what each says of the others is true.
THEOREM LanesInvariant == LanesSpec => []IInv
<1>1. IInv /\ [LanesNext]_lanesVars => IInv'
  BY NextKeeps
<1> QED
  BY <1>1, InitSound, PTL DEF LanesSpec

\* Rows are of known lanes, a loop that works has a cycle, a loop that runs is of the process.
THEOREM LanesTyped == LanesSpec => []LanesTypeOK
<1>1. IInv => LanesTypeOK
  <2> SUFFICES ASSUME IInv PROVE LanesTypeOK
    OBVIOUS
  <2>1. Shapes /\ CallsSound
    BY DEF IInv
  <2>2. \A l \in LaneNames : loop[l].at = "work" => loop[l].cycle \in DOMAIN ran
    BY AtWork
  <2>3. \A a \in Actors : call[a].stage \in {"none", "asked", "loaded"}
    BY <2>1 DEF CallsSound, NoCall
  <2> QED
    BY <2>1, <2>2, <2>3 DEF Shapes, LanesTypeOK
<1> QED
  BY <1>1, LanesInvariant, PTL

\* The singleton row of SQLite is at every moment the row of the default lane or of the only one:
\* every write of a row copies it, or is of another lane than the one that is shown.
THEOREM SingletonIsTheDefault == LanesSpec => []SingletonFollows
<1>1. IInv => SingletonFollows
  BY DEF IInv
<1> QED
  BY <1>1, LanesInvariant, PTL

-----------------------------------------------------------------------------
\* A set of numbers with a bound has a greatest one.
LEMMA GreatestOfNats ==
  ASSUME NEW S, NEW bound \in Nat, S \subseteq 0..bound, S # {}
  PROVE  \E g \in S : \A k \in S : k <= g
<1> DEFINE Above(x) == {y \in 0..bound : y > x}
           T == {Above(x) : x \in S}
<1>1. T \subseteq FiniteSubsetsOf(Nat)
  <2> SUFFICES ASSUME NEW x \in S PROVE Above(x) \in SUBSET Nat /\ IsFiniteSet(Above(x))
    BY DEF FiniteSubsetsOf
  <2>1. Above(x) \in SUBSET Nat /\ \A y \in Above(x) : y <= bound
    OBVIOUS
  <2> QED
    BY <2>1, FS_BoundedSetOfNaturals
<1>2. T # {}
  OBVIOUS
<1> HIDE DEF T
<1>3. PICK D \in T : \A E \in T : ~(<<E, D>> \in StrictSubsetOrdering(Nat))
  BY <1>1, <1>2, FS_StrictSubsetOrderingWellFounded, WFMin
<1>4. PICK x \in S : D = Above(x)
  BY <1>3 DEF T
<1>5. ASSUME NEW y \in S, ~(y <= x)
      PROVE  FALSE
  <2>1. y \in 0..bound /\ x \in 0..bound /\ y > x
    BY <1>5
  <2>2. Above(y) \in T
    BY DEF T
  <2>3. Above(y) \subseteq Above(x) /\ y \in Above(x) /\ y \notin Above(y)
    BY <2>1
  <2>4. <<Above(y), D>> \in StrictSubsetOrdering(Nat)
    BY <1>4, <2>3 DEF StrictSubsetOrdering
  <2> QED
    BY <1>3, <2>2, <2>4
<1> QED
  BY <1>5

\* A lane with cycles has a latest one.
LEMMA LatestThere ==
  ASSUME IInv, NEW l, NEW j \in DOMAIN ran, Key(ran[j].lane) = l
  PROVE  LatestOf(l) # {} /\ LatestOf(l) \subseteq DOMAIN ran
<1> DEFINE S == {k \in DOMAIN ran : Key(ran[k].lane) = l}
<1>1. Len(ran) \in Nat /\ DOMAIN ran = 1..Len(ran)
  BY DEF IInv, Shapes, IsCycles
<1>2. S \subseteq 0..Len(ran) /\ S # {}
  BY <1>1
<1> HIDE DEF S
<1>3. PICK g \in S : \A k \in S : k <= g
  BY <1>1, <1>2, GreatestOfNats
<1> QED
  BY <1>3 DEF S, LatestOf

\* Of what is shown, running comes first.
LEMMA RunningFirst ==
  \A status : Priority(status) \in 1..5 /\ (Priority(status) = 5 <=> status = "running")
BY DEF Priority

\* What is shown of the runtime is what its cycles are: a lane's row names the cycle that runs, which
\* is the lane's latest, and the whole says running when a loop works, and only when a cycle runs.
THEOREM ShownIsTrue == LanesSpec => []StatusHonest
<1>1. IInv => StatusHonest
  <2> SUFFICES ASSUME IInv PROVE StatusHonest
    OBVIOUS
  <2>1. Shapes /\ WorkSound /\ RowsHonest /\ plane \in {"sqlite", "postgres"}
    BY DEF IInv, Shapes
  <2>2. /\ \A l \in LaneNames : Key(l) \in LaneNames
        /\ \A l \in DOMAIN lanes : l \in LaneNames /\ Key(l) = l
        /\ plane = "sqlite" => \A l : Key(l) = l
        /\ plane = "postgres" => \A l : Key(l) = Default
    BY <2>1, KeyFacts, ActorFacts DEF Shapes
  <2>3. \A l \in DOMAIN lanes : ViewOf(l).status = lanes[l].status
    BY DEF ViewOf
  <2>4. \A view \in ShownViews : \E m \in KnownLanes : view = ViewOf(m)
    BY DEF ShownViews, PostgresViews
  <2>5. ASSUME NEW view \in ShownViews, NEW l \in LaneNames, loop[l].at = "work", Sound(Key(l))
        PROVE  view.status = "running"
    <3>1. Row(l).status = "running"
      BY <2>1, <2>5 DEF WorkSound, Engaged
    <3>2. Key(l) \in DOMAIN lanes
      BY <2>1, <3>1, RowShape
    <3>3. Key(l) \in KnownLanes /\ ViewOf(Key(l)).status = "running"
      BY <2>3, <3>1, <3>2 DEF KnownLanes, Row
    <3>4. CASE plane = "sqlite"
      <4>1. PICK m \in KnownLanes : /\ view = ViewOf(m)
                                    /\ \A j \in KnownLanes : Priority(ViewOf(j).status) <= Priority(ViewOf(m).status)
        BY <3>4 DEF ShownViews
      <4>2. Priority(ViewOf(Key(l)).status) <= Priority(view.status)
        BY <3>3, <4>1
      <4> QED
        BY <3>3, <4>2, RunningFirst
    <3>5. CASE plane = "postgres"
      <4>1. PICK m \in KnownLanes : view = ViewOf(m)
        BY <2>4
      <4>2. m = Key(l)
        BY <2>1, <2>2, <3>5, <4>1 DEF KnownLanes, Shapes
      <4> QED
        BY <3>3, <4>1, <4>2
    <3> QED
      BY <2>1, <3>4, <3>5
  <2>6. ASSUME NEW view \in ShownViews, view.status = "running", \A l \in LaneNames : Sound(Key(l))
        PROVE  \E k \in DOMAIN ran : ran[k].status = "running"
    <3>1. PICK m \in KnownLanes : view = ViewOf(m)
      BY <2>4
    <3>2. CASE m \in DOMAIN lanes
      <4>1. Sound(m) /\ lanes[m].status = "running"
        BY <2>2, <2>3, <2>6, <3>1, <3>2
      <4>2. Honest(lanes[m], m)
        BY <2>1, <3>2, <4>1 DEF RowsHonest
      <4> QED
        BY <4>1, <4>2 DEF Honest, LatestOf
    <3>3. CASE m \notin DOMAIN lanes
      <4>1. PICK j \in DOMAIN ran : Key(ran[j].lane) = m
        BY <3>1, <3>3 DEF KnownLanes
      <4>2. LatestOf(m) # {} /\ LatestOf(m) \subseteq DOMAIN ran
        BY <4>1, LatestThere
      <4> DEFINE k == CHOOSE k \in LatestOf(m) : TRUE
      <4>3. k \in DOMAIN ran
        BY <4>2
      <4>4. ViewOf(m).status = ControllerStatus(ran[k].status)
        BY <3>3 DEF ViewOf
      <4> HIDE DEF k
      <4> QED
        BY <2>6, <3>1, <4>3, <4>4 DEF ControllerStatus
    <3> QED
      BY <3>2, <3>3
  <2>7. ASSUME NEW l \in DOMAIN lanes, Sound(l)
        PROVE  Honest(lanes[l], l)
    BY <2>1, <2>7 DEF RowsHonest
  <2> QED
    BY <2>5, <2>6, <2>7 DEF StatusHonest, Honest
<1> QED
  BY <1>1, LanesInvariant, PTL
=============================================================================
