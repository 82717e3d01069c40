--------------------------- MODULE TransportProofs ---------------------------
(***************************************************************************)
(* Transport, for any routes, tasks and bounds: the types, the exact       *)
(* in-flight counts, that a call gives up only after all routes, that the  *)
(* lock of a route is one task's, and that nothing is sent on a session    *)
(* whose close has begun or that failed.                                   *)
(*                                                                         *)
(* The argument: every step of a task changes its own record and that of   *)
(* one route, so Moves says what such a step may do to the two, each       *)
(* action is shown to be a move, and a move keeps the invariant.           *)
(***************************************************************************)
EXTENDS Transport, FiniteSetTheorems, TLAPS

Holding == {"swap", "warming", "backoff"}
Queued == {"line"} \cup Holding

\* A task's record: it has a route while an attempt is on, and attempts to spare before one.
Fit(k) ==
  /\ k.on = None <=> k.at \in {"idle", "reserve"}
  /\ k.at = "reserve" => k.tries < MaxRetries
  /\ k.at \in {"line", "swap"} => k.warmups = 0
  /\ k.at = "backoff" => k.warmups < WarmupTries
  /\ k.at \in {"warming", "backoff"} => k.held # NoSession

\* What a call has tried and what has failed on it are the same, but for the attempt that is on.
CallFit(k) ==
  /\ k.gaveUp /\ MaxRetries >= Cardinality(Routes) => k.failed = Routes
  /\ k.at = "reserve" => \/ k.failed = Routes
                         \/ k.tried = k.failed /\ k.tries = Cardinality(k.tried)
  /\ k.on # None => \/ k.failed = Routes
                    \/ /\ k.on \in k.tried /\ k.failed = k.tried \ {k.on}
                       /\ k.tries = Cardinality(k.tried)

\* A route that need not be rebuilt has a session that is neither closing nor condemned.
SessionFit(rt) == ~rt.rebuild => rt.session \notin rt.closed \cup rt.condemned

\* A task past the head of the line has found or made a session on its route.
Seated == \A t \in Tasks : task[t].on \in Routes /\ task[t].at # "line" =>
                             route[task[t].on].session # NoSession

\* The line of a route's lock: its tasks and no other, each once, the holder first.
LineFit ==
  \A r \in Routes :
    LET line == route[r].line IN
    /\ \A i, j \in 1..Len(line) : line[i] = line[j] => i = j
    /\ \A i \in 1..Len(line) : task[line[i]].on = r /\ task[line[i]].at \in Queued
    /\ \A t \in Tasks : task[t].on = r /\ task[t].at \in Queued =>
         \E i \in 1..Len(line) : line[i] = t /\ (task[t].at \in Holding => i = 1)

IInv ==
  /\ TypeOK
  /\ \A t \in Tasks : Fit(task[t]) /\ CallFit(task[t])
  /\ \A r \in Routes : SessionFit(route[r])
  /\ Seated
  /\ LineFit
  /\ InFlightExact

-----------------------------------------------------------------------------
\* What a step of task t on route r may do to the line of the route's lock.
LineMoves(t, r) ==
  LET line == route[r].line
      next == route'[r].line
      in(k) == k.on = r /\ k.at \in Queued
  IN  \/ /\ next = line
         /\ in(task[t]) <=> in(task'[t])
         /\ in(task'[t]) /\ task'[t].at \in Holding => line[1] = t
      \/ /\ next = Append(line, t)
         /\ ~in(task[t]) /\ in(task'[t]) /\ task'[t].at \notin Holding
      \/ /\ next = Tail(line)
         /\ line # <<>> /\ line[1] = t /\ ~in(task'[t])

Moves(t, r) ==
  LET x == route'[r]
      y == task'[t]
  IN
  /\ route' \in [Routes -> Route] /\ task' \in [Tasks -> Task]
  /\ \A q \in Routes \ {r} : route'[q] = route[q]
  /\ \A u \in Tasks \ {t} : task'[u] = task[u]
  /\ task[t].on \in {None, r} /\ y.on \in {None, r}
  /\ x.inFlight = route[r].inFlight + (IF y.on = r THEN 1 ELSE 0)
                                    - (IF task[t].on = r THEN 1 ELSE 0)
  /\ route[r].session # NoSession => x.session # NoSession
  /\ y.on = r /\ y.at # "line" => x.session # NoSession
  /\ SessionFit(x) /\ Fit(y) /\ CallFit(y)
  /\ y.at = "get" => y.on = r /\ y.held \notin x.closed \cup x.condemned
  /\ LineMoves(t, r)

\* The tasks that hold a route.
Holders(r) == {t \in Tasks : task[t].on = r}

\* The tasks that hold a route are finitely many.
LEMMA HoldersFinite ==
  ASSUME NEW r
  PROVE  IsFiniteSet(Holders(r)) /\ Cardinality(Holders(r)) \in 0..Cardinality(Tasks)
<1>1. Holders(r) \in SUBSET Tasks
  BY DEF Holders
<1> QED
  BY <1>1, FS_Subset, FS_CardinalityType, TransportAssumption

\* A move keeps the in-flight counts exact.
LEMMA CountsMove ==
  ASSUME IInv, NEW t \in Tasks, NEW r \in Routes, Moves(t, r)
  PROVE  InFlightExact'
<1> SUFFICES ASSUME NEW q \in Routes
             PROVE  route'[q].inFlight = Cardinality(Holders(q)')
  BY DEF InFlightExact, Holders
<1>0. route[q].inFlight = Cardinality(Holders(q)) /\ r # None /\ q # None
  BY TransportAssumption DEF IInv, InFlightExact, Holders
<1>1. CASE q # r
  <2>1. Holders(q)' = Holders(q) /\ route'[q] = route[q]
    BY <1>0, <1>1 DEF Moves, Holders
  <2> QED
    BY <1>0, <2>1
<1>2. CASE q = r
  <2>1. Cardinality(Holders(r)) \in Nat /\ IsFiniteSet(Holders(r))
    BY HoldersFinite
  <2>2. CASE task[t].on = r /\ task'[t].on = r
    <3>1. Holders(r)' = Holders(r)
      BY <2>2 DEF Moves, Holders
    <3>2. route'[r].inFlight = route[r].inFlight + 1 - 1
      BY <2>2 DEF Moves
    <3> QED
      BY <1>0, <1>2, <2>1, <3>1, <3>2
  <2>3. CASE task[t].on # r /\ task'[t].on # r
    <3>1. Holders(r)' = Holders(r)
      BY <2>3 DEF Moves, Holders
    <3>2. route'[r].inFlight = route[r].inFlight + 0 - 0
      BY <2>3 DEF Moves
    <3> QED
      BY <1>0, <1>2, <2>1, <3>1, <3>2
  <2>4. CASE task[t].on # r /\ task'[t].on = r
    <3>1. Holders(r)' = Holders(r) \cup {t} /\ t \notin Holders(r)
      BY <2>4 DEF Moves, Holders
    <3>2. route'[r].inFlight = route[r].inFlight + 1 - 0
      BY <2>4 DEF Moves
    <3>3. Cardinality(Holders(r) \cup {t}) = Cardinality(Holders(r)) + 1
      BY <2>1, <3>1, FS_AddElement
    <3> QED
      BY <1>0, <1>2, <2>1, <3>1, <3>2, <3>3
  <2>5. CASE task[t].on = r /\ task'[t].on # r
    <3>1. Holders(r)' = Holders(r) \ {t} /\ t \in Holders(r)
      BY <2>5 DEF Moves, Holders
    <3>2. route'[r].inFlight = route[r].inFlight + 0 - 1
      BY <2>5 DEF Moves
    <3>3. Cardinality(Holders(r) \ {t}) = Cardinality(Holders(r)) - 1
      BY <2>1, <3>1, FS_RemoveElement
    <3> QED
      BY <1>0, <1>2, <2>1, <3>1, <3>2, <3>3
  <2> QED
    BY <2>2, <2>3, <2>4, <2>5
<1> QED
  BY <1>1, <1>2

\* A move keeps the lines in order.
LEMMA LinesMove ==
  ASSUME IInv, NEW t \in Tasks, NEW r \in Routes, Moves(t, r)
  PROVE  LineFit'
<1> DEFINE In(k) == k.on = r /\ k.at \in Queued
           line == route[r].line
<1>0. /\ line \in Seq(Tasks) /\ r # None
      /\ \A i, j \in 1..Len(line) : line[i] = line[j] => i = j
      /\ \A i \in 1..Len(line) : In(task[line[i]])
      /\ \A u \in Tasks : In(task[u]) =>
           \E i \in 1..Len(line) : line[i] = u /\ (task[u].at \in Holding => i = 1)
      /\ \A u \in Tasks \ {t} : task'[u] = task[u]
  BY TransportAssumption DEF IInv, TypeOK, Route, LineFit, Moves
<1> SUFFICES ASSUME NEW q \in Routes
             PROVE  /\ \A i, j \in 1..Len(route'[q].line) :
                         route'[q].line[i] = route'[q].line[j] => i = j
                    /\ \A i \in 1..Len(route'[q].line) :
                         task'[route'[q].line[i]].on = q /\ task'[route'[q].line[i]].at \in Queued
                    /\ \A u \in Tasks : task'[u].on = q /\ task'[u].at \in Queued =>
                         \E i \in 1..Len(route'[q].line) :
                            route'[q].line[i] = u /\ (task'[u].at \in Holding => i = 1)
  BY DEF LineFit
<1>1. CASE q # r
  <2>1. route'[q] = route[q] /\ task[t].on # q /\ task'[t].on # q
    BY <1>1, TransportAssumption DEF Moves
  <2>2. route[q].line \in Seq(Tasks) /\ \A i \in 1..Len(route[q].line) : route[q].line[i] \in Tasks \ {t}
    BY <2>1 DEF IInv, TypeOK, Route, LineFit
  <2> QED
    BY <1>0, <2>1, <2>2 DEF IInv, LineFit
<1>2. CASE q = r
  <2>1. CASE /\ route'[r].line = line /\ (In(task[t]) <=> In(task'[t]))
             /\ In(task'[t]) /\ task'[t].at \in Holding => line[1] = t
    <3>1. \A i \in 1..Len(line) : line[i] \in Tasks /\ In(task'[line[i]])
      BY <1>0, <2>1
    <3>2. ASSUME NEW u \in Tasks, In(task'[u])
          PROVE  \E i \in 1..Len(line) : line[i] = u /\ (task'[u].at \in Holding => i = 1)
      BY <1>0, <2>1, <3>2
    <3> QED
      BY <1>0, <1>2, <2>1, <3>1, <3>2
  <2>2. CASE /\ route'[r].line = Append(line, t) /\ ~In(task[t]) /\ In(task'[t])
             /\ task'[t].at \notin Holding
    <3> DEFINE next == Append(line, t)
    <3>1. /\ Len(next) = Len(line) + 1 /\ next[Len(line) + 1] = t
          /\ \A i \in 1..Len(line) : next[i] = line[i] /\ line[i] \in Tasks /\ line[i] # t
          /\ Len(line) \in Nat
      BY <1>0, <2>2
    <3> HIDE DEF next
    <3>2. \A i \in 1..Len(next) : next[i] \in Tasks /\ In(task'[next[i]])
      BY <1>0, <2>2, <3>1
    <3>3. \A i, j \in 1..Len(next) : next[i] = next[j] => i = j
      BY <1>0, <3>1, SMTT(30)
    <3>4. ASSUME NEW u \in Tasks, In(task'[u])
          PROVE  \E i \in 1..Len(next) : next[i] = u /\ (task'[u].at \in Holding => i = 1)
      <4>1. CASE u = t
        BY <2>2, <3>1, <4>1
      <4>2. CASE u # t
        <5>1. PICK i \in 1..Len(line) : line[i] = u /\ (task[u].at \in Holding => i = 1)
          BY <1>0, <3>4, <4>2
        <5> QED
          BY <1>0, <3>1, <4>2, <5>1
      <4> QED
        BY <4>1, <4>2
    <3>5. route'[q].line = next
      BY <1>2, <2>2 DEF next
    <3> QED
      BY <1>2, <3>2, <3>3, <3>4, <3>5
  <2>3. CASE /\ route'[r].line = Tail(line) /\ line # <<>> /\ line[1] = t /\ ~In(task'[t])
    <3> DEFINE next == Tail(line)
    <3>1. /\ Len(next) = Len(line) - 1 /\ Len(line) \in Nat \ {0}
          /\ \A i \in 1..Len(next) : next[i] = line[i + 1]
      BY <1>0, <2>3
    <3> HIDE DEF next
    <3>2. \A i \in 1..Len(next) : next[i] \in Tasks \ {t} /\ In(task'[next[i]])
      <4> SUFFICES ASSUME NEW i \in 1..Len(next)
                   PROVE  next[i] \in Tasks \ {t} /\ In(task'[next[i]])
        OBVIOUS
      <4>1. i + 1 \in 1..Len(line) /\ i + 1 # 1 /\ 1 \in 1..Len(line) /\ next[i] = line[i + 1]
        BY <3>1
      <4>2. line[i + 1] \in Tasks /\ line[i + 1] # t
        BY <1>0, <2>3, <4>1
      <4> QED
        BY <1>0, <4>1, <4>2
    <3>3. \A i, j \in 1..Len(next) : next[i] = next[j] => i = j
      BY <1>0, <3>1
    <3>4. ASSUME NEW u \in Tasks, In(task'[u])
          PROVE  \E i \in 1..Len(next) : next[i] = u /\ (task'[u].at \in Holding => i = 1)
      <4>1. u # t /\ task'[u] = task[u]
        BY <1>0, <2>3, <3>4
      <4>2. PICK i \in 1..Len(line) : line[i] = u /\ (task[u].at \in Holding => i = 1)
        BY <1>0, <3>4, <4>1
      <4>3. i # 1
        BY <2>3, <4>1, <4>2
      <4>4. i - 1 \in 1..Len(next) /\ next[i - 1] = u
        BY <3>1, <4>2, <4>3
      <4> QED
        BY <4>1, <4>2, <4>3, <4>4
    <3>5. route'[q].line = next
      BY <1>2, <2>3 DEF next
    <3> QED
      BY <1>2, <3>2, <3>3, <3>4, <3>5
  <2> QED
    BY <2>1, <2>2, <2>3 DEF Moves, LineMoves
<1> QED
  BY <1>1, <1>2

\* A move keeps the invariant.
LEMMA MovesKeep ==
  ASSUME IInv, NEW t \in Tasks, NEW r \in Routes, Moves(t, r)
  PROVE  IInv'
<1>1. TypeOK'
  BY DEF Moves, TypeOK
<1>2. \A u \in Tasks : Fit(task'[u]) /\ CallFit(task'[u])
  BY DEF Moves, IInv
<1>3. \A q \in Routes : SessionFit(route'[q])
  BY DEF Moves, IInv
<1>4. Seated'
  <2> SUFFICES ASSUME NEW u \in Tasks, task'[u].on \in Routes, task'[u].at # "line"
               PROVE  route'[task'[u].on].session # NoSession
    BY DEF Seated
  <2>1. CASE u = t
    BY <2>1, TransportAssumption DEF Moves
  <2>2. CASE u # t
    <3>1. task'[u] = task[u] /\ route[task[u].on].session # NoSession
      BY <2>2 DEF Moves, IInv, Seated
    <3> QED
      BY <3>1 DEF Moves
  <2> QED
    BY <2>1, <2>2
<1>5. LineFit' /\ InFlightExact'
  BY LinesMove, CountsMove
<1> QED
  BY <1>1, <1>2, <1>3, <1>4, <1>5 DEF IInv, Fit, CallFit, SessionFit

-----------------------------------------------------------------------------
\* What the invariant says of a task that has a route, and of that route.
LEMMA OnRoute ==
  ASSUME IInv, NEW t \in Tasks, task[t].at \notin {"idle", "reserve"}
  PROVE  LET r == task[t].on IN
         /\ r \in Routes /\ r # None /\ route[r] \in Route /\ task[t] \in Task
         /\ route[r].inFlight - 1 \in 0..Cardinality(Tasks)
         /\ task[t].at \in Queued => route[r].line # <<>>
         /\ task[t].at \in Holding => route[r].line[1] = t
         /\ task[t].at # "line" => route[r].session \in Sessions
<1> DEFINE r == task[t].on
<1>1. r \in Routes /\ r # None /\ route[r] \in Route /\ task[t] \in Task
  BY TransportAssumption DEF IInv, TypeOK, Task, Fit
<1>2. route[r].inFlight - 1 \in 0..Cardinality(Tasks)
  <2>1. route[r].inFlight = Cardinality(Holders(r)) /\ t \in Holders(r)
    BY <1>1 DEF IInv, InFlightExact, Holders
  <2>2. IsFiniteSet(Holders(r)) /\ Cardinality(Holders(r)) \in 0..Cardinality(Tasks)
    BY HoldersFinite
  <2>3. Cardinality(Holders(r)) # 0
    BY <2>1, <2>2, FS_EmptySet
  <2>4. Cardinality(Tasks) \in Nat
    BY TransportAssumption, FS_CardinalityType
  <2> QED
    BY <2>1, <2>2, <2>3, <2>4
<1>3. task[t].at \in Queued =>
        \E i \in 1..Len(route[r].line) : route[r].line[i] = t /\ (task[t].at \in Holding => i = 1)
  BY <1>1 DEF IInv, LineFit
<1>4. route[r].line \in Seq(Tasks)
  BY <1>1 DEF Route
<1>5. task[t].at # "line" => route[r].session \in Sessions
  BY <1>1 DEF IInv, Seated, Route, Sessions
<1> QED
  BY <1>1, <1>2, <1>3, <1>4, <1>5 DEF Queued

\* There is always a session to rebuild a route with: the others wait on fewer.
LEMMA FreshSession ==
  ASSUME NEW t \in Tasks, NEW s
  PROVE  Sessions \ Held(t, s) # {}
<1> DEFINE U == {u \in Tasks \ {t} : task[u].on = task[t].on}
           W == {task[u].held : u \in U}
           f == [u \in U |-> task[u].held]
<1>1. IsFiniteSet(Tasks) /\ Cardinality(Tasks) \in Nat
  BY TransportAssumption, FS_CardinalityType
<1>2. IsFiniteSet(Tasks \ {t}) /\ Cardinality(Tasks \ {t}) = Cardinality(Tasks) - 1
  BY <1>1, FS_RemoveElement
<1>3. IsFiniteSet(U) /\ Cardinality(U) <= Cardinality(Tasks) - 1 /\ Cardinality(U) \in Nat
  <2>1. U \in SUBSET (Tasks \ {t})
    OBVIOUS
  <2> HIDE DEF U
  <2> QED
    BY <1>2, <2>1, FS_Subset, FS_CardinalityType
<1>4. f \in Surjection(U, W)
  BY DEF Surjection
<1>5. IsFiniteSet(W) /\ Cardinality(W) <= Cardinality(U) /\ Cardinality(W) \in Nat
  <2> HIDE DEF U, W, f
  <2> QED
    BY <1>3, <1>4, FS_Surjection, FS_CardinalityType
<1>6. IsFiniteSet(Held(t, s)) /\ Cardinality(Held(t, s)) <= Cardinality(Tasks)
      /\ Cardinality(Held(t, s)) \in Nat
  <2>1. Held(t, s) = W \cup {s}
    BY DEF Held
  <2> HIDE DEF U, W, f
  <2> QED
    <3>1. /\ IsFiniteSet(W \cup {s}) /\ Cardinality(W \cup {s}) \in Nat
          /\ Cardinality(W \cup {s}) <= Cardinality(W) + 1
      BY <1>5, FS_AddElement, FS_CardinalityType
    <3> QED
      BY <1>1, <1>3, <1>5, <2>1, <3>1
<1>7. Cardinality(Sessions) = Cardinality(Tasks) + 1
  BY <1>1, FS_Interval DEF Sessions
<1>8. ~(Sessions \in SUBSET Held(t, s))
  <2> HIDE DEF U, W, f
  <2> QED
    BY <1>1, <1>6, <1>7, FS_Subset
<1> QED
  BY <1>8

\* A rebuilt route.
LEMMA RebuiltFit ==
  ASSUME NEW t \in Tasks, NEW rt \in Route
  PROVE  LET x == Rebuilt(t, rt) IN
         /\ x \in Route /\ x.session \in Sessions /\ SessionFit(x)
         /\ x.session \notin x.closed \cup x.condemned
         /\ x.inFlight = rt.inFlight /\ x.line = rt.line
<1> DEFINE s == CHOOSE n \in Sessions \ Held(t, rt.session) : TRUE
<1>1. s \in Sessions
  <2>1. \E n \in Sessions \ Held(t, rt.session) : TRUE
    BY FreshSession
  <2> QED
    BY <2>1
<1>2. Rebuilt(t, rt) = [rt EXCEPT !.session = s, !.rebuild = FALSE, !.warmed = FALSE,
                                  !.closed = @ \ {s}, !.condemned = @ \ {s}]
  BY DEF Rebuilt
<1> HIDE DEF s
<1> QED
  BY <1>1, <1>2 DEF Route, SessionFit

\* A route whose lock has been left.
LEMMA UnlockedFit ==
  ASSUME NEW rt \in Route, rt.line # <<>>
  PROVE  LET x == Unlocked(rt) IN
         /\ x \in Route /\ x.session = rt.session /\ x.inFlight = rt.inFlight
         /\ x.line = Tail(rt.line) /\ (SessionFit(rt) => SessionFit(x))
<1>1. Tail(rt.line) \in Seq(Tasks)
  BY DEF Route
<1>2. Unlocked(rt) = [rt EXCEPT !.line = Tail(rt.line)]
  BY DEF Unlocked
<1> QED
  BY <1>1, <1>2 DEF Route, SessionFit

\* What may be warmed up, by whom.
LEMMA WarmsUpMoves ==
  ASSUME IInv, NEW t \in Tasks, task[t].at \in Queued, NEW rt \in Route, NEW s \in Sessions,
         WarmsUp(t, rt, s), rt.session # NoSession, SessionFit(rt),
         rt.inFlight = route[task[t].on].inFlight, rt.line = route[task[t].on].line,
         rt.line[1] = t, task[t].warmups < WarmupTries
  PROVE  Moves(t, task[t].on)
<1> DEFINE r == task[t].on
<1>0. /\ r \in Routes /\ r # None /\ route[r] \in Route /\ task[t] \in Task
      /\ route \in [Routes -> Route] /\ task \in [Tasks -> Task]
      /\ Fit(task[t]) /\ CallFit(task[t])
  BY OnRoute DEF Queued, Holding, IInv, TypeOK
<1>1. /\ route' = [route EXCEPT ![r] = [rt EXCEPT !.gap = Delay]]
      /\ task' = [task EXCEPT ![t] = [task[t] EXCEPT !.at = "warming", !.held = s,
                                                      !.warmups = task[t].warmups + 1]]
  BY <1>0 DEF WarmsUp
<1> DEFINE x == [rt EXCEPT !.gap = Delay]
           y == [task[t] EXCEPT !.at = "warming", !.held = s, !.warmups = task[t].warmups + 1]
<1>2. /\ x \in Route /\ x.inFlight = route[r].inFlight /\ x.line = route[r].line
      /\ x.session # NoSession /\ SessionFit(x) /\ x.line[1] = t
  BY TransportAssumption DEF Route, SessionFit
<1>3. /\ y \in Task /\ y.on = r /\ y.at = "warming" /\ y.tried = task[t].tried
      /\ y.tries = task[t].tries /\ y.failed = task[t].failed /\ y.gaveUp = task[t].gaveUp
      /\ y.held = s /\ s # NoSession
  <2>1. task[t].warmups + 1 \in 0..WarmupTries /\ "warming" \in Stages
    BY <1>0, TransportAssumption DEF Task, Stages
  <2>2. s # NoSession
    BY DEF Sessions, NoSession
  <2> QED
    BY <1>0, <2>1, <2>2 DEF Task
<1>4. Fit(y) /\ CallFit(y)
  BY <1>0, <1>3 DEF Fit, CallFit
<1> HIDE DEF x, y
<1>5. /\ route'[r] = x /\ task'[t] = y
      /\ route' \in [Routes -> Route] /\ task' \in [Tasks -> Task]
      /\ \A q \in Routes \ {r} : route'[q] = route[q]
      /\ \A u \in Tasks \ {t} : task'[u] = task[u]
  BY <1>0, <1>1, <1>2, <1>3 DEF x, y
<1>6. LineMoves(t, r) /\ y.at # "get"
  BY <1>2, <1>3, <1>5 DEF LineMoves, Queued, Holding
<1> HIDE DEF r
<1>7. route[r].inFlight \in Int
  BY <1>0 DEF Route
<1> QED
  BY <1>0, <1>2, <1>3, <1>4, <1>5, <1>6, <1>7 DEF Moves, r

\* Sending leaves the lock of a route that has a session.
LEMMA SendsMoves ==
  ASSUME IInv, NEW t \in Tasks, task[t].at \in Queued, NEW rt \in Route,
         Sends(t, rt), rt.session # NoSession, SessionFit(rt),
         rt.inFlight = route[task[t].on].inFlight, rt.line = Tail(route[task[t].on].line),
         route[task[t].on].line[1] = t
  PROVE  Moves(t, task[t].on)
<1> DEFINE r == task[t].on
<1>0. /\ r \in Routes /\ r # None /\ route[r] \in Route /\ task[t] \in Task
      /\ route \in [Routes -> Route] /\ task \in [Tasks -> Task]
      /\ Fit(task[t]) /\ CallFit(task[t]) /\ route[r].line # <<>>
  BY OnRoute DEF Queued, Holding, IInv, TypeOK
<1> DEFINE x == IF rt.rebuild THEN Closing(rt) ELSE rt
           to == IF rt.rebuild THEN "swapget" ELSE "get"
           y == [task[t] EXCEPT !.at = to, !.held = rt.session]
<1>1. /\ route' = [route EXCEPT ![r] = x] /\ task' = [task EXCEPT ![t] = y]
  BY <1>0 DEF Sends
<1>2. /\ x \in Route /\ x.inFlight = route[r].inFlight /\ x.line = Tail(route[r].line)
      /\ x.session = rt.session /\ SessionFit(x) /\ x.rebuild = rt.rebuild
  BY DEF Route, SessionFit, Closing
<1>3. /\ y \in Task /\ y.on = r /\ y.at = to /\ y.tried = task[t].tried
      /\ y.tries = task[t].tries /\ y.failed = task[t].failed /\ y.gaveUp = task[t].gaveUp
      /\ y.held = rt.session
  <2>1. rt.session \in Sessions /\ to \in Stages
    BY DEF Route, Stages
  <2> QED
    BY <1>0, <2>1 DEF Task
<1>4. Fit(y) /\ CallFit(y)
  BY <1>0, <1>3 DEF Fit, CallFit
<1>5. y.at = "get" => y.held \notin x.closed \cup x.condemned
  BY <1>2, <1>3 DEF SessionFit
<1>6. y.at \notin Queued
  BY <1>3 DEF Queued, Holding
<1> HIDE DEF x, y, to
<1>7. /\ route'[r] = x /\ task'[t] = y
      /\ route' \in [Routes -> Route] /\ task' \in [Tasks -> Task]
      /\ \A q \in Routes \ {r} : route'[q] = route[q]
      /\ \A u \in Tasks \ {t} : task'[u] = task[u]
  BY <1>0, <1>1, <1>2, <1>3
<1>8. LineMoves(t, r)
  BY <1>0, <1>2, <1>3, <1>6, <1>7 DEF LineMoves
<1> HIDE DEF r
<1>9. route[r].inFlight \in Int
  BY <1>0 DEF Route
<1> QED
  BY <1>0, <1>2, <1>3, <1>4, <1>5, <1>7, <1>8, <1>9 DEF Moves, r

\* Failing gives the route back: the record of the route, ...
LEMMA FailedRoute ==
  ASSUME NEW rt \in Route, rt.inFlight - 1 \in 0..Cardinality(Tasks), NEW t \in Tasks
  PROVE  LET x == [MarkedFailed(t, rt) EXCEPT !.inFlight = @ - 1]
         IN  /\ x \in Route /\ x.rebuild /\ x.session = rt.session /\ x.line = rt.line
             /\ x.inFlight = rt.inFlight - 1
<1> DEFINE c == (rt.condemned \cup {rt.session}) \cap Held(t, rt.session) \cap Sessions
           d == rt.closed \cap Held(t, rt.session)
<1>1. c \in SUBSET Sessions /\ d \in SUBSET Sessions /\ Cooldown \in 0..Cooldown
  BY TransportAssumption DEF Route
<1> HIDE DEF c, d
<1> DEFINE x == [rt EXCEPT !.cool = Cooldown, !.warmed = FALSE, !.rebuild = TRUE,
                           !.condemned = c, !.closed = d, !.inFlight = rt.inFlight - 1]
<1>2. /\ x \in Route /\ x.rebuild /\ x.session = rt.session /\ x.line = rt.line
      /\ x.inFlight = rt.inFlight - 1
  BY <1>1 DEF Route
<1> QED
  BY <1>2 DEF c, d, MarkedFailed

\* ... and that of the task, whose call goes on or has had a failure on every route it could.
LEMMA FailedTask ==
  ASSUME IInv, NEW t \in Tasks, task[t].on \in Routes
  PROVE  LET y == GoesOn(t)
         IN  /\ y \in Task /\ Fit(y) /\ CallFit(y)
             /\ y.on = None /\ y.at \in {"idle", "reserve"}
<1> DEFINE r == task[t].on
           last == task[t].tries = MaxRetries
           at == IF last THEN "idle" ELSE "reserve"
           tried == IF last \/ task[t].tried = Routes THEN {} ELSE task[t].tried
           failed == task[t].failed \cup {r}
           y == [task[t] EXCEPT !.at = at, !.on = None, !.held = NoSession, !.tried = tried,
                                !.failed = failed, !.gaveUp = last]
<1>0. /\ task[t] \in Task /\ Fit(task[t]) /\ CallFit(task[t]) /\ r # None
      /\ task[t].tries \in 0..MaxRetries /\ MaxRetries \in Nat
      /\ task[t].tried \in SUBSET Routes /\ task[t].failed \in SUBSET Routes
  BY TransportAssumption DEF IInv, TypeOK, Task
<1>1. /\ at \in {"idle", "reserve"} /\ at \in Stages /\ tried \in SUBSET Routes
      /\ failed \in SUBSET Routes /\ last \in BOOLEAN
  BY <1>0 DEF Stages
<1>2. \/ failed = Routes
      \/ failed = task[t].tried /\ task[t].tries = Cardinality(task[t].tried)
  BY <1>0 DEF CallFit
<1>3. last /\ MaxRetries >= Cardinality(Routes) => failed = Routes
  <2> SUFFICES ASSUME last, MaxRetries >= Cardinality(Routes), failed = task[t].tried,
                      task[t].tries = Cardinality(task[t].tried)
               PROVE  task[t].tried = Routes
    BY <1>2
  <2>1. /\ Cardinality(task[t].tried) <= Cardinality(Routes)
        /\ Cardinality(Routes) = Cardinality(task[t].tried) => Routes = task[t].tried
        /\ Cardinality(Routes) \in Nat /\ Cardinality(task[t].tried) \in Nat
    BY <1>0, TransportAssumption, FS_Subset, FS_CardinalityType
  <2> QED
    BY <1>0, <2>1
<1>4. at = "reserve" => /\ task[t].tries < MaxRetries
                        /\ failed = Routes \/ (tried = failed /\ task[t].tries = Cardinality(tried))
  BY <1>0, <1>2
<1>5. at = "idle" <=> last
  OBVIOUS
<1> HIDE DEF r, at, tried, failed, last
<1>6. /\ y \in Task /\ y.on = None /\ y.at = at /\ y.tried = tried /\ y.failed = failed
      /\ y.tries = task[t].tries /\ y.gaveUp = last
  BY <1>0, <1>1 DEF Task
<1> HIDE DEF y
<1>7. Fit(y) /\ CallFit(y)
  BY <1>1, <1>3, <1>4, <1>6 DEF Fit, CallFit
<1> QED
  BY <1>1, <1>6, <1>7 DEF GoesOn, y, r, at, tried, failed, last

\* A failure mark, with its close and rebuild, is a move of the task that failed.
LEMMA FailedMoves ==
  ASSUME IInv, NEW t \in Tasks, task[t].at \notin {"idle", "reserve"}, NEW rt \in Route,
         Failed(t, rt), rt.session # NoSession, rt.inFlight = route[task[t].on].inFlight,
         \/ task[t].at \notin Queued /\ rt.line = route[task[t].on].line
         \/ /\ rt.line = Tail(route[task[t].on].line)
            /\ route[task[t].on].line # <<>> /\ route[task[t].on].line[1] = t
  PROVE  Moves(t, task[t].on)
<1> DEFINE r == task[t].on
<1>0. /\ r \in Routes /\ r # None /\ route[r] \in Route /\ task[t] \in Task
      /\ route \in [Routes -> Route] /\ task \in [Tasks -> Task]
      /\ rt.inFlight - 1 \in 0..Cardinality(Tasks)
  BY OnRoute DEF IInv, TypeOK
<1> DEFINE x == [MarkedFailed(t, rt) EXCEPT !.inFlight = @ - 1]
           y == GoesOn(t)
<1>1. /\ route' = [route EXCEPT ![r] = x] /\ x \in Route /\ x.rebuild
      /\ x.session = rt.session /\ x.line = rt.line /\ x.inFlight = rt.inFlight - 1
  BY <1>0, FailedRoute DEF Failed
<1>2. /\ task' = [task EXCEPT ![t] = y] /\ y \in Task /\ Fit(y) /\ CallFit(y)
      /\ y.on = None /\ y.at \in {"idle", "reserve"}
  BY <1>0, FailedTask DEF Failed
<1> HIDE DEF x, y
<1>3. /\ route'[r] = x /\ task'[t] = y
      /\ route' \in [Routes -> Route] /\ task' \in [Tasks -> Task]
      /\ \A q \in Routes \ {r} : route'[q] = route[q]
      /\ \A u \in Tasks \ {t} : task'[u] = task[u]
  BY <1>0, <1>1, <1>2
<1>4. LineMoves(t, r)
  BY <1>0, <1>1, <1>2, <1>3 DEF LineMoves
<1>5. route[r].inFlight \in Int /\ SessionFit(x) /\ y.at # "get"
  BY <1>0, <1>1, <1>2 DEF Route, SessionFit
<1> HIDE DEF r
<1> QED
  BY <1>0, <1>1, <1>2, <1>3, <1>4, <1>5 DEF Moves, r

-----------------------------------------------------------------------------
\* A step of a task that has no route and takes none.
LEMMA AloneMoves ==
  ASSUME IInv, NEW t \in Tasks, NEW r \in Routes, NEW y \in Task, UNCHANGED route,
         task' = [task EXCEPT ![t] = y], task[t].on = None, y.on = None, Fit(y), CallFit(y)
  PROVE  Moves(t, r)
<1>0. /\ route \in [Routes -> Route] /\ task \in [Tasks -> Task] /\ r # None
      /\ route[r].inFlight \in Int
  BY TransportAssumption DEF IInv, TypeOK, Route
<1>1. /\ task'[t] = y /\ task' \in [Tasks -> Task]
      /\ \A u \in Tasks \ {t} : task'[u] = task[u]
  BY <1>0
<1>2. SessionFit(route'[r]) /\ y.at # "get"
  BY DEF IInv, Fit
<1>3. LineMoves(t, r)
  BY <1>0, <1>1 DEF LineMoves
<1> QED
  BY <1>0, <1>1, <1>2, <1>3 DEF Moves

\* A call begins with nothing tried, and as many attempts to come as it may have.
LEMMA CallMoves ==
  ASSUME IInv, NEW t \in Tasks, Call(t)
  PROVE  \E r \in Routes : Moves(t, r)
<1> DEFINE y == [task[t] EXCEPT !.at = "reserve", !.calls = task[t].calls - 1, !.tried = {},
                                !.tries = 0, !.failed = {}, !.gaveUp = FALSE]
<1>0. /\ task \in [Tasks -> Task] /\ task[t] \in Task /\ Fit(task[t]) /\ CallFit(task[t])
      /\ task[t].at = "idle" /\ task[t].calls > 0 /\ UNCHANGED route
      /\ task' = [task EXCEPT ![t] = y]
  BY DEF Call, IInv, TypeOK
<1>1. task[t].on = None
  BY <1>0 DEF Fit
<1>2. /\ y \in Task /\ y.on = None /\ y.at = "reserve" /\ y.tried = {} /\ y.tries = 0
      /\ y.failed = {} /\ ~y.gaveUp
  <2>1. task[t].calls - 1 \in 0..MaxCalls /\ 0 \in 0..MaxRetries
    BY <1>0, TransportAssumption DEF Task
  <2> QED
    BY <1>0, <1>1, <2>1 DEF Task, Stages
<1>3. Fit(y) /\ CallFit(y)
  BY <1>2, FS_EmptySet, TransportAssumption DEF Fit, CallFit
<1> HIDE DEF y
<1> QED
  BY <1>0, <1>1, <1>2, <1>3, AloneMoves, TransportAssumption

\* A reservation is of a route the call has not tried.
LEMMA ReserveMoves ==
  ASSUME IInv, NEW t \in Tasks, Reserve(t)
  PROVE  \E r \in Routes : Moves(t, r)
<1>0. /\ route \in [Routes -> Route] /\ task \in [Tasks -> Task] /\ task[t] \in Task
      /\ Fit(task[t]) /\ CallFit(task[t]) /\ task[t].at = "reserve"
  BY DEF Reserve, IInv, TypeOK
<1>1. task[t].on = None /\ task[t].tries < MaxRetries
  BY <1>0 DEF Fit
<1>2. PICK r \in Best(t) :
        IF Wait(r) > 0
          THEN task' = [task EXCEPT ![t].nap = Wait(r)] /\ UNCHANGED route
          ELSE /\ task' = [task EXCEPT ![t].at = "line", ![t].on = r, ![t].tried = @ \cup {r},
                                       ![t].tries = @ + 1, ![t].warmups = 0]
               /\ route' = [route EXCEPT ![r].inFlight = @ + 1, ![r].gap = Delay,
                                         ![r].line = Append(@, t)]
  BY DEF Reserve
<1>3. r \in Routes /\ r \notin task[t].tried /\ r # None /\ route[r] \in Route
  BY <1>0, TransportAssumption DEF Best, Candidates
<1> SUFFICES Moves(t, r)
  BY <1>3
<1>4. CASE Wait(r) > 0
  <2> DEFINE y == [task[t] EXCEPT !.nap = Wait(r)]
  <2>1. task' = [task EXCEPT ![t] = y] /\ UNCHANGED route
    BY <1>0, <1>2, <1>4
  <2>2. Wait(r) \in Nat
    BY <1>3, TransportAssumption DEF Wait, Route
  <2>3. /\ y \in Task /\ y.on = None /\ y.at = "reserve" /\ y.tried = task[t].tried
        /\ y.tries = task[t].tries /\ y.failed = task[t].failed /\ y.gaveUp = task[t].gaveUp
    BY <1>0, <1>1, <2>2 DEF Task
  <2>4. Fit(y) /\ CallFit(y)
    BY <1>0, <1>1, <2>3 DEF Fit, CallFit
  <2> HIDE DEF y
  <2> QED
    BY <1>1, <1>3, <2>1, <2>3, <2>4, AloneMoves
<1>5. CASE ~(Wait(r) > 0)
  <2> DEFINE tried == task[t].tried \cup {r}
             y == [task[t] EXCEPT !.at = "line", !.on = r, !.tried = tried,
                                  !.tries = task[t].tries + 1, !.warmups = 0]
             x == [route[r] EXCEPT !.inFlight = route[r].inFlight + 1, !.gap = Delay,
                                   !.line = Append(route[r].line, t)]
  <2>1. task' = [task EXCEPT ![t] = y] /\ route' = [route EXCEPT ![r] = x]
    BY <1>0, <1>2, <1>3, <1>5
  <2>2. /\ task[t].tries \in Nat /\ task[t].tries + 1 \in 0..MaxRetries
        /\ 0 \in 0..WarmupTries /\ tried \in SUBSET Routes
        /\ IsFiniteSet(task[t].tried) /\ Cardinality(tried) = Cardinality(task[t].tried) + 1
        /\ Cardinality(task[t].tried) \in Nat
    <3>1. task[t].tried \in SUBSET Routes /\ task[t].tries \in 0..MaxRetries
      BY <1>0 DEF Task
    <3>2. IsFiniteSet(task[t].tried) /\ Cardinality(task[t].tried) \in Nat
      BY <3>1, TransportAssumption, FS_Subset, FS_CardinalityType
    <3>3. Cardinality(tried) = Cardinality(task[t].tried) + 1
      BY <1>3, <3>2, FS_AddElement
    <3> QED
      BY <1>1, <1>3, <3>1, <3>2, <3>3, TransportAssumption
  <2>3. /\ y \in Task /\ y.on = r /\ y.at = "line" /\ y.tried = tried /\ y.warmups = 0
        /\ y.tries = task[t].tries + 1 /\ y.failed = task[t].failed
        /\ y.gaveUp = task[t].gaveUp
    BY <1>0, <1>3, <2>2 DEF Task, Stages
  <2>4. Fit(y) /\ CallFit(y)
    BY <1>0, <1>3, <2>2, <2>3 DEF Fit, CallFit
  <2>5. route[r].inFlight + 1 \in 0..Cardinality(Tasks)
    <3>0. IsFiniteSet(Holders(r)) /\ Cardinality(Holders(r)) \in Nat
      BY HoldersFinite
    <3>1. /\ route[r].inFlight = Cardinality(Holders(r)) /\ t \notin Holders(r)
      BY <1>1, <1>3 DEF IInv, InFlightExact, Holders
    <3>2. /\ Holders(r) \cup {t} \in SUBSET Tasks
          /\ Cardinality(Holders(r) \cup {t}) = Cardinality(Holders(r)) + 1
      <4>1. Holders(r) \cup {t} \in SUBSET Tasks
        BY DEF Holders
      <4> QED
        BY <3>0, <3>1, <4>1, FS_AddElement
    <3>3. Cardinality(Holders(r) \cup {t}) <= Cardinality(Tasks) /\ Cardinality(Tasks) \in Nat
      BY <3>2, TransportAssumption, FS_Subset, FS_CardinalityType
    <3> QED
      BY <3>0, <3>1, <3>2, <3>3
  <2>6. /\ x \in Route /\ x.inFlight = route[r].inFlight + 1 /\ x.session = route[r].session
        /\ x.line = Append(route[r].line, t) /\ SessionFit(x)
    <3>1. Append(route[r].line, t) \in Seq(Tasks) /\ Delay \in 0..Delay
      BY <1>3, TransportAssumption DEF Route
    <3>2. SessionFit(route[r])
      BY <1>3 DEF IInv
    <3> QED
      BY <1>3, <2>5, <3>1, <3>2 DEF Route, SessionFit
  <2> HIDE DEF x, y, tried
  <2>7. /\ route'[r] = x /\ task'[t] = y
        /\ route' \in [Routes -> Route] /\ task' \in [Tasks -> Task]
        /\ \A q \in Routes \ {r} : route'[q] = route[q]
        /\ \A u \in Tasks \ {t} : task'[u] = task[u]
    BY <1>0, <1>3, <2>1, <2>3, <2>6
  <2>8. LineMoves(t, r)
    BY <1>1, <1>3, <2>3, <2>6, <2>7 DEF LineMoves, Queued, Holding
  <2>9. route[r].inFlight \in Int
    BY <1>3 DEF Route
  <2> QED
    BY <1>1, <1>3, <2>3, <2>4, <2>6, <2>7, <2>8, <2>9 DEF Moves
<1> QED
  BY <1>4, <1>5

-----------------------------------------------------------------------------
\* The head of the line finds no session, one to replace, one to warm up, or one to use.
LEMMA EnterMoves ==
  ASSUME IInv, NEW t \in Tasks, Enter(t)
  PROVE  Moves(t, task[t].on)
<1> DEFINE r == task[t].on
           rt == route[r]
<1>0. /\ r \in Routes /\ r # None /\ rt \in Route /\ task[t] \in Task
      /\ task[t].at = "line" /\ task[t].at \in Queued /\ rt.line # <<>>
      /\ route \in [Routes -> Route] /\ task \in [Tasks -> Task]
      /\ Fit(task[t]) /\ CallFit(task[t]) /\ SessionFit(rt)
  BY OnRoute DEF Enter, Queued, IInv, TypeOK
<1>1. rt.line[1] = t /\ rt.line \in Seq(Tasks)
  BY <1>0 DEF Enter, Route
<1>2. task[t].warmups < WarmupTries
  BY <1>0, TransportAssumption DEF Fit
<1>3. CASE rt.session = NoSession /\ LET new == Rebuilt(t, rt) IN WarmsUp(t, new, new.session)
  BY <1>0, <1>1, <1>2, <1>3, RebuiltFit, WarmsUpMoves DEF Sessions, NoSession
<1>4. CASE /\ rt.session # NoSession /\ rt.rebuild
           /\ route' = [route EXCEPT ![r] = Closing(rt)]
           /\ task' = [task EXCEPT ![t].at = "swap", ![t].held = rt.session]
  <2> DEFINE x == Closing(rt)
             y == [task[t] EXCEPT !.at = "swap", !.held = rt.session]
  <2>1. route' = [route EXCEPT ![r] = x] /\ task' = [task EXCEPT ![t] = y]
    BY <1>0, <1>4
  <2>2. rt.session \in Sessions
    BY <1>0, <1>4 DEF Route
  <2>3. /\ x \in Route /\ x.session = rt.session /\ x.inFlight = rt.inFlight
        /\ x.line = rt.line /\ SessionFit(x)
    BY <1>0, <1>4, <2>2 DEF Route, Closing, SessionFit
  <2>4. /\ y \in Task /\ y.on = r /\ y.at = "swap" /\ y.tried = task[t].tried
        /\ y.warmups = task[t].warmups /\ y.tries = task[t].tries
        /\ y.failed = task[t].failed /\ y.gaveUp = task[t].gaveUp
    BY <1>0, <2>2 DEF Task, Stages
  <2>5. Fit(y) /\ CallFit(y)
    BY <1>0, <2>4 DEF Fit, CallFit
  <2> HIDE DEF x, y
  <2>6. /\ route'[r] = x /\ task'[t] = y
        /\ route' \in [Routes -> Route] /\ task' \in [Tasks -> Task]
        /\ \A q \in Routes \ {r} : route'[q] = route[q]
        /\ \A u \in Tasks \ {t} : task'[u] = task[u]
    BY <1>0, <2>1, <2>3, <2>4
  <2>7. LineMoves(t, r)
    BY <1>0, <1>1, <2>3, <2>4, <2>6 DEF LineMoves, Queued, Holding
  <2>8. route[r].inFlight \in Int
    BY <1>0 DEF Route
  <2> HIDE DEF r
  <2> QED
    BY <1>0, <1>4, <2>3, <2>4, <2>5, <2>6, <2>7, <2>8 DEF Moves, r
<1>5. CASE rt.session # NoSession /\ ~rt.rebuild /\ ~rt.warmed /\ WarmsUp(t, rt, rt.session)
  <2>1. rt.session \in Sessions
    BY <1>0, <1>5 DEF Route
  <2> QED
    BY <1>0, <1>1, <1>2, <1>5, <2>1, WarmsUpMoves
<1>6. CASE rt.session # NoSession /\ ~rt.rebuild /\ rt.warmed /\ Sends(t, Unlocked(rt))
  <2> DEFINE x == Unlocked(rt)
  <2>1. /\ x \in Route /\ x.session = rt.session /\ x.inFlight = rt.inFlight
        /\ x.line = Tail(rt.line) /\ SessionFit(x)
    BY <1>0, UnlockedFit
  <2>2. Sends(t, x) /\ x.session # NoSession
    BY <1>6, <2>1
  <2> HIDE DEF x
  <2> QED
    BY <1>0, <1>1, <2>1, <2>2, SendsMoves
<1> QED
  BY <1>3, <1>4, <1>5, <1>6 DEF Enter

\* The steps of a task that holds the lock.
LEMMA HoldingMoves ==
  ASSUME IInv, NEW t \in Tasks, Swap(t) \/ Warmed(t) \/ WarmupFails(t) \/ WarmAgain(t)
  PROVE  Moves(t, task[t].on)
<1> DEFINE r == task[t].on
           rt == route[r]
<1>0. /\ task[t].at \in Holding /\ task[t].at \in Queued
      /\ task[t].at \notin {"idle", "reserve"}
  BY DEF Swap, Warmed, WarmupFails, WarmAgain, Holding, Queued
<1>1. /\ r \in Routes /\ r # None /\ rt \in Route /\ task[t] \in Task
      /\ rt.line # <<>> /\ rt.line[1] = t /\ rt.line \in Seq(Tasks)
      /\ rt.session \in Sessions /\ rt.session # NoSession
      /\ route \in [Routes -> Route] /\ task \in [Tasks -> Task]
      /\ Fit(task[t]) /\ CallFit(task[t]) /\ SessionFit(rt)
  BY <1>0, OnRoute DEF IInv, TypeOK, Holding, Route, Sessions, NoSession
<1>2. CASE Swap(t)
  <2>1. task[t].warmups < WarmupTries
    BY <1>1, <1>2, TransportAssumption DEF Fit, Swap
  <2> QED
    BY <1>0, <1>1, <1>2, <2>1, RebuiltFit, WarmsUpMoves DEF Swap, Sessions, NoSession
<1>3. CASE Warmed(t)
  <2> DEFINE x == [Unlocked(rt) EXCEPT !.warmed = TRUE]
  <2>1. /\ x \in Route /\ x.session = rt.session /\ x.inFlight = rt.inFlight
        /\ x.line = Tail(rt.line) /\ SessionFit(x)
    <3> DEFINE u == Unlocked(rt)
    <3>1. /\ u \in Route /\ u.session = rt.session /\ u.inFlight = rt.inFlight
          /\ u.line = Tail(rt.line) /\ SessionFit(u)
      BY <1>1, UnlockedFit
    <3> HIDE DEF u
    <3>2. /\ [u EXCEPT !.warmed = TRUE] \in Route /\ [u EXCEPT !.warmed = TRUE].session = u.session
          /\ [u EXCEPT !.warmed = TRUE].inFlight = u.inFlight
          /\ [u EXCEPT !.warmed = TRUE].line = u.line /\ SessionFit([u EXCEPT !.warmed = TRUE])
      BY <3>1 DEF Route, SessionFit
    <3> QED
      BY <3>1, <3>2 DEF u
  <2>2. Sends(t, x)
    BY <1>3 DEF Warmed
  <2> HIDE DEF x
  <2> QED
    BY <1>0, <1>1, <2>1, <2>2, SendsMoves
<1>4. CASE WarmupFails(t) /\ task[t].warmups < WarmupTries
  <2> DEFINE y == [task[t] EXCEPT !.at = "backoff", !.nap = 1]
  <2>1. UNCHANGED route /\ task' = [task EXCEPT ![t] = y]
    BY <1>1, <1>4 DEF WarmupFails
  <2>2. /\ y \in Task /\ y.on = r /\ y.at = "backoff" /\ y.tried = task[t].tried
        /\ y.warmups = task[t].warmups /\ y.tries = task[t].tries
        /\ y.failed = task[t].failed /\ y.gaveUp = task[t].gaveUp /\ y.held = task[t].held
    BY <1>1 DEF Task, Stages
  <2>3. Fit(y) /\ CallFit(y)
    BY <1>1, <1>4, <2>2 DEF Fit, CallFit, WarmupFails
  <2> HIDE DEF y
  <2>4. /\ route'[r] = rt /\ task'[t] = y
        /\ route' \in [Routes -> Route] /\ task' \in [Tasks -> Task]
        /\ \A q \in Routes \ {r} : route'[q] = route[q]
        /\ \A u \in Tasks \ {t} : task'[u] = task[u]
    BY <1>1, <2>1, <2>2
  <2>5. LineMoves(t, r)
    BY <1>0, <1>1, <2>2, <2>4 DEF LineMoves, Queued, Holding
  <2>6. rt.inFlight \in Int
    BY <1>1 DEF Route
  <2> HIDE DEF r
  <2> QED
    BY <1>1, <2>2, <2>3, <2>4, <2>5, <2>6 DEF Moves, r
<1>5. CASE WarmupFails(t) /\ ~(task[t].warmups < WarmupTries)
  <2> DEFINE x == Unlocked(rt)
  <2>1. /\ x \in Route /\ x.session = rt.session /\ x.inFlight = rt.inFlight
        /\ x.line = Tail(rt.line)
    BY <1>1, UnlockedFit
  <2>2. Failed(t, x)
    BY <1>5 DEF WarmupFails
  <2> HIDE DEF x
  <2> QED
    BY <1>0, <1>1, <2>1, <2>2, FailedMoves
<1>6. CASE WarmAgain(t)
  <2>1. task[t].warmups < WarmupTries /\ task[t].held \in Sessions
    BY <1>1, <1>6 DEF Fit, WarmAgain, Task
  <2> QED
    BY <1>0, <1>1, <1>6, <2>1, WarmsUpMoves DEF WarmAgain
<1> QED
  BY <1>2, <1>3, <1>4, <1>5, <1>6

\* The steps of a task past the lock.
LEMMA SentMoves ==
  ASSUME IInv, NEW t \in Tasks, SwapGet(t) \/ Succeeds(t) \/ Fails(t)
  PROVE  Moves(t, task[t].on)
<1> DEFINE r == task[t].on
           rt == route[r]
<1>0. task[t].at \in {"swapget", "get"} /\ task[t].at \notin {"idle", "reserve"}
  BY DEF SwapGet, Succeeds, Fails
<1>1. /\ r \in Routes /\ r # None /\ rt \in Route /\ task[t] \in Task
      /\ rt.session \in Sessions /\ rt.session # NoSession /\ task[t].at \notin Queued
      /\ route \in [Routes -> Route] /\ task \in [Tasks -> Task]
      /\ Fit(task[t]) /\ CallFit(task[t]) /\ SessionFit(rt)
      /\ rt.inFlight \in Int /\ rt.inFlight - 1 \in 0..Cardinality(Tasks)
  BY <1>0, OnRoute DEF IInv, TypeOK, Queued, Holding, Route, Sessions, NoSession
<1>2. CASE SwapGet(t)
  <2> DEFINE x == Rebuilt(t, rt)
             y == [task[t] EXCEPT !.at = "get", !.held = x.session]
  <2>1. /\ x \in Route /\ x.session \in Sessions /\ SessionFit(x)
        /\ x.session \notin x.closed \cup x.condemned
        /\ x.inFlight = rt.inFlight /\ x.line = rt.line /\ x.session # NoSession
    BY <1>1, RebuiltFit DEF Sessions, NoSession
  <2>2. route' = [route EXCEPT ![r] = x] /\ task' = [task EXCEPT ![t] = y]
    BY <1>1, <1>2 DEF SwapGet
  <2> HIDE DEF x
  <2>3. /\ y \in Task /\ y.on = r /\ y.at = "get" /\ y.tried = task[t].tried
        /\ y.tries = task[t].tries /\ y.failed = task[t].failed /\ y.gaveUp = task[t].gaveUp
        /\ y.held = x.session
    BY <1>1, <2>1 DEF Task, Stages
  <2>4. Fit(y) /\ CallFit(y)
    BY <1>1, <2>3 DEF Fit, CallFit
  <2> HIDE DEF y
  <2>5. /\ route'[r] = x /\ task'[t] = y
        /\ route' \in [Routes -> Route] /\ task' \in [Tasks -> Task]
        /\ \A q \in Routes \ {r} : route'[q] = route[q]
        /\ \A u \in Tasks \ {t} : task'[u] = task[u]
    BY <1>1, <2>1, <2>2, <2>3
  <2>6. LineMoves(t, r)
    BY <1>1, <2>1, <2>3, <2>5 DEF LineMoves, Queued, Holding
  <2> HIDE DEF r
  <2> QED
    BY <1>1, <2>1, <2>3, <2>4, <2>5, <2>6 DEF Moves, r
<1>3. CASE Succeeds(t)
  <2> DEFINE used == Held(t, rt.session)
             x == [rt EXCEPT !.cool = 0, !.inFlight = rt.inFlight - 1,
                             !.closed = rt.closed \cap used, !.condemned = rt.condemned \cap used]
             y == [task[t] EXCEPT !.at = "idle", !.on = None, !.held = NoSession, !.tried = {}]
  <2>1. route' = [route EXCEPT ![r] = x] /\ task' = [task EXCEPT ![t] = y]
    BY <1>1, <1>3 DEF Succeeds
  <2> HIDE DEF used
  <2>2. /\ x \in Route /\ x.session = rt.session /\ x.inFlight = rt.inFlight - 1
        /\ x.line = rt.line /\ SessionFit(x)
    <3> DEFINE c == rt.closed \cap used
               d == rt.condemned \cap used
    <3>1. c \in SUBSET Sessions /\ d \in SUBSET Sessions /\ 0 \in 0..Cooldown
      BY <1>1, TransportAssumption DEF Route
    <3>2. SessionFit(rt) /\ c \subseteq rt.closed /\ d \subseteq rt.condemned
      BY <1>1
    <3> HIDE DEF c, d
    <3>3. x = [rt EXCEPT !.cool = 0, !.inFlight = rt.inFlight - 1, !.closed = c, !.condemned = d]
      BY DEF c, d
    <3>4. /\ x \in Route /\ x.session = rt.session /\ x.inFlight = rt.inFlight - 1
          /\ x.line = rt.line /\ x.rebuild = rt.rebuild /\ x.closed = c /\ x.condemned = d
      BY <1>1, <3>1, <3>3 DEF Route
    <3> QED
      BY <3>2, <3>4 DEF SessionFit
  <2>3. /\ y \in Task /\ y.on = None /\ y.at = "idle" /\ y.failed = task[t].failed
        /\ y.gaveUp = task[t].gaveUp
    BY <1>1 DEF Task, Stages
  <2>4. Fit(y) /\ CallFit(y)
    BY <1>1, <2>3 DEF Fit, CallFit
  <2> HIDE DEF x, y
  <2>5. /\ route'[r] = x /\ task'[t] = y
        /\ route' \in [Routes -> Route] /\ task' \in [Tasks -> Task]
        /\ \A q \in Routes \ {r} : route'[q] = route[q]
        /\ \A u \in Tasks \ {t} : task'[u] = task[u]
    BY <1>1, <2>1, <2>2, <2>3
  <2>6. LineMoves(t, r)
    BY <1>1, <2>2, <2>3, <2>5 DEF LineMoves
  <2> HIDE DEF r
  <2> QED
    BY <1>1, <2>2, <2>3, <2>4, <2>5, <2>6 DEF Moves, r
<1>4. CASE Fails(t)
  <2>1. Failed(t, rt)
    BY <1>4 DEF Fails
  <2> QED
    BY <1>0, <1>1, <2>1, FailedMoves
<1> QED
  BY <1>2, <1>3, <1>4

\* Every step of a task is a move.
LEMMA TaskMoves ==
  ASSUME IInv, NEW t \in Tasks, Call(t) \/ Step(t)
  PROVE  \E r \in Routes : Moves(t, r)
<1>1. CASE Call(t) \/ Reserve(t)
  BY <1>1, CallMoves, ReserveMoves
<1>2. CASE ~(Call(t) \/ Reserve(t))
  <2>1. task[t].at \notin {"idle", "reserve"}
    BY <1>2 DEF Step, Enter, Swap, Warmed, WarmupFails, WarmAgain, SwapGet, Succeeds, Fails
  <2>2. Moves(t, task[t].on)
    BY <1>2, EnterMoves, HoldingMoves, SentMoves DEF Step
  <2> QED
    BY <2>1, <2>2, OnRoute
<1> QED
  BY <1>1, <1>2

-----------------------------------------------------------------------------
\* The first states satisfy the invariant.
LEMMA InitFit == Init => IInv
<1> SUFFICES ASSUME Init PROVE IInv
  OBVIOUS
<1> USE TransportAssumption DEF Init
<1>1. Cardinality(Tasks) \in Nat /\ Cardinality({}) = 0
  BY FS_CardinalityType, FS_EmptySet
<1>2. TypeOK
  BY <1>1 DEF TypeOK, Route, Task, Stages
<1>3. \A t \in Tasks : Fit(task[t]) /\ CallFit(task[t])
  BY <1>1 DEF Fit, CallFit
<1>4. \A r \in Routes : SessionFit(route[r])
  BY DEF SessionFit
<1>5. Seated /\ LineFit
  BY DEF Seated, LineFit, Queued, Holding
<1>6. InFlightExact
  <2> SUFFICES ASSUME NEW r \in Routes
               PROVE  0 = Cardinality({t \in Tasks : task[t].on = r})
    BY DEF InFlightExact
  <2>1. {t \in Tasks : task[t].on = r} = {}
    OBVIOUS
  <2> QED
    BY <1>1, <2>1
<1> QED
  BY <1>2, <1>3, <1>4, <1>5, <1>6 DEF IInv

\* Time passing changes cool-downs, spacings and naps alone.
LEMMA TickFit ==
  ASSUME IInv, Tick
  PROVE  IInv' /\ \A t \in Tasks : task'[t].at = task[t].at
<1>0. route \in [Routes -> Route] /\ task \in [Tasks -> Task]
  BY DEF IInv, TypeOK
<1>1. /\ route' \in [Routes -> Route]
      /\ \A r \in Routes : /\ route'[r].session = route[r].session
                           /\ route'[r].rebuild = route[r].rebuild
                           /\ route'[r].closed = route[r].closed
                           /\ route'[r].condemned = route[r].condemned
                           /\ route'[r].inFlight = route[r].inFlight
                           /\ route'[r].line = route[r].line
  <2> SUFFICES ASSUME NEW r \in Routes
               PROVE  LET x == [route[r] EXCEPT !.cool = Less(@), !.gap = Less(@)] IN
                      /\ x \in Route /\ x.session = route[r].session
                      /\ x.rebuild = route[r].rebuild /\ x.closed = route[r].closed
                      /\ x.condemned = route[r].condemned /\ x.inFlight = route[r].inFlight
                      /\ x.line = route[r].line
    BY <1>0 DEF Tick
  <2>1. Less(route[r].cool) \in 0..Cooldown /\ Less(route[r].gap) \in 0..Delay
    BY <1>0, TransportAssumption DEF Less, Route
  <2> QED
    BY <1>0, <2>1 DEF Route
<1>2. /\ task' \in [Tasks -> Task]
      /\ \A t \in Tasks : \E n \in Nat : task'[t] = [task[t] EXCEPT !.nap = n]
  <2> SUFFICES ASSUME NEW t \in Tasks
               PROVE  Less(task[t].nap) \in Nat /\ [task[t] EXCEPT !.nap = Less(@)] \in Task
    BY <1>0 DEF Tick
  <2>1. Less(task[t].nap) \in Nat
    BY <1>0 DEF Less, Task
  <2> QED
    BY <1>0, <2>1 DEF Task
<1>3. \A t \in Tasks : /\ task'[t].on = task[t].on /\ task'[t].at = task[t].at
                       /\ task'[t].tried = task[t].tried /\ task'[t].tries = task[t].tries
                       /\ task'[t].failed = task[t].failed /\ task'[t].gaveUp = task[t].gaveUp
                       /\ task'[t].held = task[t].held /\ task'[t].warmups = task[t].warmups
  BY <1>0, <1>2 DEF Task
<1>4. \A t \in Tasks : Fit(task'[t]) /\ CallFit(task'[t])
  BY <1>3 DEF IInv, Fit, CallFit
<1>5. \A r \in Routes : SessionFit(route'[r])
  BY <1>1 DEF IInv, SessionFit
<1>6. Seated'
  BY <1>1, <1>3 DEF IInv, Seated
<1>7. LineFit'
  <2>1. \A r \in Routes : \A i \in 1..Len(route[r].line) : route[r].line[i] \in Tasks
    BY <1>0 DEF Route
  <2> QED
    BY <1>1, <1>3, <2>1 DEF IInv, LineFit
<1>8. InFlightExact'
  <2> SUFFICES ASSUME NEW r \in Routes
               PROVE  route'[r].inFlight = Cardinality(Holders(r)')
    BY DEF InFlightExact, Holders
  <2>1. Holders(r)' = Holders(r) /\ route[r].inFlight = Cardinality(Holders(r))
    BY <1>3 DEF Holders, IInv, InFlightExact
  <2> QED
    BY <1>1, <2>1
<1> QED
  BY <1>1, <1>2, <1>3, <1>4, <1>5, <1>6, <1>7, <1>8 DEF IInv, TypeOK, Fit, CallFit, SessionFit

\* Every step keeps the invariant.
LEMMA StepFit == IInv /\ [Next]_vars => IInv'
<1> SUFFICES ASSUME IInv, [Next]_vars PROVE IInv'
  OBVIOUS
<1>1. ASSUME NEW t \in Tasks, Call(t) \/ Step(t) PROVE IInv'
  BY <1>1, TaskMoves, MovesKeep
<1>2. CASE Tick
  BY <1>2, TickFit
<1>3. CASE UNCHANGED vars
  BY <1>3 DEF vars, IInv, TypeOK, Fit, CallFit, SessionFit, Seated, LineFit, InFlightExact
<1> QED
  BY <1>1, <1>2, <1>3 DEF Next

\* The strengthened invariant holds throughout.
THEOREM Invariance == Spec => []IInv
BY InitFit, StepFit, PTL DEF Spec

\* The types hold: in particular no count leaves its bounds.
THEOREM TypeCorrect == Spec => []TypeOK
<1>1. IInv => TypeOK
  BY DEF IInv
<1> QED
  BY <1>1, Invariance, PTL

\* However attempts end, a route's in-flight count is the number of tasks that hold it.
THEOREM CountsExact == Spec => []InFlightExact
<1>1. IInv => InFlightExact
  BY DEF IInv
<1> QED
  BY <1>1, Invariance, PTL

\* A call that ends without a page has had a failure on every route, if it may try as many.
THEOREM AllRoutesTried == Spec => []GivesUpOnlyAfterAll
<1>1. IInv => GivesUpOnlyAfterAll
  BY DEF IInv, CallFit, GivesUpOnlyAfterAll
<1> QED
  BY <1>1, Invariance, PTL

\* A route's lock is one task's: no two replace, warm up or wait to warm up its session at a
\* time (_ensure_async_route_ready).
OneHolder ==
  \A t, u \in Tasks :
    task[t].at \in Holding /\ task[u].at \in Holding /\ task[t].on = task[u].on => t = u

\* The lock of a route is one task's throughout.
THEOREM LockExcludes == Spec => []OneHolder
<1>1. IInv => OneHolder
  <2> SUFFICES ASSUME IInv, NEW t \in Tasks, NEW u \in Tasks, task[t].at \in Holding,
                      task[u].at \in Holding, task[t].on = task[u].on
               PROVE  t = u
    BY DEF OneHolder
  <2>1. task[t].at \notin {"idle", "reserve"} /\ task[u].at \notin {"idle", "reserve"}
    BY DEF Holding
  <2>2. route[task[t].on].line[1] = t /\ route[task[u].on].line[1] = u
    BY <2>1, OnRoute
  <2> QED
    BY <2>2
<1> QED
  BY <1>1, Invariance, PTL

\* No page is asked for on a session whose close has begun or that failed.
THEOREM SoundSends == Spec => SendsOnSoundSession
<1>1. ASSUME IInv, [Next]_vars, NEW t \in Tasks, task[t].at # "get", task'[t].at = "get"
      PROVE  task'[t].held \notin route'[task'[t].on].closed \cup route'[task'[t].on].condemned
  <2>1. ~Tick
    BY <1>1, TickFit
  <2>2. PICK u \in Tasks : Call(u) \/ Step(u)
    BY <1>1, <2>1 DEF Next, vars
  <2>3. PICK r \in Routes : Moves(u, r)
    BY <1>1, <2>2, TaskMoves
  <2>4. u = t
    BY <1>1, <2>3 DEF Moves
  <2> QED
    BY <1>1, <2>3, <2>4 DEF Moves
<1>2. IInv /\ [Next]_vars =>
        [\A t \in Tasks :
           task[t].at # "get" /\ task'[t].at = "get" =>
             LET rt == route'[task'[t].on] IN task'[t].held \notin rt.closed \cup rt.condemned]_vars
  BY <1>1
<1> QED
  BY <1>2, Invariance, PTL DEF Spec, SendsOnSoundSession
=============================================================================
