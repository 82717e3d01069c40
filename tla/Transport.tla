------------------------------ MODULE Transport ------------------------------
(***************************************************************************)
(* The asynchronous side of the HTTP transport, http.py: the tasks of a    *)
(* discovery run share a pool of routes, each with one session that is     *)
(* warmed up before it is used and rebuilt after a failure.                *)
(*                                                                         *)
(* The tasks share one event loop.  A step of a task runs from one await   *)
(* that suspends it to the next; the pool lock is never held across one,   *)
(* so taking it is not a step.  Times are kept in ticks to come.           *)
(*                                                                         *)
(* Left out: the counters nobody reads, the request counts and the index   *)
(* that break ties between equally good routes (any may be taken), and     *)
(* what a closed session answers (anything).                               *)
(***************************************************************************)
EXTENDS Integers, FiniteSets, Sequences

CONSTANTS
  Routes,       \* the direct route, or one a proxy
  Tasks,        \* callers at work at a time: the discovery's semaphore
  MaxCalls,     \* calls of get_text_async a task makes
  MaxRetries,   \* attempts a call may take
  WarmupTries,  \* attempts a warm-up may take
  Delay,        \* ticks between two reservations of a route
  Cooldown,     \* ticks a failed route is left alone
  None          \* no route

ASSUME TransportAssumption ==
  /\ IsFiniteSet(Routes) /\ Routes # {} /\ None \notin Routes
  /\ IsFiniteSet(Tasks)
  /\ MaxCalls \in Nat /\ MaxRetries \in Nat \ {0} /\ WarmupTries \in Nat \ {0}
  /\ Delay \in Nat /\ Cooldown \in Nat \ {0}

NoSession == 0
Sessions == 1 .. (Cardinality(Tasks) + 1)    \* enough to tell those in use apart

Stages == {"idle", "reserve", "line", "swap", "warming", "backoff", "swapget", "get"}

Route == [session : Sessions \cup {NoSession}, closed : SUBSET Sessions,
          condemned : SUBSET Sessions, rebuild : BOOLEAN, warmed : BOOLEAN,
          cool : 0..Cooldown, gap : 0..Delay, inFlight : 0..Cardinality(Tasks),
          line : Seq(Tasks)]

Task == [at : Stages, on : Routes \cup {None}, tried : SUBSET Routes, tries : 0..MaxRetries,
         nap : Nat, held : Sessions \cup {NoSession}, warmups : 0..WarmupTries,
         calls : 0..MaxCalls, failed : SUBSET Routes, gaveUp : BOOLEAN]

VARIABLES
  route,   \* session, whether it must be rebuilt and is warm, cool-down, spacing, the tasks
           \* that hold it, its lock's queue with the owner first; history: the sessions
           \* whose close began, and those current when a failure was marked
  task     \* a caller: where it waits, its route, the routes it has tried, the session it
           \* waits on; history: routes that failed this call, and whether it gave up

vars == <<route, task>>

Init ==
  /\ route = [r \in Routes |->
       [session |-> NoSession, closed |-> {}, condemned |-> {}, rebuild |-> FALSE,
        warmed |-> FALSE, cool |-> 0, gap |-> 0, inFlight |-> 0, line |-> <<>>]]
  /\ task = [t \in Tasks |->
       [at |-> "idle", on |-> None, tried |-> {}, tries |-> 0, nap |-> 0,
        held |-> NoSession, warmups |-> 0, calls |-> MaxCalls, failed |-> {},
        gaveUp |-> FALSE]]

\* Sleepers, cool-downs and spacings get a tick nearer their end.
Less(n) == IF n > 0 THEN n - 1 ELSE 0

Tick ==
  /\ \/ \E r \in Routes : route[r].cool > 0 \/ route[r].gap > 0
     \/ \E t \in Tasks : task[t].nap > 0
  /\ route' = [r \in Routes |-> [route[r] EXCEPT !.cool = Less(@), !.gap = Less(@)]]
  /\ task' = [t \in Tasks |-> [task[t] EXCEPT !.nap = Less(@)]]

\* get_text_async begins its first attempt.
Call(t) ==
  /\ task[t].at = "idle"
  /\ task[t].calls > 0
  /\ task' = [task EXCEPT ![t].at = "reserve", ![t].calls = @ - 1, ![t].tried = {},
                          ![t].tries = 0, ![t].failed = {}, ![t].gaveUp = FALSE]
  /\ UNCHANGED route

\* Mutant: the routes the call has tried are candidates again.
CandidatesAll(t) ==
  LET active == {r \in Routes : route[r].cool = 0} IN IF active # {} THEN active ELSE Routes

\* _candidate_routes
Candidates(t) ==
  LET others == Routes \ task[t].tried
      active == {r \in others : route[r].cool = 0}
  IN  IF active # {} THEN active ELSE others

Wait(r) == IF route[r].cool > 0 THEN route[r].cool ELSE route[r].gap

Best(t) ==
  {r \in Candidates(t) : \A q \in Candidates(t) :
     \/ Wait(r) < Wait(q)
     \/ Wait(r) = Wait(q) /\ route[r].inFlight <= route[q].inFlight}

\* _reserve_async_route: the best candidate is taken if it is free of any wait, and slept for
\* if not.  A task that has its route stands in line for the route's lock.
Reserve(t) ==
  /\ task[t].at = "reserve"
  /\ task[t].nap = 0
  /\ \E r \in Best(t) :
       IF Wait(r) > 0
         THEN task' = [task EXCEPT ![t].nap = Wait(r)] /\ UNCHANGED route
         ELSE /\ task' = [task EXCEPT ![t].at = "line", ![t].on = r, ![t].tried = @ \cup {r},
                                      ![t].tries = @ + 1, ![t].warmups = 0]
              /\ route' = [route EXCEPT ![r].inFlight = @ + 1, ![r].gap = Delay,
                                        ![r].line = Append(@, t)]

\* The sessions in use besides those task t waits on, s among them.  What became of the
\* others is forgotten, and their numbers are used again.
Held(t, s) == {task[u].held : u \in {u \in Tasks \ {t} : task[u].on = task[t].on}} \cup {s}

\* The route with a new session in place of the one it had.
Rebuilt(t, rt) ==
  LET s == CHOOSE n \in Sessions \ Held(t, rt.session) : TRUE
  IN  [rt EXCEPT !.session = s, !.rebuild = FALSE, !.warmed = FALSE,
                 !.closed = @ \ {s}, !.condemned = @ \ {s}]

\* Mutant: the mark is taken back before the old session is closed rather than after.
ClosingUnmarked(rt) == [rt EXCEPT !.closed = @ \cup {rt.session}, !.rebuild = FALSE]

\* _ensure_async_session awaits the close of a session that must be rebuilt.
Closing(rt) == [rt EXCEPT !.closed = @ \cup {rt.session}]

\* A GET of the home page on session s, under the route's lock.
WarmsUp(t, rt, s) ==
  /\ route' = [route EXCEPT ![task[t].on] = [rt EXCEPT !.gap = Delay]]
  /\ task' = [task EXCEPT ![t].at = "warming", ![t].held = s, ![t].warmups = @ + 1]

\* _async_get asks for the session again, now outside the lock, and sends.
Sends(t, rt) ==
  LET closes == rt.rebuild IN
  /\ route' = [route EXCEPT ![task[t].on] = IF closes THEN Closing(rt) ELSE rt]
  /\ task' = [task EXCEPT ![t].at = IF closes THEN "swapget" ELSE "get",
                          ![t].held = rt.session]

Unlocked(rt) == [rt EXCEPT !.line = Tail(@)]

\* _ensure_async_route_ready, once the task has the lock.
Enter(t) ==
  LET rt == route[task[t].on] IN
  /\ task[t].at = "line"
  /\ Head(rt.line) = t
  /\ \/ /\ rt.session = NoSession
        /\ LET new == Rebuilt(t, rt) IN WarmsUp(t, new, new.session)
     \/ /\ rt.session # NoSession /\ rt.rebuild
        /\ route' = [route EXCEPT ![task[t].on] = Closing(rt)]
        /\ task' = [task EXCEPT ![t].at = "swap", ![t].held = rt.session]
     \/ /\ rt.session # NoSession /\ ~rt.rebuild /\ ~rt.warmed
        /\ WarmsUp(t, rt, rt.session)
     \/ /\ rt.session # NoSession /\ ~rt.rebuild /\ rt.warmed
        /\ Sends(t, Unlocked(rt))

\* The old session is closed; the new one is warmed up.
Swap(t) ==
  LET new == Rebuilt(t, route[task[t].on]) IN
  /\ task[t].at = "swap"
  /\ WarmsUp(t, new, new.session)

\* The home page has answered: the route counts as warm and the lock is left.
Warmed(t) ==
  /\ task[t].at = "warming"
  /\ Sends(t, [Unlocked(route[task[t].on]) EXCEPT !.warmed = TRUE])

\* _mark_route_failure
MarkedFailed(t, rt) ==
  [rt EXCEPT !.cool = Cooldown, !.warmed = FALSE, !.rebuild = TRUE,
             !.condemned = (@ \cup {rt.session}) \cap Held(t, rt.session) \cap Sessions,
             !.closed = @ \cap Held(t, rt.session)]

\* The next attempt of the call begins, or the call gives up.
GoesOn(t) ==
  LET last == task[t].tries = MaxRetries IN
  [task[t] EXCEPT !.at = IF last THEN "idle" ELSE "reserve",
                  !.on = None, !.held = NoSession,
                  !.tried = IF last \/ @ = Routes THEN {} ELSE @,
                  !.failed = @ \cup {task[t].on}, !.gaveUp = last]

\* A failed attempt: its route is marked, and released.
Failed(t, rt) ==
  /\ route' = [route EXCEPT ![task[t].on] = [MarkedFailed(t, rt) EXCEPT !.inFlight = @ - 1]]
  /\ task' = [task EXCEPT ![t] = GoesOn(t)]

\* Mutant: a warm-up that fails for good leaves the lock to nobody.
WarmupFailsLocked(t) ==
  /\ task[t].at = "warming"
  /\ IF task[t].warmups < WarmupTries
       THEN task' = [task EXCEPT ![t].at = "backoff", ![t].nap = 1] /\ UNCHANGED route
       ELSE Failed(t, route[task[t].on])

\* Mutant: a warm-up that fails for good takes its route along.
WarmupFailsHolding(t) ==
  /\ task[t].at = "warming"
  /\ IF task[t].warmups < WarmupTries
       THEN task' = [task EXCEPT ![t].at = "backoff", ![t].nap = 1] /\ UNCHANGED route
       ELSE LET rt == Unlocked(route[task[t].on])
            IN  Failed(t, [rt EXCEPT !.inFlight = @ + 1])

\* The home page could not be had: the task sleeps, or gives the route up.
WarmupFails(t) ==
  /\ task[t].at = "warming"
  /\ IF task[t].warmups < WarmupTries
       THEN task' = [task EXCEPT ![t].at = "backoff", ![t].nap = 1] /\ UNCHANGED route
       ELSE Failed(t, Unlocked(route[task[t].on]))

\* The next warm-up attempt is on the session the first was on.
WarmAgain(t) ==
  /\ task[t].at = "backoff"
  /\ task[t].nap = 0
  /\ WarmsUp(t, route[task[t].on], task[t].held)

\* The session _async_get rebuilds is used as it is, without a warm-up.
SwapGet(t) ==
  LET new == Rebuilt(t, route[task[t].on]) IN
  /\ task[t].at = "swapget"
  /\ route' = [route EXCEPT ![task[t].on] = new]
  /\ task' = [task EXCEPT ![t].at = "get", ![t].held = new.session]

\* A page that is neither 403 nor 429: the route is healthy, whatever happened on it since.
Succeeds(t) ==
  /\ task[t].at = "get"
  /\ LET r == task[t].on
         used == Held(t, route[r].session)
     IN  route' = [route EXCEPT ![r].cool = 0, ![r].inFlight = @ - 1,
                                ![r].closed = @ \cap used, ![r].condemned = @ \cap used]
  /\ task' = [task EXCEPT ![t].at = "idle", ![t].on = None, ![t].held = NoSession,
                          ![t].tried = {}]

\* A 403, a 429 or an exception.
Fails(t) ==
  /\ task[t].at = "get"
  /\ Failed(t, route[task[t].on])

Step(t) ==
  \/ Reserve(t) \/ Enter(t) \/ Swap(t) \/ Warmed(t) \/ WarmupFails(t) \/ WarmAgain(t)
  \/ SwapGet(t) \/ Succeeds(t) \/ Fails(t)

Next == Tick \/ \E t \in Tasks : Call(t) \/ Step(t)

\* Time passes, the event loop runs the tasks that can run, and a request is answered or times
\* out.  Nothing obliges the program to make another call.
Fairness == WF_vars(Tick) /\ \A t \in Tasks : WF_vars(Step(t))

Spec == Init /\ [][Next]_vars /\ Fairness

-----------------------------------------------------------------------------
\* Routes and tasks have the fields they can have.
TypeOK ==
  /\ route \in [Routes -> Route]
  /\ task \in [Tasks -> Task]

\* A route's in-flight count, which ranks the routes, is the number of tasks that hold it:
\* whichever way an attempt ends, its route is given back once (get_text_async's finally).
InFlightExact ==
  \A r \in Routes : route[r].inFlight = Cardinality({t \in Tasks : task[t].on = r})

\* A call that ends without a page has had a failure on every route, if it may try as many:
\* no route is left out because other tasks used, failed or cooled it (attempted_routes).
GivesUpOnlyAfterAll ==
  \A t \in Tasks :
    task[t].gaveUp /\ MaxRetries >= Cardinality(Routes) => task[t].failed = Routes

\* However the closing, replacing and marking of sessions by tasks fall between one another,
\* no page is asked for on a session whose close has begun or that was current when a failure
\* was marked on its route (_ensure_async_session, _mark_route_failure).
SendsOnSoundSession ==
  [][\A t \in Tasks :
       task[t].at # "get" /\ task'[t].at = "get" =>
         LET rt == route'[task'[t].on] IN task'[t].held \notin rt.closed \cup rt.condemned]_vars

\* Every call returns, with a page or without: no task waits for ever for a route, for the lock
\* of one, or for a session (get_text_async).
CallsReturn == \A t \in Tasks : task[t].at # "idle" ~> task[t].at = "idle"
=============================================================================
