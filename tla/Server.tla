------------------------------- MODULE Server -------------------------------
(***************************************************************************)
(* The API process (server.ts): start-up in order, the timers of the       *)
(* background jobs, requests on their way through withMetrics and          *)
(* withTeams (observability/metrics.ts, teams/request.ts), and shutdown.   *)
(*                                                                         *)
(* Processes share a database, as while a new version replaces an old one: *)
(* each brings its own migrations and is started once.  A process may be   *)
(* killed at any time.  What a job or a handler does is other modules'     *)
(* part.                                                                   *)
(***************************************************************************)
EXTENDS Naturals

CONSTANTS
  Process,  \* API processes on one database, each started once
  Needs,    \* the migrations each one's code brings
  Sweep,    \* background jobs
  Request,  \* requests, each made once
  Null

VARIABLES
  schema,   \* the migrations the database has
  process,  \* each process: how far it is, and its connection pool
  sweep,    \* each process's guardedSweep: running, and how many runs there are
  request,  \* where each request is, and in which process
  dropped   \* history: a process that ended of itself left a request unanswered

vars == <<schema, process, sweep, request, dropped>>

Phase == {"new", "migrate", "connect", "up", "stopping", "closing", "off"}
Guard == [running : BOOLEAN, runs : 0..2]
RequestState == [at : {"new", "resolve", "handle", "answered", "lost"},
                 in : Process \cup {Null}, counted : 0..2]

TypeOK ==
  /\ schema \in Nat
  /\ process \in [Process -> [at : Phase, pool : BOOLEAN]]
  /\ sweep \in [Process -> [Sweep -> Guard]]
  /\ request \in [Request -> RequestState]
  /\ dropped \in BOOLEAN

Still == [running |-> FALSE, runs |-> 0]

Init ==
  /\ schema = 0
  /\ process = [p \in Process |-> [at |-> "new", pool |-> FALSE]]
  /\ sweep = [p \in Process |-> [s \in Sweep |-> Still]]
  /\ request = [r \in Request |-> [at |-> "new", in |-> Null, counted |-> 0]]
  /\ dropped = FALSE

At(p, phase) == process[p].at = phase
GoTo(p, phase) == process' = [process EXCEPT ![p].at = phase]
Active(p) == {r \in Request : request[r].at \in {"resolve", "handle"} /\ request[r].in = p}

(* The process is gone, and with it its connections, timers and requests.   *)
End(p) ==
  /\ process' = [process EXCEPT ![p] = [at |-> "off", pool |-> FALSE]]
  /\ sweep' = [sweep EXCEPT ![p] = [s \in Sweep |-> Still]]
  /\ request' = [r \in Request |->
       IF r \in Active(p) THEN [request[r] EXCEPT !.at = "lost"] ELSE request[r]]

----------------------------------------------------------------------------
(* Start-up.  A secret that is missing or short ends it first ...           *)
RefuseToStart(p) ==
  /\ At(p, "new")
  /\ End(p)
  /\ UNCHANGED <<schema, dropped>>

Connect(p) ==
  /\ At(p, "new")
  /\ process' = [process EXCEPT ![p] = [at |-> "migrate", pool |-> TRUE]]
  /\ UNCHANGED <<schema, sweep, request, dropped>>

(* Mutant: the server starts while the migrations are applied.              *)
Meanwhile(p) == At(p, "migrate") \/ At(p, "connect")

Ready(p) == At(p, "connect")

(* ... then the migrations the database does not have are applied.          *)
MigrateUp(p) ==
  /\ At(p, "migrate")
  /\ schema' = IF schema < Needs[p] THEN Needs[p] ELSE schema
  /\ GoTo(p, "connect")
  /\ UNCHANGED <<sweep, request, dropped>>

(* Settings are seeded, the provider is discovered; then, without a pause,  *)
(* the timers are set and the port is opened.                               *)
Serve(p) ==
  /\ Ready(p)
  /\ GoTo(p, "up")
  /\ UNCHANGED <<schema, sweep, request, dropped>>

(* Any of it throws, or the process is killed.                              *)
Die(p) ==
  /\ ~At(p, "new") /\ ~At(p, "off")
  /\ End(p)
  /\ UNCHANGED <<schema, dropped>>

----------------------------------------------------------------------------
(* guardedSweep.  A job's interval, or its first run after the start, does  *)
(* nothing while the job is running.  Timers fire until the process ends.   *)
(* Mutant: the guard is not looked at.                                      *)
Always(p, s) == TRUE

Rests(p, s) == ~sweep[p][s].running

Timer(p, s) ==
  /\ process[p].at \in {"up", "stopping", "closing"} /\ sweep[p][s].runs < 2
  /\ Rests(p, s)
  /\ sweep' = [sweep EXCEPT ![p][s] = [running |-> TRUE, runs |-> @.runs + 1]]
  /\ UNCHANGED <<schema, process, request, dropped>>

(* finally: whatever became of the run.                                     *)
SweepEnds(p, s) ==
  /\ sweep[p][s].runs > 0
  /\ sweep' = [sweep EXCEPT ![p][s] = [running |-> FALSE, runs |-> @.runs - 1]]
  /\ UNCHANGED <<schema, process, request, dropped>>

----------------------------------------------------------------------------
(* Requests.  The paths of probes go to their handlers at once, the others  *)
(* by the team of their host.                                               *)
Accept(r, p) ==
  /\ request[r].at = "new" /\ At(p, "up")
  /\ \E at \in {"resolve", "handle"} :
       request' = [request EXCEPT ![r].at = at, ![r].in = p]
  /\ UNCHANGED <<schema, process, sweep, dropped>>

(* recordRequest, once the answer is there or something was thrown.         *)
Answer(r) ==
  request' = [request EXCEPT ![r].at = "answered", ![r].counted = @ + 1]

(* No such team, or suspended; or the statement fails.                      *)
Resolve(r) ==
  /\ request[r].at = "resolve"
  /\ \/ request' = [request EXCEPT ![r].at = "handle"]
     \/ Answer(r)
  /\ UNCHANGED <<schema, process, sweep, dropped>>

Handle(r) ==
  /\ request[r].at = "handle"
  /\ Answer(r)
  /\ UNCHANGED <<schema, process, sweep, dropped>>

----------------------------------------------------------------------------
(* Shutdown.  The first signal counts; before there is a handler for it, it *)
(* kills (Die).  The port is closed at once.                                *)
Signal(p) ==
  /\ At(p, "up")
  /\ GoTo(p, "stopping")
  /\ UNCHANGED <<schema, sweep, request, dropped>>

(* Mutant: the pool is closed without waiting for the requests.             *)
AtOnce(p) == TRUE

Drained(p) == Active(p) = {}

(* server.stop(false) resolves when no request is active; then the pool is  *)
(* closed, whatever the jobs are doing, and the process ends.               *)
ClosePool(p) ==
  /\ At(p, "stopping") /\ Drained(p)
  /\ process' = [process EXCEPT ![p] = [at |-> "closing", pool |-> FALSE]]
  /\ UNCHANGED <<schema, sweep, request, dropped>>

Exit(p) ==
  /\ At(p, "closing")
  /\ dropped' = (dropped \/ Active(p) # {})
  /\ End(p)
  /\ UNCHANGED schema

(* The grace period has passed, or the shutdown itself failed.              *)
ForceExit(p) ==
  /\ At(p, "stopping") \/ At(p, "closing")
  /\ End(p)
  /\ UNCHANGED <<schema, dropped>>

Next ==
  \/ \E p \in Process :
       \/ RefuseToStart(p) \/ Connect(p) \/ MigrateUp(p) \/ Serve(p) \/ Die(p)
       \/ Signal(p) \/ ClosePool(p) \/ Exit(p) \/ ForceExit(p)
       \/ \E s \in Sweep : Timer(p, s) \/ SweepEnds(p, s)
       \/ \E r \in Request : Accept(r, p)
  \/ \E r \in Request : Resolve(r) \/ Handle(r)

Spec == Init /\ [][Next]_vars

----------------------------------------------------------------------------
(* A request is worked on over a pool that is open and a database that has  *)
(* the migrations of the code that works on it, counted once when it is     *)
(* answered, and left unanswered only by a process that is killed or forced *)
(* to end (server.ts:494); a job never runs twice at a time in a process    *)
(* (server.ts:290).                                                         *)
ServedWhole ==
  /\ \A p \in Process : Active(p) # {} => process[p].pool /\ schema >= Needs[p]
  /\ \A r \in Request : request[r].counted = IF request[r].at = "answered" THEN 1 ELSE 0
  /\ ~dropped
  /\ \A p \in Process, s \in Sweep : sweep[p][s].runs <= 1
=============================================================================
