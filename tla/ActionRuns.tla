----------------------------- MODULE ActionRuns -----------------------------
(***************************************************************************)
(* Folder actions (actions/dispatch.ts): an event in a folder runs the     *)
(* actions configured for it, oldest first, each recorded as a run.  An    *)
(* action that takes longer than its time is given up, but goes on: its    *)
(* promise is raced, not stopped.  The rows it works on are those of       *)
(* FolderTree and FileWrites; here an action works, and ends.              *)
(***************************************************************************)
EXTENDS Naturals, FiniteSets

CONSTANTS
  Actions,   \* how many rows of folder_actions there can be
  Dispatch,  \* events fired on the folder
  Null

VARIABLES
  config,    \* folder_actions, in order of creation
  run,       \* folder_action_runs
  dispatch,  \* where each fireEvent is
  work,      \* the promise of each action a dispatch started
  subject    \* whether the row each event is about is still there

vars == <<config, run, dispatch, work, subject>>

Action == 1..Actions
Status == {"succeeded", "failed", "skipped"}
Run == [status : Status, finished : BOOLEAN]
DispatchState == [at : {"idle", "next", "resolve", "await", "refresh", "done", "lost"},
                  todo : SUBSET Action, action : Action \cup {0}, sees : BOOLEAN]

TypeOK ==
  /\ config \in [Action -> {"none", "on", "off", "unknown", "gone"}]
  /\ run \in [Dispatch \X Action -> Run \cup {Null}]
  /\ dispatch \in [Dispatch -> DispatchState]
  /\ work \in [Dispatch \X Action -> {"none", "running", "ok", "failed", "lost"}]
  /\ subject \in [Dispatch -> BOOLEAN]

Init ==
  /\ config = [a \in Action |-> "none"]
  /\ run = [i \in Dispatch \X Action |-> Null]
  /\ dispatch = [d \in Dispatch |->
       [at |-> "idle", todo |-> {}, action |-> 0, sees |-> TRUE]]
  /\ work = [i \in Dispatch \X Action |-> "none"]
  /\ subject = [d \in Dispatch |-> TRUE]

Configured(a) == config[a] \in {"on", "off", "unknown"}

---------------------------------------------------------------------------
(* The owner's settings.                                                    *)
CreateAction(a) ==  \* POST /folders/:id/actions
  /\ config[a] = "none" /\ \A b \in 1..a - 1 : config[b] # "none"
  /\ \E s \in {"on", "off"} : config' = [config EXCEPT ![a] = s]
  /\ UNCHANGED <<run, dispatch, work, subject>>

ChangeAction(a) ==  \* PATCH: switched on or off; "unknown": this build has no such slug
  /\ Configured(a)
  /\ \E s \in {"on", "off", "unknown"} \ {config[a]} : config' = [config EXCEPT ![a] = s]
  /\ UNCHANGED <<run, dispatch, work, subject>>

DeleteAction(a) ==  \* and, by cascade, its runs
  /\ Configured(a)
  /\ config' = [config EXCEPT ![a] = "gone"]
  /\ run' = [i \in Dispatch \X Action |-> IF i[2] = a THEN Null ELSE run[i]]
  /\ UNCHANGED <<dispatch, work, subject>>

RemoveSubject(d) ==  \* by another request, or by the work itself
  /\ subject[d]
  /\ subject' = [subject EXCEPT ![d] = FALSE]
  /\ UNCHANGED <<config, run, dispatch, work>>

---------------------------------------------------------------------------
(* fireEvent.                                                               *)
At(d, p) == dispatch[d].at = p
Cur(d) == <<d, dispatch[d].action>>
Goto(d, p) == dispatch' = [dispatch EXCEPT ![d].at = p]

Oldest(S) == CHOOSE a \in S : \A b \in S : a <= b

(* The rows are read once, with what they say then.                         *)
FireEvent(d) ==
  /\ At(d, "idle")
  /\ LET rows == {a \in Action : config[a] \in {"on", "unknown"}} IN
     dispatch' = [dispatch EXCEPT ![d].todo = rows,
                                  ![d].at = IF rows = {} THEN "done" ELSE "next"]
  /\ UNCHANGED <<config, run, work, subject>>

(* The insert refers to the configured action; when that is gone, the       *)
(* dispatch fails with it and the rest is not run.                          *)
InsertRun(d) ==
  /\ At(d, "next") /\ dispatch[d].todo # {}
  /\ LET a == Oldest(dispatch[d].todo) IN
     IF Configured(a)
     THEN /\ run' = [run EXCEPT ![<<d, a>>] = [status |-> "succeeded", finished |-> FALSE]]
          /\ dispatch' = [dispatch EXCEPT ![d].at = "resolve", ![d].action = a, ![d].todo = @ \ {a}]
     ELSE /\ dispatch' = [dispatch EXCEPT ![d].at = "done", ![d].todo = {}]
          /\ UNCHANGED run
  /\ UNCHANGED <<config, work, subject>>

LastOne(d) ==
  /\ At(d, "next") /\ dispatch[d].todo = {}
  /\ Goto(d, "done")
  /\ UNCHANGED <<config, run, work, subject>>

(* An update of a run that a deletion has taken changes nothing.            *)
Recorded(i, s) ==
  run' = IF run[i] = Null THEN run ELSE [run EXCEPT ![i] = [status |-> s, finished |-> TRUE]]

(* No such action: failed; not for this event, or the subject is gone:      *)
(* skipped.                                                                 *)
Skip(d) ==
  /\ At(d, "resolve")
  /\ \E s \in {"failed", "skipped"} : Recorded(Cur(d), s)
  /\ Goto(d, "next")
  /\ UNCHANGED <<config, work, subject>>

StartWork(d) ==
  /\ At(d, "resolve") /\ dispatch[d].sees
  /\ work' = [work EXCEPT ![Cur(d)] = "running"]
  /\ Goto(d, "await")
  /\ UNCHANGED <<config, run, subject>>

EndWork(d, a) ==  \* when it was given up, nobody hears of it
  /\ work[d, a] = "running"
  /\ \E o \in {"ok", "failed"} : work' = [work EXCEPT ![<<d, a>>] = o]
  /\ UNCHANGED <<config, run, dispatch, subject>>

Settle(d) ==
  /\ At(d, "await") /\ work[Cur(d)] \in {"ok", "failed"}
  /\ Recorded(Cur(d), IF work[Cur(d)] = "ok" THEN "succeeded" ELSE "failed")
  /\ Goto(d, "refresh")
  /\ UNCHANGED <<config, work, subject>>

(* Mutant: the timeout resolves the race instead of rejecting it.           *)
Resolved == "succeeded"

TimedOut == "failed"

TimeOut(d) ==
  /\ At(d, "await") /\ work[Cur(d)] = "running"
  /\ Recorded(Cur(d), TimedOut)
  /\ Goto(d, "refresh")
  /\ UNCHANGED <<config, work, subject>>

RefreshSubject(d) ==
  /\ At(d, "refresh")
  /\ dispatch' = [dispatch EXCEPT ![d].sees = subject[d], ![d].at = "next"]
  /\ UNCHANGED <<config, run, work, subject>>

Crash ==  \* every promise is lost; the runs stay as they were last written
  /\ \E d \in Dispatch : dispatch[d].at \notin {"idle", "done", "lost"}
  /\ dispatch' = [d \in Dispatch |-> IF dispatch[d].at \in {"idle", "done"} THEN dispatch[d]
                    ELSE [dispatch[d] EXCEPT !.at = "lost", !.todo = {}]]
  /\ work' = [i \in Dispatch \X Action |-> IF work[i] = "running" THEN "lost" ELSE work[i]]
  /\ UNCHANGED <<config, run, subject>>

Next ==
  \/ \E a \in Action : CreateAction(a) \/ ChangeAction(a) \/ DeleteAction(a)
  \/ \E d \in Dispatch :
       \/ RemoveSubject(d) \/ FireEvent(d) \/ InsertRun(d) \/ LastOne(d) \/ Skip(d)
       \/ StartWork(d) \/ Settle(d) \/ TimeOut(d) \/ RefreshSubject(d)
       \/ \E a \in Action : EndWork(d, a)
  \/ Crash

Spec == Init /\ [][Next]_vars

---------------------------------------------------------------------------
(* What the record says of a run that is over is what became of it: it      *)
(* succeeded only if its action did, and an action still at work after its  *)
(* dispatch went on to the next is on record as failed                      *)
(* (actions/dispatch.ts:146).                                               *)
RunsTellTheTruth ==
  \A d \in Dispatch, a \in Action :
    /\ run[d, a] = [status |-> "succeeded", finished |-> TRUE] => work[d, a] = "ok"
    /\ work[d, a] = "running" /\ ~(At(d, "await") /\ dispatch[d].action = a) =>
         run[d, a] \in {Null, [status |-> "failed", finished |-> TRUE]}
=============================================================================
