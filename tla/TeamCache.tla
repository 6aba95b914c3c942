----------------------------- MODULE TeamCache ------------------------------
(***************************************************************************)
(* Which team a request is for (teams/resolve.ts, teams/request.ts): the   *)
(* team of the host's slug, read from the table and kept in memory for a   *)
(* while, unknown slugs too.                                               *)
(*                                                                         *)
(* One api process and the teams that take one slug, one after the other.  *)
(* A write clears the cache once its statement is answered; in the other   *)
(* processes it never does.  A read that is under way meanwhile remembers  *)
(* what it read before the write.  The read by id, of the admins' routes,  *)
(* sees deleted teams and remembers them by slug as well: that the slug is *)
(* a deleted team's counts as a true answer here.                          *)
(***************************************************************************)
EXTENDS Naturals

CONSTANTS
  Team,     \* teams that ever have the slug
  Lookup,   \* lookups that can be under way at once
  TTL,      \* TTL_MS: ticks an entry is used for
  Stall,    \* bound on the ticks a read of the table is awaited
  Null

VARIABLES
  kept,     \* teams: the state of each row, or "none"
  due,      \* writes of this process whose statement is answered are to clear
  bySlug,   \* the entry of the slug
  byId,     \* the entries of the teams
  lookup,   \* the local variables of each lookup
  age,      \* history: ticks since each fact was last true, up to Late
  outdated  \* history: an answer was true too long ago

vars == <<kept, due, bySlug, byId, lookup, age, outdated>>
cache == <<bySlug, byId>>

State == {"none", "live", "suspended", "deleted"}
(* Of an entry: the team Null is a miss; left: ticks until it expires.      *)
Entry == [team : Team \cup {Null}, is : State, left : 0..TTL]
Idle == [at |-> "idle", team |-> Null, is |-> "none", awaited |-> 0]

(* What an answer says: that the slug is nobody's, or how a team stands.    *)
Unknown == <<Null, "none">>
Fact == {Unknown} \cup (Team \X State)
Late == TTL + Stall + 1

TypeOK ==
  /\ kept \in [Team -> State]
  /\ due \in BOOLEAN
  /\ bySlug \in Entry \cup {Null}
  /\ byId \in [Team -> Entry \cup {Null}]
  /\ lookup \in [Lookup -> [at : {"idle", "slug", "id"}, team : Team \cup {Null},
                            is : State, awaited : 0..Stall]]
  /\ age \in [Fact -> 0..Late]
  /\ outdated \in BOOLEAN

Init ==
  /\ kept = [t \in Team |-> "none"] /\ due = FALSE
  /\ bySlug = Null /\ byId = [t \in Team |-> Null]
  /\ lookup = [l \in Lookup |-> Idle]
  /\ age = [f \in Fact |-> IF f[2] = "none" THEN 0 ELSE Late]
  /\ outdated = FALSE

----------------------------------------------------------------------------
Taken == {t \in Team : kept[t] # "none"}
Serving == {t \in Team : kept[t] \in {"live", "suspended"}}
True(f, rows) ==
  IF f = Unknown THEN \A t \in Team : rows[t] \in {"none", "deleted"} ELSE rows[f[1]] = f[2]

(* Time passes for the entries, the reads under way and the facts.          *)
Sooner(e) == IF e = Null \/ e.left = 0 THEN e ELSE [e EXCEPT !.left = @ - 1]

Tick ==
  /\ \A l \in Lookup : lookup[l].at # "idle" => lookup[l].awaited < Stall
  /\ bySlug' = Sooner(bySlug) /\ byId' = [t \in Team |-> Sooner(byId[t])]
  /\ lookup' = [l \in Lookup |->
       IF lookup[l].at = "idle" THEN Idle ELSE [lookup[l] EXCEPT !.awaited = @ + 1]]
  /\ age' = [f \in Fact |-> IF True(f, kept) \/ age[f] = Late THEN age[f] ELSE age[f] + 1]
  /\ UNCHANGED <<kept, due, outdated>>

Write(t, is, clears) ==
  /\ kept' = [kept EXCEPT ![t] = is]
  /\ age' = [f \in Fact |-> IF True(f, kept') THEN 0 ELSE age[f]]
  /\ due' \in {due, due \/ clears}
  /\ UNCHANGED <<cache, lookup, outdated>>

(* POST /admin/teams clears nothing, nor does its undo when the admin       *)
(* cannot be made; until the purge the slug is spoken for.                  *)
Create(t) == Taken = {} /\ Write(t, "live", FALSE)
UndoCreate(t) == kept[t] = "live" /\ Write(t, "none", FALSE)

(* PATCH, DELETE and restore of a team                                      *)
Suspend(t) == kept[t] = "live" /\ Write(t, "suspended", TRUE)
Resume(t) == kept[t] = "suspended" /\ Write(t, "live", TRUE)
DeleteTeam(t) == t \in Serving /\ Write(t, "deleted", TRUE)
Restore(t) == kept[t] = "deleted" /\ Write(t, "live", TRUE)
(* sweepDeletedTeams                                                        *)
Purge(t) == kept[t] = "deleted" /\ Write(t, "none", TRUE)

(* clearTeamCache(slug): the entry by id goes if the one of the slug is the *)
(* team's.                                                                  *)
Clear ==
  /\ due
  /\ due' \in BOOLEAN  \* others may be under way
  /\ bySlug' = Null
  /\ byId' = IF bySlug = Null \/ bySlug.team = Null THEN byId ELSE [byId EXCEPT ![bySlug.team] = Null]
  /\ UNCHANGED <<kept, lookup, age, outdated>>

(* clearTeamCache(), after a change of domain; remember clears a map that   *)
(* is full.                                                                 *)
ClearAll ==
  /\ bySlug' \in {bySlug, Null} /\ byId' \in {byId, [t \in Team |-> Null]}
  /\ UNCHANGED <<kept, due, lookup, age, outdated>>

----------------------------------------------------------------------------
(* Mutant: what is remembered is used for good.                             *)
Remembered(e) == e # Null

Live(e) == e # Null /\ e.left > 0

(* The answer goes to the request.                                          *)
Answer(f) == outdated' = (outdated \/ age[f] >= Late)

(* teamBySlug, teamById: an entry that is live answers.                     *)
Hit(e, f) ==
  /\ Live(e)
  /\ Answer(f)
  /\ UNCHANGED <<kept, due, cache, lookup, age>>

HitSlug == Hit(bySlug, <<bySlug.team, bySlug.is>>)
HitId(t) == Hit(byId[t], <<t, byId[t].is>>)

(* Otherwise the table is read: by slug without the deleted rows, by id     *)
(* with them.                                                               *)
Read(l, at, t, is) ==
  /\ lookup[l].at = "idle"
  /\ lookup' = [lookup EXCEPT ![l] = [at |-> at, team |-> t, is |-> is, awaited |-> 0]]
  /\ UNCHANGED <<kept, due, cache, age, outdated>>

ReadSlug(l) ==
  /\ ~Live(bySlug)
  /\ \/ \E t \in Serving : Read(l, "slug", t, kept[t])
     \/ Serving = {} /\ Read(l, "slug", Null, "none")

ReadId(l, t) == ~Live(byId[t]) /\ Read(l, "id", t, kept[t])

(* remember: a row is kept by slug and by id, whichever it was found by; a  *)
(* miss by what was asked for.                                              *)
Remember(l) ==
  LET r == lookup[l]
      found == r.is # "none"
      entry == [team |-> IF found THEN r.team ELSE Null, is |-> r.is, left |-> TTL] IN
  /\ r.at # "idle"
  /\ bySlug' = IF found \/ r.at = "slug" THEN entry ELSE bySlug
  /\ byId' = IF r.team # Null THEN [byId EXCEPT ![r.team] = entry] ELSE byId
  /\ Answer(<<r.team, r.is>>)
  /\ lookup' = [lookup EXCEPT ![l] = Idle]
  /\ UNCHANGED <<kept, due, age>>

Next ==
  \/ Tick \/ Clear \/ ClearAll
  \/ \E t \in Team :
       \/ Create(t) \/ UndoCreate(t) \/ Suspend(t) \/ Resume(t)
       \/ DeleteTeam(t) \/ Restore(t) \/ Purge(t) \/ HitId(t)
  \/ HitSlug
  \/ \E l \in Lookup : ReadSlug(l) \/ Remember(l) \/ \E t \in Team : ReadId(l, t)

Spec == Init /\ [][Next]_vars

----------------------------------------------------------------------------
(* Whoever is told of a team is told what was so when the table was last    *)
(* read for it: no answer - that a slug is nobody's, that its team is       *)
(* suspended, or that it is not - is older than one entry and the read that *)
(* made it, whatever was cleared, and put back by a read under way          *)
(* (teams/resolve.ts:4).                                                    *)
AnswersAreRecent == ~outdated
=============================================================================
