----------------------------- MODULE TeamDomain -----------------------------
(***************************************************************************)
(* The custom domains of teams (teams/domains.ts): a domain is set with a  *)
(* fresh token, verified by a DNS lookup that takes its time, and removed. *)
(* A verified domain routes its host to the team (teams/resolve.ts).       *)
(***************************************************************************)
EXTENDS Naturals

CONSTANTS
  Team,     \* tenant teams
  Name,     \* domain names
  Lookup,   \* verifications that can be under way at once
  Tokens,   \* tokens 1..Tokens may be drawn
  Null

VARIABLES
  domain,  \* teams: custom_domain, domain_token, domain_verified_at
  last,    \* the last token drawn
  asked,   \* the row each verification read
  proven   \* history: the names and tokens a lookup found published

vars == <<domain, last, asked, proven>>

Row == [name : Name, token : 1..Tokens, verified : BOOLEAN]

TypeOK ==
  /\ domain \in [Team -> Row \cup {Null}]
  /\ last \in 0..Tokens
  /\ asked \in [Lookup -> [team : Team, name : Name, token : 1..Tokens] \cup {Null}]
  /\ proven \subseteq Name \X (1..Tokens)

Init ==
  /\ domain = [t \in Team |-> Null]
  /\ last = 0
  /\ asked = [r \in Lookup |-> Null]
  /\ proven = {}

(* custom_domain is unique, verified or not.                                *)
SetDomain(t, n) ==
  /\ last < Tokens
  /\ ~\E u \in Team : domain[u] # Null /\ domain[u].name = n
  /\ last' = last + 1
  /\ domain' = [domain EXCEPT ![t] = [name |-> n, token |-> last + 1, verified |-> FALSE]]
  /\ UNCHANGED <<asked, proven>>

RemoveDomain(t) ==
  /\ domain[t] # Null
  /\ domain' = [domain EXCEPT ![t] = Null]
  /\ UNCHANGED <<last, asked, proven>>

ReadDomain(r) ==
  /\ asked[r] = Null
  /\ \E t \in Team :
       /\ domain[t] # Null
       /\ asked' = [asked EXCEPT ![r] =
            [team |-> t, name |-> domain[t].name, token |-> domain[t].token]]
  /\ UNCHANGED <<domain, last, proven>>

(* Mutant: the token is not compared. *)
SameName(row, q) == row # Null /\ row.name = q.name

(* The lookup answers; the row is marked only if it is still the one read.  *)
SameDomain(row, q) == row # Null /\ row.name = q.name /\ row.token = q.token

Verify(r) ==
  /\ asked[r] # Null
  /\ LET q == asked[r] IN
       \/ /\ proven' = proven \cup {<<q.name, q.token>>}
          /\ domain' = IF SameDomain(domain[q.team], q)
                       THEN [domain EXCEPT ![q.team].verified = TRUE] ELSE domain
       \/ UNCHANGED <<proven, domain>>  \* not published
  /\ asked' = [asked EXCEPT ![r] = Null]
  /\ UNCHANGED last

Next ==
  \/ \E t \in Team : RemoveDomain(t) \/ \E n \in Name : SetDomain(t, n)
  \/ \E r \in Lookup : ReadDomain(r) \/ Verify(r)

Spec == Init /\ [][Next]_vars

(* A domain that routes to a team was found published with the very token   *)
(* the team was given for it, also when the domain was removed, taken by    *)
(* another team or set again during the lookup (teams/domains.ts:140).      *)
DomainsAreProven ==
  \A t \in Team : domain[t] # Null /\ domain[t].verified =>
    <<domain[t].name, domain[t].token>> \in proven
=============================================================================
