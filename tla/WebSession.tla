----------------------------- MODULE WebSession -----------------------------
(***************************************************************************)
(* Who the browser client is signed in as (web/api.ts, and the components  *)
(* App, Auth and Shell of web/app.tsx): the token and the user record of   *)
(* each tab, their copy in localStorage, and the answers that set them.    *)
(*                                                                         *)
(* A token is known by the account it is for.  setToken writes both the    *)
(* tab's and the stored pair; a tab reads the stored pair when it loads    *)
(* and never again.                                                        *)
(***************************************************************************)
EXTENDS Naturals, FiniteSets

CONSTANTS
  Account,  \* accounts of the server
  Tab,      \* tabs of the browser on this site
  Awaited,  \* bound on the answers a tab awaits at once, of those it asks for
  Null

VARIABLES
  mem,      \* token and user of each tab
  disk,     \* stohr_token and stohr_user
  shell,    \* loggedIn: the tab shows the shell
  calls,    \* answers awaited: <<tab, call, token it was sent with>>
  started,    \* sessionStorage: the tab began an external sign-in
  foreign,  \* a tab took a token it did not ask for
  crossed   \* an answer was applied over a token it was not sent with

vars == <<mem, disk, shell, calls, started, foreign, crossed>>

Pair == [token : Account \cup {Null}, user : Account \cup {Null}]
None == [token |-> Null, user |-> Null]

TypeOK ==
  /\ mem \in [Tab -> Pair] /\ disk \in Pair
  /\ shell \in [Tab -> BOOLEAN] /\ started \in [Tab -> BOOLEAN]
  /\ calls \in SUBSET (Tab \X {"me", "adopt", "profile"} \X Account)
  /\ foreign \in BOOLEAN /\ crossed \in BOOLEAN

Init ==
  /\ mem = [t \in Tab |-> None] /\ disk = None
  /\ shell = [t \in Tab |-> FALSE] /\ started = [t \in Tab |-> FALSE]
  /\ calls = {} /\ foreign = FALSE /\ crossed = FALSE

----------------------------------------------------------------------------
(* Mutant: the record stays when a token is set without one.                *)
SetTokenOnly(t, token, user) ==
  LET pair == [token |-> token, user |-> IF user = Null THEN mem[t].user ELSE user] IN
  /\ mem' = [mem EXCEPT ![t] = pair] /\ disk' = pair

SetToken(t, token, user) ==
  LET pair == [token |-> token, user |-> user] IN
  /\ mem' = [mem EXCEPT ![t] = pair] /\ disk' = pair

Of(t) == {c \in calls : c[1] = t}

(* The tab loads the page: what it awaited is gone.                         *)
LoadPage(t) ==
  /\ mem' = [mem EXCEPT ![t] = disk]
  /\ shell' = [shell EXCEPT ![t] = disk.token # Null]
  /\ calls' = calls \ Of(t)
  /\ UNCHANGED <<disk, started, foreign, crossed>>

(* signup, login, loginMfa, loginLdap, finishPasskeyDiscoverableLogin, and  *)
(* onLogin: an answer with a token.                                         *)
SignIn(t, a) ==
  /\ ~shell[t]
  /\ SetToken(t, a, a)
  /\ shell' = [shell EXCEPT ![t] = TRUE]
  /\ UNCHANGED <<calls, started, foreign, crossed>>

(* logout of the shell                                                      *)
Logout(t) ==
  /\ shell[t]
  /\ SetToken(t, Null, Null)
  /\ shell' = [shell EXCEPT ![t] = FALSE]
  /\ UNCHANGED <<calls, started, foreign, crossed>>

(* Mutant: a fragment is taken whichever tab asked for it.                  *)
ConsumeAny(t, own) == TRUE

(* consumeSsoStart: the tab has the nonce the fragment names.               *)
ConsumeSsoStart(t, own) == started[t] /\ own

(* The sign-in buttons leave the page for the provider.                     *)
MarkSsoStart(t) ==
  /\ ~shell[t]
  /\ started' = [started EXCEPT ![t] = TRUE]
  /\ calls' = calls \ Of(t)
  /\ UNCHANGED <<mem, disk, shell, foreign, crossed>>

(* The page is loaded with a token in its fragment, by the way back from    *)
(* the provider the tab went to ("own") or by a link; App looks at it while *)
(* nobody is signed in, and adoptToken sets it before it asks whose it is.  *)
Fragment(t, a, own) ==
  /\ disk.token = Null
  /\ own => started[t]
  /\ started' = [started EXCEPT ![t] = FALSE]
  /\ shell' = [shell EXCEPT ![t] = FALSE]
  /\ IF ConsumeSsoStart(t, own)
     THEN /\ SetToken(t, a, Null)
          /\ calls' = (calls \ Of(t)) \cup {<<t, "adopt", a>>}
          /\ foreign' = (foreign \/ ~own)
     ELSE /\ mem' = [mem EXCEPT ![t] = disk] /\ UNCHANGED <<disk, foreign>>
          /\ calls' = calls \ Of(t)
  /\ UNCHANGED crossed

(* refreshMe when the shell mounts, updateProfile from the settings         *)
Ask(t, call) ==
  /\ shell[t] /\ mem[t].token # Null
  /\ Cardinality(Of(t)) < Awaited
  /\ calls' = calls \cup {<<t, call, mem[t].token>>}
  /\ UNCHANGED <<mem, disk, shell, started, foreign, crossed>>

(* The answer of /me names the account the call was sent for; the token it  *)
(* is stored with is the one there is by now.                               *)
MeAnswers(c) ==
  LET t == c[1] IN
  /\ c[2] \in {"me", "adopt"}
  /\ calls' = calls \ {c}
  /\ SetToken(t, mem[t].token, c[3])
  /\ shell' = [shell EXCEPT ![t] = @ \/ c[2] = "adopt"]
  /\ crossed' = (crossed \/ mem[t].token # c[3])
  /\ UNCHANGED <<started, foreign>>

(* updateProfile: a new token for the same account comes with the record.   *)
ProfileAnswers(c) ==
  /\ c[2] = "profile"
  /\ calls' = calls \ {c}
  /\ SetToken(c[1], c[3], c[3])
  /\ crossed' = (crossed \/ mem[c[1]].token # c[3])
  /\ UNCHANGED <<shell, started, foreign>>

(* A call is refused or fails: nothing is set.                              *)
CallFails(c) ==
  /\ calls' = calls \ {c}
  /\ UNCHANGED <<mem, disk, shell, started, foreign, crossed>>

Next ==
  \/ \E t \in Tab :
       \/ LoadPage(t) \/ Logout(t) \/ MarkSsoStart(t)
       \/ \E a \in Account : SignIn(t, a) \/ \E own \in BOOLEAN : Fragment(t, a, own)
       \/ Ask(t, "me") \/ Ask(t, "profile")
  \/ \E c \in calls : MeAnswers(c) \/ ProfileAnswers(c) \/ CallFails(c)

Spec == Init /\ [][Next]_vars

----------------------------------------------------------------------------
(* The record a tab shows is of the account its token is for, in the tab    *)
(* and in what is stored; the shell is shown with a token only; and a token *)
(* is taken from the address only by the tab that went for it.  The one way *)
(* around is an answer applied after its token was replaced                 *)
(* (web/api.ts:75).                                                         *)
SessionIsWhole ==
  /\ ~foreign
  /\ ~crossed =>
       \A p \in {mem[t] : t \in Tab} \cup {disk} : p.user # Null => p.user = p.token
  /\ ~crossed => \A t \in Tab : shell[t] => mem[t].token # Null
=============================================================================
