---------------------------- MODULE Services_proofs ----------------------------
EXTENDS Integers, MCServices, FiniteSetTheorems, TLAPS, WellFoundedInduction

----------------------------------------------------------------------------
(* Founding: whoever has keys has those of the row.                         *)
FoundInv == N!TypeOK /\ N!OneIdentity

(* At the start there are no keys and nobody holds any.                     *)
LEMMA FoundInit == N!Init => FoundInv
  BY DEF N!Init, FoundInv, N!TypeOK, N!OneIdentity, N!Idle, N!Asked, N!Point

(* Only InsertKeys writes the row of keys, and only while there is none: no *)
(* request has keys then.                                                   *)
LEMMA FoundStep == FoundInv /\ [N!Next]_founding => FoundInv'
<1> SUFFICES ASSUME FoundInv, [N!Next]_founding
             PROVE  FoundInv'
  OBVIOUS
<1> USE DEF FoundInv, N!TypeOK, N!OneIdentity, N!Asked, N!Point, N!At, N!Goto, N!Use
<1>1. CASE UNCHANGED founding
  BY <1>1 DEF founding
<1>2. ASSUME NEW c \in Caller, N!AskKeys(c)
      PROVE  FoundInv'
  BY <1>2 DEF N!AskKeys
<1>3. ASSUME NEW c \in Caller, NEW s \in Slug, N!AskFound(c, s)
      PROVE  FoundInv'
  BY <1>3 DEF N!AskFound
<1>4. ASSUME NEW c \in Caller, N!ReadKeys(c)
      PROVE  FoundInv'
  BY <1>4 DEF N!ReadKeys
<1>5. ASSUME NEW c \in Caller, N!InsertKeys(c)
      PROVE  FoundInv'
  BY <1>5 DEF N!InsertKeys
<1>6. ASSUME NEW c \in Caller, N!InsertFederation(c)
      PROVE  FoundInv'
  BY <1>6 DEF N!InsertFederation
<1>7. ASSUME NEW c \in Caller, N!InsertMember(c)
      PROVE  FoundInv'
  BY <1>7 DEF N!InsertMember
<1>8. ASSUME NEW c \in Caller, N!Interrupt(c)
      PROVE  FoundInv'
  BY <1>8 DEF N!Interrupt
<1>. QED  BY <1>1, <1>2, <1>3, <1>4, <1>5, <1>6, <1>7, <1>8 DEF N!Next

----------------------------------------------------------------------------
(* Contributions, for any federations and any size.                         *)
Contributed(fs, max, f) == K(fs, max)!Tied("contribution", f)

(* A request past its first check is about a federation and a row.          *)
Reached(fs, max) == \A r \in Request :
  /\ deed[r].at # "idle" => deed[r].fed \in fs
  /\ deed[r].at \in {"existing", "find", "tie", "promise", "requota", "untie"} => deed[r].folder \in Own
  /\ deed[r].at \in {"existing", "tie", "promise", "requota", "untie"} => tie[deed[r].folder] # Null

OneFolder(fs, max) == \A f \in fs : \A d, e \in Contributed(fs, max, f) : d = e

(* The member row says "sum" of what is contributed.                        *)
Says(fs, max, f, sum) ==
  /\ \A d \in Contributed(fs, max, f) : tie[d].quota = sum
  /\ Contributed(fs, max, f) = {} => sum = 0

(* As long as requests come one at a time there is one under way at most,   *)
(* nothing contributed is in the trash, the request works on what it        *)
(* checked, and the other federations have what they are promised.          *)
Single == \A r, s \in Request : deed[r].at # "idle" /\ deed[s].at # "idle" => r = s
NoneTrashed == \A d \in Own : tie[d] # Null /\ ~tie[d].live => tie[d].role # "contribution"
AsChecked(fs, max, r) ==
  /\ deed[r].at \in {"existing", "tie"} =>
       tie[deed[r].folder].live /\ tie[deed[r].folder].fed \in {Null, deed[r].fed}
  /\ deed[r].at = "tie" => Contributed(fs, max, deed[r].fed) \subseteq {deed[r].folder}
  /\ deed[r].at \in {"requota", "untie"} => deed[r].folder \in Contributed(fs, max, deed[r].fed)
  /\ deed[r].at = "untie" => deed[r].quota = 0
  /\ deed[r].at = "promise" => Says(fs, max, deed[r].fed, deed[r].quota)
Settled(f) == \A r \in Request : ~(deed[r].at = "promise" /\ deed[r].fed = f)
OneAtATime(fs, max) == whole =>
  /\ Single
  /\ NoneTrashed
  /\ \A r \in Request : AsChecked(fs, max, r)
  /\ \A f \in fs : Settled(f) => Says(fs, max, f, promised[f])

PromiseInv(fs, max) ==
  K(fs, max)!TypeOK /\ Reached(fs, max) /\ OneFolder(fs, max) /\ OneAtATime(fs, max)

(* At the start nothing is tied and nothing promised.                       *)
LEMMA PromiseInit ==
  ASSUME NEW fs, NEW max \in Nat, Null \notin K(fs, max)!Tie, K(fs, max)!Init
  PROVE  PromiseInv(fs, max)
<1> USE DEF K!Init
<1>1. K(fs, max)!TypeOK
  <2>1. K(fs, max)!Free(TRUE) \in K(fs, max)!Tie
    BY DEF K!Tie, K!Role, K!Free
  <2>2. K(fs, max)!Idle \in K(fs, max)!Deed
    BY DEF K!Deed, K!Idle
  <2>3. tie \in [Own -> K(fs, max)!Tie \cup {Null}]
    BY <2>1
  <2>4. promised \in [fs -> 0..max] /\ deed \in [Request -> K(fs, max)!Deed] /\ whole \in BOOLEAN
    BY <2>2
  <2>. QED  BY <2>3, <2>4 DEF K!TypeOK
<1>2. \A f \in fs : Contributed(fs, max, f) = {}
  BY DEF Contributed, K!Tied, K!Live, K!Free
<1>3. Reached(fs, max) /\ OneFolder(fs, max)
  BY <1>2 DEF Reached, OneFolder, K!Idle
<1>4. OneAtATime(fs, max)
  BY <1>2 DEF OneAtATime, Single, NoneTrashed, AsChecked, Says, K!Idle, K!Free
<1>. QED  BY <1>1, <1>3, <1>4 DEF PromiseInv

(* A request that begins while another is under way ends "whole".           *)
LEMMA PromiseBegin ==
  ASSUME NEW fs, NEW max \in Nat, Null \notin K(fs, max)!Tie, PromiseInv(fs, max),
         NEW r \in Request, NEW p \in {"existing", "find", "mount"}, NEW f \in fs,
         NEW d \in Own \cup {Null}, NEW q \in 0..max, K(fs, max)!Begin(r, p, f, d, q),
         p # "mount" => d \in Own,
         p = "existing" => K(fs, max)!Live(d) /\ tie[d].fed \in {Null, f}
  PROVE  PromiseInv(fs, max)'
<1> DEFINE begun == [at |-> p, fed |-> f, folder |-> d, quota |-> q]
<1>1. /\ deed \in [Request -> K(fs, max)!Deed]
      /\ deed' = [deed EXCEPT ![r] = begun]
      /\ tie' = tie /\ promised' = promised
      /\ whole' = (whole /\ \A s \in Request : deed[s].at = "idle")
  BY DEF PromiseInv, K!TypeOK, K!Begin, K!Quiet, K!At
<1>2. begun \in K(fs, max)!Deed
  BY DEF K!Deed
<1>3. K(fs, max)!TypeOK'
  BY <1>1, <1>2 DEF PromiseInv, K!TypeOK
<1>4. \A g : Contributed(fs, max, g)' = Contributed(fs, max, g)
  BY <1>1 DEF Contributed, K!Tied, K!Live
<1>5. deed'[r] = begun /\ \A s \in Request : s # r => deed'[s] = deed[s]
  BY <1>1
<1>6. Reached(fs, max)'
  BY <1>1, <1>5 DEF PromiseInv, Reached, K!Live
<1>7. OneFolder(fs, max)'
  BY <1>4 DEF PromiseInv, OneFolder
<1>8. OneAtATime(fs, max)'
  <2> SUFFICES ASSUME whole'
               PROVE  /\ Single' /\ NoneTrashed'
                      /\ \A s \in Request : AsChecked(fs, max, s)'
                      /\ \A g \in fs : Settled(g)' => Says(fs, max, g, promised[g])'
    BY DEF OneAtATime
  <2>1. whole /\ \A s \in Request : deed[s].at = "idle"
    BY <1>1
  <2>2. Single' /\ NoneTrashed'
    BY <1>1, <1>5, <2>1 DEF PromiseInv, OneAtATime, Single, NoneTrashed
  <2>3. \A s \in Request : AsChecked(fs, max, s)'
    BY <1>1, <1>5, <2>1 DEF AsChecked, K!Live
  <2>4. \A g \in fs : Says(fs, max, g, promised[g])
    BY <2>1 DEF PromiseInv, OneAtATime, Settled
  <2>. QED  BY <1>1, <1>4, <2>2, <2>3, <2>4 DEF Says
<1>. QED  BY <1>3, <1>6, <1>7, <1>8 DEF PromiseInv

(* What is left of a request's state when it goes on, or is answered.       *)
LEMMA DeedMoves ==
  ASSUME NEW fs, NEW max \in Nat, deed \in [Request -> K(fs, max)!Deed], NEW r \in Request,
         NEW p \in {"existing", "find", "requota", "untie", "tie", "promise", "mount"},
         K(fs, max)!Goto(r, p)
  PROVE  /\ deed' \in [Request -> K(fs, max)!Deed]
         /\ deed'[r].at = p /\ deed'[r].fed = deed[r].fed
         /\ deed'[r].folder = deed[r].folder /\ deed'[r].quota = deed[r].quota
         /\ \A s \in Request : s # r => deed'[s] = deed[s]
  BY DEF K!Goto, K!Deed

(* A request that answers is idle again, and the others stay where they     *)
(* are.                                                                     *)
LEMMA DeedEnds ==
  ASSUME NEW fs, NEW max \in Nat, deed \in [Request -> K(fs, max)!Deed], NEW r \in Request,
         K(fs, max)!Answer(r)
  PROVE  /\ deed' \in [Request -> K(fs, max)!Deed]
         /\ deed'[r].at = "idle"
         /\ \A s \in Request : s # r => deed'[s] = deed[s]
<1>1. K(fs, max)!Idle \in K(fs, max)!Deed
  BY DEF K!Idle, K!Deed
<1>. QED  BY <1>1 DEF K!Answer, K!Idle

(* A row that is only trashed or restored, or given another quota.          *)
LEMMA LiveChanges ==
  ASSUME NEW fs, NEW max \in Nat, tie \in [Own -> K(fs, max)!Tie \cup {Null}],
         NEW d \in Own, tie[d] # Null, Null \notin K(fs, max)!Tie,
         NEW b \in BOOLEAN, tie' = [tie EXCEPT ![d].live = b]
  PROVE  /\ tie' \in [Own -> K(fs, max)!Tie \cup {Null}]
         /\ tie'[d] # Null /\ tie'[d].fed = tie[d].fed /\ tie'[d].role = tie[d].role
         /\ tie'[d].live = b /\ tie'[d].quota = tie[d].quota
         /\ \A e \in Own : e # d => tie'[e] = tie[e]
<1>1. tie[d] \in K(fs, max)!Tie
  OBVIOUS
<1>2. [tie[d] EXCEPT !.live = b] \in K(fs, max)!Tie
  BY <1>1 DEF K!Tie
<1>3. tie' \in [Own -> K(fs, max)!Tie \cup {Null}] /\ tie'[d] \in K(fs, max)!Tie
  BY <1>2
<1>. QED  BY <1>1, <1>3 DEF K!Tie

(* A row whose quota changes stays tied as it was; the other rows stay.     *)
LEMMA QuotaChanges ==
  ASSUME NEW fs, NEW max \in Nat, tie \in [Own -> K(fs, max)!Tie \cup {Null}],
         NEW d \in Own, tie[d] # Null, Null \notin K(fs, max)!Tie,
         NEW q \in 0..max, tie' = [tie EXCEPT ![d].quota = q]
  PROVE  /\ tie' \in [Own -> K(fs, max)!Tie \cup {Null}]
         /\ tie'[d] # Null /\ tie'[d].fed = tie[d].fed /\ tie'[d].role = tie[d].role
         /\ tie'[d].live = tie[d].live /\ tie'[d].quota = q
         /\ \A e \in Own : e # d => tie'[e] = tie[e]
<1>1. tie[d] \in K(fs, max)!Tie
  OBVIOUS
<1>2. [tie[d] EXCEPT !.quota = q] \in K(fs, max)!Tie
  BY <1>1 DEF K!Tie
<1>3. tie' \in [Own -> K(fs, max)!Tie \cup {Null}] /\ tie'[d] \in K(fs, max)!Tie
  BY <1>2
<1>. QED  BY <1>1, <1>3 DEF K!Tie

(* Most steps of a request move it on and leave the tables alone.           *)
LEMMA PromiseStep ==
  ASSUME NEW fs, NEW max \in Nat, Null \notin K(fs, max)!Tie, Null \notin fs,
         PromiseInv(fs, max), [K(fs, max)!Next]_promises
  PROVE  PromiseInv(fs, max)'
<1> USE DEF K!At, K!Goto, K!Answer, K!Idle
<1>t. /\ tie \in [Own -> K(fs, max)!Tie \cup {Null}]
      /\ promised \in [fs -> 0..max]
      /\ deed \in [Request -> K(fs, max)!Deed]
      /\ whole \in BOOLEAN
  BY DEF PromiseInv, K!TypeOK
<1>1. CASE UNCHANGED promises
  BY <1>1 DEF promises, PromiseInv, K!TypeOK, Reached, OneFolder, OneAtATime, Single, NoneTrashed,
              AsChecked, Settled, Says, Contributed, K!Tied, K!Live
<1>2. ASSUME NEW r \in Request, NEW f \in fs, NEW d \in Own, NEW q \in 1..max,
             K(fs, max)!AskContribute(r, f, d, q)
      PROVE  PromiseInv(fs, max)'
  <2>1. q \in 0..max
    OBVIOUS
  <2>. QED  BY <1>2, <2>1, PromiseBegin DEF K!AskContribute
<1>3. ASSUME NEW r \in Request, NEW f \in fs, NEW d \in Own, NEW q \in 1..max,
             K(fs, max)!AskResize(r, f, d, q)
      PROVE  PromiseInv(fs, max)'
  <2>1. q \in 0..max
    OBVIOUS
  <2>. QED  BY <1>3, <2>1, PromiseBegin DEF K!AskResize
<1>4. ASSUME NEW r \in Request, NEW f \in fs, NEW d \in Own, K(fs, max)!AskRelease(r, f, d)
      PROVE  PromiseInv(fs, max)'
  <2>1. 0 \in 0..max
    OBVIOUS
  <2>. QED  BY <1>4, <2>1, PromiseBegin DEF K!AskRelease
<1>5. ASSUME NEW r \in Request, NEW f \in fs, K(fs, max)!AskMount(r, f)
      PROVE  PromiseInv(fs, max)'
  <2>1. 0 \in 0..max
    OBVIOUS
  <2>. QED  BY <1>5, <2>1, PromiseBegin DEF K!AskMount
<1>6. ASSUME NEW r \in Request, K(fs, max)!CheckExisting(r)
      PROVE  PromiseInv(fs, max)'
  <2>0. /\ tie' = tie /\ promised' = promised /\ whole' = whole
        /\ deed[r].at = "existing" /\ deed' \in [Request -> K(fs, max)!Deed]
        /\ \A s \in Request : s # r => deed'[s] = deed[s]
        /\ \/ deed'[r].at = "idle"
           \/ /\ deed'[r].at = "tie" /\ deed'[r].fed = deed[r].fed
              /\ deed'[r].folder = deed[r].folder /\ deed'[r].quota = deed[r].quota
              /\ Contributed(fs, max, deed[r].fed) \subseteq {deed[r].folder}
    BY <1>t, <1>6, DeedMoves, DeedEnds DEF K!CheckExisting, Contributed
  <2>1. K(fs, max)!TypeOK'
    BY <1>t, <2>0 DEF PromiseInv, K!TypeOK, K!Tie, K!Role, K!Deed, K!Free, Reached
  <2>2. Reached(fs, max)'
    BY <1>t, <2>0 DEF PromiseInv, K!Tie, K!Deed, Reached, K!Free
  <2>3. OneFolder(fs, max)'
    BY <1>t, <2>0 DEF PromiseInv, Reached, OneFolder, Contributed, K!Tied, K!Live, K!Taken, K!Free
  <2>4. OneAtATime(fs, max)'
    <3> SUFFICES ASSUME whole'
                 PROVE  /\ Single' /\ NoneTrashed'
                        /\ \A s \in Request : AsChecked(fs, max, s)'
                        /\ \A g \in fs : Settled(g)' => Says(fs, max, g, promised[g])'
      BY DEF OneAtATime
    <3>0. whole /\ Reached(fs, max) /\ OneAtATime(fs, max)
      BY <2>0 DEF PromiseInv
    <3>1. Single'
      BY <1>t, <2>0, <3>0 DEF OneAtATime, Single
    <3>2. NoneTrashed'
      BY <1>t, <2>0, <3>0 DEF OneAtATime, NoneTrashed, AsChecked, K!Free, K!Live
    <3>3. ASSUME NEW s \in Request
          PROVE  AsChecked(fs, max, s)'
      BY <1>t, <2>0, <3>0 DEF OneAtATime, Single, AsChecked, Says, Contributed, K!Tied, K!Live, K!Free, K!Deed
    <3>4. ASSUME NEW g \in fs, Settled(g)'
          PROVE  Says(fs, max, g, promised[g])'
      BY <1>t, <2>0, <3>0, <3>4 DEF OneAtATime, Single, NoneTrashed, AsChecked, Settled, Says, Contributed, K!Tied, K!Live, K!Free
    <3>. QED  BY <3>1, <3>2, <3>3, <3>4
  <2>. QED  BY <2>1, <2>2, <2>3, <2>4 DEF PromiseInv
<1>7. ASSUME NEW r \in Request, K(fs, max)!FindContribution(r)
      PROVE  PromiseInv(fs, max)'
  <2>0. /\ tie' = tie /\ promised' = promised /\ whole' = whole
        /\ deed[r].at = "find" /\ deed' \in [Request -> K(fs, max)!Deed]
        /\ \A s \in Request : s # r => deed'[s] = deed[s]
        /\ \/ deed'[r].at = "idle"
           \/ /\ deed'[r].at \in {"requota", "untie"} /\ (deed'[r].at = "untie" => deed[r].quota = 0)
              /\ deed'[r].fed = deed[r].fed
              /\ deed'[r].folder = deed[r].folder /\ deed'[r].quota = deed[r].quota
              /\ deed[r].folder \in Contributed(fs, max, deed[r].fed)
    BY <1>t, <1>7, DeedMoves, DeedEnds DEF K!FindContribution, Contributed
  <2>1. K(fs, max)!TypeOK'
    BY <1>t, <2>0 DEF PromiseInv, K!TypeOK, K!Tie, K!Role, K!Deed, K!Free, Reached
  <2>2. Reached(fs, max)'
    BY <1>t, <2>0 DEF PromiseInv, K!Tie, K!Deed, Reached, Contributed, K!Tied, K!Live
  <2>3. OneFolder(fs, max)'
    BY <1>t, <2>0 DEF PromiseInv, Reached, OneFolder, Contributed, K!Tied, K!Live, K!Taken, K!Free
  <2>4. OneAtATime(fs, max)'
    <3> SUFFICES ASSUME whole'
                 PROVE  /\ Single' /\ NoneTrashed'
                        /\ \A s \in Request : AsChecked(fs, max, s)'
                        /\ \A g \in fs : Settled(g)' => Says(fs, max, g, promised[g])'
      BY DEF OneAtATime
    <3>0. whole /\ Reached(fs, max) /\ OneAtATime(fs, max)
      BY <2>0 DEF PromiseInv
    <3>1. Single'
      BY <1>t, <2>0, <3>0 DEF OneAtATime, Single
    <3>2. NoneTrashed'
      BY <1>t, <2>0, <3>0 DEF OneAtATime, NoneTrashed, AsChecked, K!Free, K!Live
    <3>3. ASSUME NEW s \in Request
          PROVE  AsChecked(fs, max, s)'
      BY <1>t, <2>0, <3>0 DEF OneAtATime, Single, AsChecked, Says, Contributed, K!Tied, K!Live, K!Free, K!Deed
    <3>4. ASSUME NEW g \in fs, Settled(g)'
          PROVE  Says(fs, max, g, promised[g])'
      BY <1>t, <2>0, <3>0, <3>4 DEF OneAtATime, Single, NoneTrashed, AsChecked, Settled, Says, Contributed, K!Tied, K!Live, K!Free
    <3>. QED  BY <3>1, <3>2, <3>3, <3>4
  <2>. QED  BY <2>1, <2>2, <2>3, <2>4 DEF PromiseInv
<1>8. ASSUME NEW r \in Request, K(fs, max)!TieFolder(r)
      PROVE  PromiseInv(fs, max)'
  <2>0. /\ promised' = promised /\ whole' = whole
        /\ deed[r].at = "tie" /\ deed' \in [Request -> K(fs, max)!Deed]
        /\ \A s \in Request : s # r => deed'[s] = deed[s]
        /\ \/ deed'[r].at = "idle" /\ tie' = tie /\ K(fs, max)!Live(deed[r].folder)
              /\ ~(Contributed(fs, max, deed[r].fed) \subseteq {deed[r].folder})
           \/ /\ deed'[r].at = "promise" /\ deed'[r].fed = deed[r].fed
              /\ deed'[r].folder = deed[r].folder /\ deed'[r].quota = deed[r].quota
              /\ K(fs, max)!Live(deed[r].folder) =>
                   Contributed(fs, max, deed[r].fed) \subseteq {deed[r].folder}
              /\ tie' = [tie EXCEPT ![deed[r].folder] =
                           [fed |-> deed[r].fed, role |-> "contribution", quota |-> deed[r].quota,
                            live |-> tie[deed[r].folder].live]]
    BY <1>t, <1>8, DeedMoves, DeedEnds DEF K!TieFolder, K!Taken, Contributed
  <2>r. deed[r].folder \in Own /\ tie[deed[r].folder] \in K(fs, max)!Tie /\ deed[r].fed \in fs
    BY <1>t, <2>0 DEF PromiseInv, Reached
  <2>n. [fed |-> deed[r].fed, role |-> "contribution", quota |-> deed[r].quota,
                               live |-> tie[deed[r].folder].live] \in K(fs, max)!Tie
    BY <1>t, <2>0, <2>r DEF K!Tie, K!Role, K!Deed
  <2>1. K(fs, max)!TypeOK'
    BY <1>t, <2>0 DEF PromiseInv, K!TypeOK, K!Tie, K!Role, K!Deed, K!Free, Reached
  <2>2. Reached(fs, max)'
    BY <1>t, <2>0, <2>n DEF PromiseInv, Reached
  <2>3. OneFolder(fs, max)'
    BY <1>t, <2>0 DEF PromiseInv, Reached, OneFolder, Contributed, K!Tied, K!Live, K!Taken, K!Free
  <2>4. OneAtATime(fs, max)'
    <3> SUFFICES ASSUME whole'
                 PROVE  /\ Single' /\ NoneTrashed'
                        /\ \A s \in Request : AsChecked(fs, max, s)'
                        /\ \A g \in fs : Settled(g)' => Says(fs, max, g, promised[g])'
      BY DEF OneAtATime
    <3>0. whole /\ Reached(fs, max) /\ OneAtATime(fs, max)
      BY <2>0 DEF PromiseInv
    <3>1. Single'
      BY <1>t, <2>0, <3>0 DEF OneAtATime, Single
    <3>2. NoneTrashed'
      BY <1>t, <2>0, <3>0 DEF OneAtATime, NoneTrashed, AsChecked, K!Free, K!Live
    <3>r. /\ K(fs, max)!Live(deed[r].folder) /\ tie[deed[r].folder].fed \in {Null, deed[r].fed}
          /\ Contributed(fs, max, deed[r].fed) \subseteq {deed[r].folder}
          /\ deed'[r].at = "promise" /\ deed'[r].fed = deed[r].fed /\ deed'[r].quota = deed[r].quota
          /\ \A s \in Request : s # r => deed'[s].at = "idle"
          /\ tie' = [tie EXCEPT ![deed[r].folder] =
                       [fed |-> deed[r].fed, role |-> "contribution", quota |-> deed[r].quota,
                        live |-> tie[deed[r].folder].live]]
      BY <2>0, <2>r, <3>0 DEF OneAtATime, Single, AsChecked, K!Live
    <3>t. /\ tie'[deed[r].folder] # Null /\ tie'[deed[r].folder].live
          /\ tie'[deed[r].folder].fed = deed[r].fed
          /\ tie'[deed[r].folder].role = "contribution"
          /\ tie'[deed[r].folder].quota = deed[r].quota
          /\ \A e \in Own : e # deed[r].folder => tie'[e] = tie[e]
      BY <1>t, <2>r, <2>n, <3>r DEF K!Live
    <3>c. /\ Contributed(fs, max, deed[r].fed)' = {deed[r].folder}
          /\ \A g \in fs : g # deed[r].fed => Contributed(fs, max, g)' = Contributed(fs, max, g) \ {deed[r].folder}
          /\ \A g \in fs : g # deed[r].fed => deed[r].folder \notin Contributed(fs, max, g)
          /\ tie'[deed[r].folder].quota = deed[r].quota
      <4>1. Contributed(fs, max, deed[r].fed)' = {deed[r].folder}
        BY <2>r, <3>r, <3>t DEF Contributed, K!Tied, K!Live
      <4>2. ASSUME NEW g \in fs, g # deed[r].fed
            PROVE  /\ Contributed(fs, max, g)' = Contributed(fs, max, g) \ {deed[r].folder}
                   /\ deed[r].folder \notin Contributed(fs, max, g)
        <5>1. deed[r].folder \notin Contributed(fs, max, g)
          BY <3>r, <3>0, <4>2, <2>0, <2>r DEF Contributed, K!Tied, K!Live, OneAtATime, AsChecked, NoneTrashed
        <5>. QED  BY <2>r, <3>t, <4>2, <5>1 DEF Contributed, K!Tied, K!Live
      <4>. QED  BY <3>t, <4>1, <4>2
    <3>3. ASSUME NEW s \in Request
          PROVE  AsChecked(fs, max, s)'
      BY <3>c, <3>r DEF AsChecked, Says
    <3>4. ASSUME NEW g \in fs, Settled(g)'
          PROVE  Says(fs, max, g, promised[g])'
      <4>1. g # deed[r].fed
        BY <3>4, <3>r DEF Settled
      <4>2. Says(fs, max, g, promised[g])
        BY <2>0, <3>0, <3>r, <4>1 DEF OneAtATime, Single, Settled
      <4>. QED  BY <1>t, <2>0, <2>r, <3>c, <3>r, <4>1, <4>2 DEF Says, Contributed, K!Tied
    <3>. QED  BY <3>1, <3>2, <3>3, <3>4
  <2>. QED  BY <2>1, <2>2, <2>3, <2>4 DEF PromiseInv
<1>9. ASSUME NEW r \in Request, K(fs, max)!Requota(r)
      PROVE  PromiseInv(fs, max)'
  <2>r. deed[r].folder \in Own /\ tie[deed[r].folder] # Null /\ deed[r].quota \in 0..max
    BY <1>t, <1>9 DEF PromiseInv, Reached, K!Requota, K!Deed
  <2>0. /\ promised' = promised /\ whole' = whole
        /\ deed[r].at = "requota" /\ deed' \in [Request -> K(fs, max)!Deed]
        /\ \A s \in Request : s # r => deed'[s] = deed[s]
        /\ deed'[r].at = "promise" /\ deed'[r].fed = deed[r].fed
        /\ deed'[r].folder = deed[r].folder /\ deed'[r].quota = deed[r].quota
        /\ tie' \in [Own -> K(fs, max)!Tie \cup {Null}]
        /\ tie'[deed[r].folder] # Null /\ tie'[deed[r].folder].fed = tie[deed[r].folder].fed
        /\ tie'[deed[r].folder].role = tie[deed[r].folder].role
        /\ tie'[deed[r].folder].live = tie[deed[r].folder].live
        /\ tie'[deed[r].folder].quota = deed[r].quota
        /\ \A e \in Own : e # deed[r].folder => tie'[e] = tie[e]
    <3>1. /\ promised' = promised /\ whole' = whole /\ deed[r].at = "requota"
          /\ K(fs, max)!Goto(r, "promise")
          /\ tie' = [tie EXCEPT ![deed[r].folder].quota = deed[r].quota]
      BY <1>9 DEF K!Requota
    <3>2. /\ deed' \in [Request -> K(fs, max)!Deed]
          /\ \A s \in Request : s # r => deed'[s] = deed[s]
          /\ deed'[r].at = "promise" /\ deed'[r].fed = deed[r].fed
          /\ deed'[r].folder = deed[r].folder /\ deed'[r].quota = deed[r].quota
      BY <1>t, <3>1, DeedMoves
    <3>t. /\ tie' \in [Own -> K(fs, max)!Tie \cup {Null}]
          /\ tie'[deed[r].folder] # Null
          /\ tie'[deed[r].folder].fed = tie[deed[r].folder].fed
          /\ tie'[deed[r].folder].role = tie[deed[r].folder].role
          /\ tie'[deed[r].folder].live = tie[deed[r].folder].live
          /\ tie'[deed[r].folder].quota = deed[r].quota
          /\ \A e \in Own : e # deed[r].folder => tie'[e] = tie[e]
      <4> DEFINE d == deed[r].folder
                 q == deed[r].quota
      <4>1. d \in Own /\ tie[d] # Null /\ q \in 0..max /\ tie' = [tie EXCEPT ![d].quota = q]
        BY <2>r, <3>1
      <4> HIDE DEF d, q
      <4>2. /\ tie' \in [Own -> K(fs, max)!Tie \cup {Null}]
            /\ tie'[d] # Null /\ tie'[d].fed = tie[d].fed /\ tie'[d].role = tie[d].role
            /\ tie'[d].live = tie[d].live /\ tie'[d].quota = q
            /\ \A e \in Own : e # d => tie'[e] = tie[e]
        BY <1>t, <4>1, QuotaChanges
      <4>. QED  BY <4>2 DEF d, q
    <3>. QED  BY <3>1, <3>2, <3>t
  <2>1. K(fs, max)!TypeOK'
    BY <1>t, <2>0 DEF PromiseInv, K!TypeOK, K!Tie, K!Role, K!Deed, K!Free, Reached
  <2>2. Reached(fs, max)'
    BY <1>t, <2>0, <2>r DEF PromiseInv, Reached
  <2>3. OneFolder(fs, max)'
    BY <1>t, <2>0 DEF PromiseInv, Reached, OneFolder, Contributed, K!Tied, K!Live, K!Taken, K!Free
  <2>4. OneAtATime(fs, max)'
    <3> SUFFICES ASSUME whole'
                 PROVE  /\ Single' /\ NoneTrashed'
                        /\ \A s \in Request : AsChecked(fs, max, s)'
                        /\ \A g \in fs : Settled(g)' => Says(fs, max, g, promised[g])'
      BY DEF OneAtATime
    <3>0. whole /\ Reached(fs, max) /\ OneAtATime(fs, max)
      BY <2>0 DEF PromiseInv
    <3>r. /\ deed[r].folder \in Contributed(fs, max, deed[r].fed)
          /\ deed[r].fed \in fs
          /\ \A s \in Request : s # r => deed'[s].at = "idle"
      BY <2>0, <2>r, <3>0 DEF OneAtATime, Single, AsChecked, Reached
    <3>c. \A g \in fs : Contributed(fs, max, g)' = Contributed(fs, max, g)
      BY <1>t, <2>r, <2>0 DEF Contributed, K!Tied, K!Live
    <3>1. Single'
      BY <3>r DEF Single
    <3>2. NoneTrashed'
      BY <1>t, <2>0, <2>r, <3>0 DEF OneAtATime, NoneTrashed
    <3>3. ASSUME NEW s \in Request
          PROVE  AsChecked(fs, max, s)'
      <4>1. \A e \in Contributed(fs, max, deed[r].fed) : e = deed[r].folder
        BY <3>r DEF PromiseInv, OneFolder
      <4>. QED  BY <2>0, <3>c, <3>r, <4>1 DEF AsChecked, Says
    <3>4. ASSUME NEW g \in fs, Settled(g)'
          PROVE  Says(fs, max, g, promised[g])'
      <4>1. g # deed[r].fed
        BY <2>0, <3>4 DEF Settled
      <4>2. Says(fs, max, g, promised[g]) /\ deed[r].folder \notin Contributed(fs, max, g)
        BY <2>0, <3>0, <3>r, <4>1 DEF OneAtATime, Single, Settled, Contributed, K!Tied
      <4>. QED  BY <2>0, <3>c, <4>2 DEF Says, Contributed, K!Tied
    <3>. QED  BY <3>1, <3>2, <3>3, <3>4
  <2>. QED  BY <2>1, <2>2, <2>3, <2>4 DEF PromiseInv
<1>10. ASSUME NEW r \in Request, K(fs, max)!Untie(r)
      PROVE  PromiseInv(fs, max)'
  <2>0. /\ promised' = promised /\ whole' = whole
        /\ deed[r].at = "untie" /\ deed' \in [Request -> K(fs, max)!Deed]
        /\ \A s \in Request : s # r => deed'[s] = deed[s]
        /\ deed'[r].at = "promise" /\ deed'[r].fed = deed[r].fed
        /\ deed'[r].folder = deed[r].folder /\ deed'[r].quota = deed[r].quota
        /\ tie' = [tie EXCEPT ![deed[r].folder] =
                     [fed |-> Null, role |-> "none", quota |-> 0, live |-> tie[deed[r].folder].live]]
    BY <1>t, <1>10, DeedMoves DEF K!Untie, K!Free
  <2>r. deed[r].folder \in Own /\ tie[deed[r].folder] \in K(fs, max)!Tie /\ deed[r].fed \in fs
    BY <1>t, <2>0 DEF PromiseInv, Reached
  <2>n. [fed |-> Null, role |-> "none", quota |-> 0,
                               live |-> tie[deed[r].folder].live] \in K(fs, max)!Tie
    BY <1>t, <2>0, <2>r DEF K!Tie, K!Role, K!Deed
  <2>1. K(fs, max)!TypeOK'
    BY <1>t, <2>0 DEF PromiseInv, K!TypeOK, K!Tie, K!Role, K!Deed, K!Free, Reached
  <2>2. Reached(fs, max)'
    BY <1>t, <2>0, <2>n DEF PromiseInv, Reached
  <2>3. OneFolder(fs, max)'
    BY <1>t, <2>0 DEF PromiseInv, Reached, OneFolder, Contributed, K!Tied, K!Live, K!Taken, K!Free
  <2>4. OneAtATime(fs, max)'
    <3> SUFFICES ASSUME whole'
                 PROVE  /\ Single' /\ NoneTrashed'
                        /\ \A s \in Request : AsChecked(fs, max, s)'
                        /\ \A g \in fs : Settled(g)' => Says(fs, max, g, promised[g])'
      BY DEF OneAtATime
    <3>0. whole /\ Reached(fs, max) /\ OneAtATime(fs, max)
      BY <2>0 DEF PromiseInv
    <3>1. Single'
      BY <1>t, <2>0, <3>0 DEF OneAtATime, Single
    <3>2. NoneTrashed'
      BY <1>t, <2>0, <3>0 DEF OneAtATime, NoneTrashed, AsChecked, K!Free, K!Live
    <3>r. /\ deed[r].folder \in Contributed(fs, max, deed[r].fed)
          /\ deed[r].quota = 0
          /\ \A s \in Request : s # r => deed'[s].at = "idle"
      BY <2>0, <2>r, <3>0 DEF OneAtATime, Single, AsChecked, Reached
    <3>c. /\ Contributed(fs, max, deed[r].fed)' = {}
          /\ \A g \in fs : g # deed[r].fed => Contributed(fs, max, g)' = Contributed(fs, max, g)
          /\ \A g \in fs : g # deed[r].fed => deed[r].folder \notin Contributed(fs, max, g)
      <4>1. \A e \in Contributed(fs, max, deed[r].fed) : e = deed[r].folder
        BY <2>r, <3>r DEF PromiseInv, OneFolder
      <4>. QED  BY <1>t, <2>0, <2>r, <2>n, <3>r, <4>1 DEF Contributed, K!Tied, K!Live
    <3>3. ASSUME NEW s \in Request
          PROVE  AsChecked(fs, max, s)'
      BY <2>0, <3>c, <3>r DEF AsChecked, Says
    <3>4. ASSUME NEW g \in fs, Settled(g)'
          PROVE  Says(fs, max, g, promised[g])'
      <4>1. g # deed[r].fed
        BY <2>0, <3>4 DEF Settled
      <4>2. Says(fs, max, g, promised[g])
        BY <2>0, <3>0, <3>r, <4>1 DEF OneAtATime, Single, Settled
      <4>. QED  BY <1>t, <2>0, <2>r, <3>c, <4>1, <4>2 DEF Says, Contributed, K!Tied
    <3>. QED  BY <3>1, <3>2, <3>3, <3>4
  <2>. QED  BY <2>1, <2>2, <2>3, <2>4 DEF PromiseInv
<1>11. ASSUME NEW r \in Request, K(fs, max)!Promise(r)
      PROVE  PromiseInv(fs, max)'
  <2>0. /\ tie' = tie /\ whole' = whole /\ promised' = [promised EXCEPT ![deed[r].fed] = deed[r].quota]
        /\ deed[r].at = "promise" /\ deed' \in [Request -> K(fs, max)!Deed]
        /\ deed'[r].at = "idle"
        /\ \A s \in Request : s # r => deed'[s] = deed[s]
    BY <1>t, <1>11, DeedEnds DEF K!Promise
  <2>1. K(fs, max)!TypeOK'
    BY <1>t, <2>0 DEF PromiseInv, K!TypeOK, K!Tie, K!Role, K!Deed, K!Free, Reached
  <2>2. Reached(fs, max)'
    BY <1>t, <2>0 DEF PromiseInv, K!Tie, K!Deed, Reached, K!Free
  <2>3. OneFolder(fs, max)'
    BY <1>t, <2>0 DEF PromiseInv, Reached, OneFolder, Contributed, K!Tied, K!Live, K!Taken, K!Free
  <2>4. OneAtATime(fs, max)'
    <3> SUFFICES ASSUME whole'
                 PROVE  /\ Single' /\ NoneTrashed'
                        /\ \A s \in Request : AsChecked(fs, max, s)'
                        /\ \A g \in fs : Settled(g)' => Says(fs, max, g, promised[g])'
      BY DEF OneAtATime
    <3>0. whole /\ Reached(fs, max) /\ OneAtATime(fs, max)
      BY <2>0 DEF PromiseInv
    <3>1. Single'
      BY <1>t, <2>0, <3>0 DEF OneAtATime, Single
    <3>2. NoneTrashed'
      BY <1>t, <2>0, <3>0 DEF OneAtATime, NoneTrashed, AsChecked, K!Free, K!Live
    <3>3. ASSUME NEW s \in Request
          PROVE  AsChecked(fs, max, s)'
      BY <1>t, <2>0, <3>0 DEF OneAtATime, Single, AsChecked, Says, Contributed, K!Tied, K!Live, K!Free, K!Deed
    <3>4. ASSUME NEW g \in fs, Settled(g)'
          PROVE  Says(fs, max, g, promised[g])'
      BY <1>t, <2>0, <3>0, <3>4 DEF OneAtATime, Single, NoneTrashed, AsChecked, Settled, Says, Contributed, K!Tied, K!Live, K!Free
    <3>. QED  BY <3>1, <3>2, <3>3, <3>4
  <2>. QED  BY <2>1, <2>2, <2>3, <2>4 DEF PromiseInv
<1>12. ASSUME NEW r \in Request, K(fs, max)!InsertMount(r)
      PROVE  PromiseInv(fs, max)'
  <2>m. PICK d \in Own :
          /\ tie[d] = Null
          /\ tie' = [tie EXCEPT ![d] = [fed |-> deed[r].fed, role |-> "mount", quota |-> 0, live |-> TRUE]]
    BY <1>12 DEF K!InsertMount
  <2>0. /\ promised' = promised /\ whole' = whole
        /\ deed[r].at = "mount" /\ deed' \in [Request -> K(fs, max)!Deed]
        /\ deed'[r].at = "idle"
        /\ \A s \in Request : s # r => deed'[s] = deed[s]
        /\ tie' = [tie EXCEPT ![d] = [fed |-> deed[r].fed, role |-> "mount", quota |-> 0, live |-> TRUE]]
        /\ tie[d] = Null
    BY <1>t, <1>12, <2>m, DeedEnds DEF K!InsertMount
  <2>1. K(fs, max)!TypeOK'
    BY <1>t, <2>0 DEF PromiseInv, K!TypeOK, K!Tie, K!Role, K!Deed, K!Free, Reached
  <2>2. Reached(fs, max)'
    BY <1>t, <2>0 DEF PromiseInv, K!Tie, K!Deed, Reached, K!Free
  <2>3. OneFolder(fs, max)'
    BY <1>t, <2>0 DEF PromiseInv, Reached, OneFolder, Contributed, K!Tied, K!Live, K!Taken, K!Free
  <2>4. OneAtATime(fs, max)'
    <3> SUFFICES ASSUME whole'
                 PROVE  /\ Single' /\ NoneTrashed'
                        /\ \A s \in Request : AsChecked(fs, max, s)'
                        /\ \A g \in fs : Settled(g)' => Says(fs, max, g, promised[g])'
      BY DEF OneAtATime
    <3>0. whole /\ Reached(fs, max) /\ OneAtATime(fs, max)
      BY <2>0 DEF PromiseInv
    <3>1. Single'
      BY <1>t, <2>0, <3>0 DEF OneAtATime, Single
    <3>2. NoneTrashed'
      BY <1>t, <2>0, <3>0 DEF OneAtATime, NoneTrashed, AsChecked, K!Free, K!Live
    <3>3. ASSUME NEW s \in Request
          PROVE  AsChecked(fs, max, s)'
      BY <1>t, <2>0, <3>0 DEF OneAtATime, Single, AsChecked, Says, Contributed, K!Tied, K!Live, K!Free, K!Deed
    <3>4. ASSUME NEW g \in fs, Settled(g)'
          PROVE  Says(fs, max, g, promised[g])'
      BY <1>t, <2>0, <3>0, <3>4 DEF OneAtATime, Single, NoneTrashed, AsChecked, Settled, Says, Contributed, K!Tied, K!Live, K!Free
    <3>. QED  BY <3>1, <3>2, <3>3, <3>4
  <2>. QED  BY <2>1, <2>2, <2>3, <2>4 DEF PromiseInv
<1>13. ASSUME NEW r \in Request, K(fs, max)!Interrupt(r)
      PROVE  PromiseInv(fs, max)'
  <2>0. /\ tie' = tie /\ promised' = promised /\ whole' = FALSE
        /\ deed' \in [Request -> K(fs, max)!Deed]
        /\ deed'[r].at = "idle"
        /\ \A s \in Request : s # r => deed'[s] = deed[s]
    BY <1>t, <1>13, DeedEnds DEF K!Interrupt
  <2>1. K(fs, max)!TypeOK'
    BY <1>t, <2>0 DEF PromiseInv, K!TypeOK, K!Tie, K!Role, K!Deed, K!Free, Reached
  <2>2. Reached(fs, max)'
    BY <1>t, <2>0 DEF PromiseInv, K!Tie, K!Deed, Reached, K!Free
  <2>3. OneFolder(fs, max)'
    BY <1>t, <2>0 DEF PromiseInv, Reached, OneFolder, Contributed, K!Tied, K!Live, K!Taken, K!Free
  <2>4. OneAtATime(fs, max)'
    <3> SUFFICES ASSUME whole'
                 PROVE  /\ Single' /\ NoneTrashed'
                        /\ \A s \in Request : AsChecked(fs, max, s)'
                        /\ \A g \in fs : Settled(g)' => Says(fs, max, g, promised[g])'
      BY DEF OneAtATime
    <3>0. whole /\ Reached(fs, max) /\ OneAtATime(fs, max)
      BY <2>0 DEF PromiseInv
    <3>1. Single'
      BY <1>t, <2>0, <3>0 DEF OneAtATime, Single
    <3>2. NoneTrashed'
      BY <1>t, <2>0, <3>0 DEF OneAtATime, NoneTrashed, AsChecked, K!Free, K!Live
    <3>3. ASSUME NEW s \in Request
          PROVE  AsChecked(fs, max, s)'
      BY <1>t, <2>0, <3>0 DEF OneAtATime, Single, AsChecked, Says, Contributed, K!Tied, K!Live, K!Free, K!Deed
    <3>4. ASSUME NEW g \in fs, Settled(g)'
          PROVE  Says(fs, max, g, promised[g])'
      BY <1>t, <2>0, <3>0, <3>4 DEF OneAtATime, Single, NoneTrashed, AsChecked, Settled, Says, Contributed, K!Tied, K!Live, K!Free
    <3>. QED  BY <3>1, <3>2, <3>3, <3>4
  <2>. QED  BY <2>1, <2>2, <2>3, <2>4 DEF PromiseInv
<1>14. ASSUME NEW d \in Own, K(fs, max)!Trash(d)
      PROVE  PromiseInv(fs, max)'
  <2>0. /\ promised' = promised /\ deed' = deed
        /\ tie' \in [Own -> K(fs, max)!Tie \cup {Null}]
        /\ tie[d] # Null /\ tie'[d] # Null /\ tie'[d].fed = tie[d].fed /\ tie'[d].role = tie[d].role
        /\ tie[d].live /\ ~tie'[d].live
        /\ \A e \in Own : e # d => tie'[e] = tie[e]
        /\ whole' \in BOOLEAN
        /\ whole' => /\ whole /\ tie[d].role # "contribution"
                     /\ \A s \in Request : deed[s].at = "idle"
    <3>1. /\ promised' = promised /\ deed' = deed /\ tie[d] # Null /\ tie[d].live
          /\ tie' = [tie EXCEPT ![d].live = FALSE]
          /\ whole' = (whole /\ K(fs, max)!Quiet /\ tie[d].role # "contribution")
      BY <1>14 DEF K!Trash, K!Live
    <3>2. /\ whole' \in BOOLEAN
          /\ whole' => whole /\ tie[d].role # "contribution" /\ \A s \in Request : deed[s].at = "idle"
      BY <3>1 DEF K!Quiet
    <3>t. /\ tie' \in [Own -> K(fs, max)!Tie \cup {Null}]
          /\ tie'[d] # Null /\ tie'[d].fed = tie[d].fed /\ tie'[d].role = tie[d].role
          /\ tie'[d].live = FALSE /\ tie'[d].quota = tie[d].quota
          /\ \A e \in Own : e # d => tie'[e] = tie[e]
      BY <1>t, <3>1, LiveChanges
    <3>. QED  BY <3>1, <3>t, <3>2
  <2>1. K(fs, max)!TypeOK'
    BY <1>t, <2>0 DEF PromiseInv, K!TypeOK, K!Tie, K!Role, K!Deed, K!Free, Reached
  <2>2. Reached(fs, max)'
    BY <1>t, <2>0 DEF PromiseInv, K!Tie, K!Deed, Reached, K!Free
  <2>3. OneFolder(fs, max)'
    BY <1>t, <2>0 DEF PromiseInv, Reached, OneFolder, Contributed, K!Tied, K!Live, K!Taken, K!Free
  <2>4. OneAtATime(fs, max)'
    <3> SUFFICES ASSUME whole'
                 PROVE  /\ Single' /\ NoneTrashed'
                        /\ \A s \in Request : AsChecked(fs, max, s)'
                        /\ \A g \in fs : Settled(g)' => Says(fs, max, g, promised[g])'
      BY DEF OneAtATime
    <3>0. whole /\ Reached(fs, max) /\ OneAtATime(fs, max)
      BY <2>0 DEF PromiseInv
    <3>1. Single'
      BY <1>t, <2>0, <3>0 DEF OneAtATime, Single
    <3>2. NoneTrashed'
      BY <1>t, <2>0, <3>0 DEF OneAtATime, NoneTrashed, AsChecked, K!Free, K!Live
    <3>3. ASSUME NEW s \in Request
          PROVE  AsChecked(fs, max, s)'
      BY <1>t, <2>0, <3>0 DEF OneAtATime, Single, AsChecked, Says, Contributed, K!Tied, K!Live, K!Free, K!Deed
    <3>4. ASSUME NEW g \in fs, Settled(g)'
          PROVE  Says(fs, max, g, promised[g])'
      BY <1>t, <2>0, <3>0, <3>4 DEF OneAtATime, Single, NoneTrashed, AsChecked, Settled, Says, Contributed, K!Tied, K!Live, K!Free
    <3>. QED  BY <3>1, <3>2, <3>3, <3>4
  <2>. QED  BY <2>1, <2>2, <2>3, <2>4 DEF PromiseInv
<1>15. ASSUME NEW d \in Own, K(fs, max)!RestoreFolder(d)
      PROVE  PromiseInv(fs, max)'
  <2>0. /\ promised' = promised /\ deed' = deed /\ whole' = whole
        /\ tie' \in [Own -> K(fs, max)!Tie \cup {Null}]
        /\ tie[d] # Null /\ tie'[d] # Null /\ tie'[d].fed = tie[d].fed /\ tie'[d].role = tie[d].role
        /\ ~tie[d].live /\ tie'[d].live /\ tie'[d].quota = tie[d].quota
        /\ \A e \in Own : e # d => tie'[e] = tie[e]
        /\ tie[d].role = "contribution" => Contributed(fs, max, tie[d].fed) \subseteq {d}
    <3>1. /\ promised' = promised /\ deed' = deed /\ whole' = whole /\ tie[d] # Null /\ ~tie[d].live
          /\ tie' = [tie EXCEPT ![d].live = TRUE]
          /\ tie[d].role = "contribution" => Contributed(fs, max, tie[d].fed) \subseteq {d}
      BY <1>15 DEF K!RestoreFolder, K!Taken, Contributed
    <3>t. /\ tie' \in [Own -> K(fs, max)!Tie \cup {Null}]
          /\ tie'[d] # Null /\ tie'[d].fed = tie[d].fed /\ tie'[d].role = tie[d].role
          /\ tie'[d].live = TRUE /\ tie'[d].quota = tie[d].quota
          /\ \A e \in Own : e # d => tie'[e] = tie[e]
      BY <1>t, <3>1, LiveChanges
    <3>. QED  BY <3>1, <3>t
  <2>1. K(fs, max)!TypeOK'
    BY <1>t, <2>0 DEF PromiseInv, K!TypeOK, K!Tie, K!Role, K!Deed, K!Free, Reached
  <2>2. Reached(fs, max)'
    BY <1>t, <2>0 DEF PromiseInv, K!Tie, K!Deed, Reached, K!Free
  <2>3. OneFolder(fs, max)'
    BY <1>t, <2>0 DEF PromiseInv, Reached, OneFolder, Contributed, K!Tied, K!Live, K!Taken, K!Free
  <2>4. OneAtATime(fs, max)'
    <3> SUFFICES ASSUME whole'
                 PROVE  /\ Single' /\ NoneTrashed'
                        /\ \A s \in Request : AsChecked(fs, max, s)'
                        /\ \A g \in fs : Settled(g)' => Says(fs, max, g, promised[g])'
      BY DEF OneAtATime
    <3>0. whole /\ Reached(fs, max) /\ OneAtATime(fs, max)
      BY <2>0 DEF PromiseInv
    <3>1. Single'
      BY <1>t, <2>0, <3>0 DEF OneAtATime, Single
    <3>2. NoneTrashed'
      BY <1>t, <2>0, <3>0 DEF OneAtATime, NoneTrashed, AsChecked, K!Free, K!Live
    <3>c. \A g \in fs : Contributed(fs, max, g)' = Contributed(fs, max, g)
      BY <1>t, <2>0, <3>0 DEF OneAtATime, NoneTrashed, Contributed, K!Tied, K!Live
    <3>3. ASSUME NEW s \in Request
          PROVE  AsChecked(fs, max, s)'
      BY <1>t, <2>0, <3>0, <3>c DEF OneAtATime, AsChecked, Says, Reached, Contributed, K!Tied, K!Live
    <3>4. ASSUME NEW g \in fs, Settled(g)'
          PROVE  Says(fs, max, g, promised[g])'
      BY <1>t, <2>0, <3>0, <3>c, <3>4 DEF OneAtATime, Settled, Says, Contributed, K!Tied
    <3>. QED  BY <3>1, <3>2, <3>3, <3>4
  <2>. QED  BY <2>1, <2>2, <2>3, <2>4 DEF PromiseInv
<1>. QED  BY <1>1, <1>2, <1>3, <1>4, <1>5, <1>6, <1>7, <1>8, <1>9, <1>10, <1>11, <1>12, <1>13, <1>14, <1>15 DEF K!Next

(* The federation and sizes of either configuration are those of "quotas"   *)
(* and "folders".                                                           *)
PeersInv ==
  /\ focus = "founding" => FoundInv
  /\ focus = "quotas" => PromiseInv(Alone, 2)
  /\ focus = "folders" => PromiseInv(Joined, 1)

(* The invariant says that the peers are told what is promised.             *)
LEMMA PromisesFollow ==
  ASSUME NEW fs, NEW max \in Nat, PromiseInv(fs, max)
  PROVE  K(fs, max)!PromisesAgree
<1> SUFFICES ASSUME NEW f \in fs
             PROVE  /\ \A d, e \in Contributed(fs, max, f) : d = e
                    /\ whole /\ K(fs, max)!Quiet =>
                         /\ K(fs, max)!QuotaOf(f) \subseteq {promised[f]}
                         /\ K(fs, max)!QuotaOf(f) = {} => promised[f] = 0
  BY DEF K!PromisesAgree, Contributed
<1>1. \A d, e \in Contributed(fs, max, f) : d = e
  BY DEF PromiseInv, OneFolder
<1>2. ASSUME whole, K(fs, max)!Quiet
      PROVE  /\ K(fs, max)!QuotaOf(f) \subseteq {promised[f]}
             /\ K(fs, max)!QuotaOf(f) = {} => promised[f] = 0
  <2>1. Says(fs, max, f, promised[f])
    BY <1>2 DEF PromiseInv, OneAtATime, Settled, K!Quiet, K!At
  <2>. QED  BY <2>1 DEF Says, K!QuotaOf, Contributed
<1>. QED  BY <1>1, <1>2

(* However many first callers there are, and whatever is contributed,       *)
(* resized, released, trashed, restored or interrupted, in any order: peers *)
(* are told one identity and no two folders are contributed to one          *)
(* federation; one request at a time, what is promised is what is tied.     *)
THEOREM PeersTold == MCSpec => []PeersAreToldWhatIs
<1>1. MCInit => PeersInv
  <2> SUFFICES ASSUME MCInit
               PROVE  PeersInv
    OBVIOUS
  <2>1. focus = "founding" => FoundInv
    BY FoundInit DEF MCInit
  <2>2. focus = "quotas" => PromiseInv(Alone, 2)
    BY PromiseInit, NoRowIsNull DEF MCInit
  <2>3. focus = "folders" => PromiseInv(Joined, 1)
    BY PromiseInit, NoRowIsNull DEF MCInit
  <2>. QED  BY <2>1, <2>2, <2>3 DEF PeersInv
<1>2. PeersInv /\ [MCNext]_allVars => PeersInv'
  <2> SUFFICES ASSUME PeersInv, [MCNext]_allVars
               PROVE  PeersInv'
    OBVIOUS
  <2>1. focus' = focus
    BY DEF MCNext, allVars
  <2>2. focus = "founding" => [N!Next]_founding
    BY DEF MCNext, allVars
  <2>3. focus = "quotas" => [K(Alone, 2)!Next]_promises
    BY DEF MCNext, allVars
  <2>4. focus = "folders" => [K(Joined, 1)!Next]_promises
    BY DEF MCNext, allVars
  <2>5. focus = "founding" => FoundInv'
    BY <2>2, FoundStep DEF PeersInv
  <2>6. focus = "quotas" => PromiseInv(Alone, 2)'
    BY <2>3, PromiseStep, NoRowIsNull DEF PeersInv
  <2>7. focus = "folders" => PromiseInv(Joined, 1)'
    BY <2>4, PromiseStep, NoRowIsNull DEF PeersInv
  <2>. QED  BY <2>1, <2>5, <2>6, <2>7 DEF PeersInv
<1>3. PeersInv => PeersAreToldWhatIs
  BY PromisesFollow DEF PeersInv, PeersAreToldWhatIs, FoundInv
<1>. QED  BY <1>1, <1>2, <1>3, PTL DEF MCSpec

----------------------------------------------------------------------------
(* Share links: a viewing knows the link as it was made, and one about to   *)
(* fetch what is burnt has deleted the row itself.                          *)
Reading(v) == view[v].at \in {"read", "checked", "fetch"}
AsMade == \A v \in Viewing : Reading(v) =>
  /\ view[v].link \in Link /\ link[view[v].link] # Null
  /\ view[v].row # Null /\ view[v].row.burn = link[view[v].link].burn
Burnt(v, l) == link[l].burn /\ ~view[v].owner => ended[l] = v
FetchesBurnt == \A v \in Viewing : view[v].at = "fetch" => Burnt(v, view[v].link)
(* What was sent was sent by a viewing that is over.                        *)
SentByDone == \A p \in shown : link[p[2]] # Null /\ view[p[1]].at = "done"
LinkInv == S!TypeOK /\ AsMade /\ FetchesBurnt /\ SentByDone /\ S!BurnShownOnce

(* At the start there is no link.                                           *)
LEMMA LinkInit == S!Init => LinkInv
<1> SUFFICES ASSUME S!Init PROVE LinkInv
  OBVIOUS
<1>1. S!Unread \in S!View
  BY DEF S!Unread, S!View, S!Step
<1>2. S!TypeOK
  BY <1>1, Sizes DEF S!Init, S!TypeOK
<1>. QED  BY <1>2 DEF S!Init, S!Unread, LinkInv, AsMade, FetchesBurnt, SentByDone, S!BurnShownOnce, Reading

(* Viewings stay where they are and links as they were made; rows may go.   *)
LEMMA LinksOnly ==
  ASSUME LinkInv, link' \in [Link -> S!Row \cup {Null}],
         \A l \in Link : link[l] # Null => link'[l] # Null /\ link'[l].burn = link[l].burn,
         ended' \in [Link -> Viewing \cup {"route", Null}],
         \A l \in Link : ended[l] # Null => ended'[l] = ended[l],
         view' = view, shown' = shown,
         tries' \in [Link -> 0..Tries], state' \in {"live", "blocked", "trashed", "purged"}
  PROVE  LinkInv'
<1> USE NoRowIsNull DEF LinkInv, S!TypeOK
<1>1. S!TypeOK'
  OBVIOUS
<1>2. AsMade'
  BY DEF AsMade, Reading
<1>3. FetchesBurnt'
  BY DEF FetchesBurnt, Burnt, AsMade, Reading
<1>4. SentByDone' /\ S!BurnShownOnce'
  BY DEF SentByDone, S!BurnShownOnce
<1>. QED  BY <1>1, <1>2, <1>3, <1>4

(* One viewing that is not over goes on.                                    *)
LEMMA ViewMoves ==
  ASSUME LinkInv, NEW v \in Viewing, view[v].at # "done", NEW w \in S!View,
         view' = [view EXCEPT ![v] = w],
         link' = link, shown' = shown, state' = state,
         ended' \in [Link -> Viewing \cup {"route", Null}],
         \A l \in Link : ended[l] # Null => ended'[l] = ended[l],
         tries' \in [Link -> 0..Tries],
         w.at \in {"read", "checked", "fetch"} =>
           /\ w.link \in Link /\ link[w.link] # Null
           /\ w.row # Null /\ w.row.burn = link[w.link].burn,
         w.at = "fetch" /\ link[w.link].burn /\ ~w.owner => ended'[w.link] = v
  PROVE  LinkInv'
<1> USE NoRowIsNull DEF LinkInv, S!TypeOK
<1>0. view'[v] = w /\ \A u \in Viewing : u # v => view'[u] = view[u]
  OBVIOUS
<1>1. S!TypeOK'
  OBVIOUS
<1>2. AsMade'
  BY <1>0 DEF AsMade, Reading
<1>3. FetchesBurnt'
  BY <1>0 DEF FetchesBurnt, Burnt, AsMade, Reading
<1>4. SentByDone' /\ S!BurnShownOnce'
  BY <1>0 DEF SentByDone, S!BurnShownOnce
<1>. QED  BY <1>1, <1>2, <1>3, <1>4

(* A link is used up by the statement that reads it: no step shows it       *)
(* again.                                                                   *)
LEMMA LinkStep == LinkInv /\ [S!Next]_links => LinkInv'
<1> SUFFICES ASSUME LinkInv, [S!Next]_links
             PROVE  LinkInv'
  OBVIOUS
<1> USE NoRowIsNull
<1>t. S!TypeOK
  BY DEF LinkInv
<1>1. CASE UNCHANGED links
  BY <1>t, <1>1, LinksOnly DEF links, S!TypeOK
<1>2. ASSUME NEW l \in Link, S!CreateShare(l)
      PROVE  LinkInv'
  <2>1. PICK b \in BOOLEAN, p \in BOOLEAN :
          link' = [link EXCEPT ![l] = [burn |-> b, password |-> p, expired |-> FALSE]]
    BY <1>2 DEF S!CreateShare
  <2>2. [burn |-> b, password |-> p, expired |-> FALSE] \in S!Row
    BY DEF S!Row
  <2>. QED  BY <1>t, <1>2, <2>1, <2>2, LinksOnly DEF S!CreateShare, S!TypeOK
<1>3. ASSUME NEW l \in Link, S!DeleteShare(l)
      PROVE  LinkInv'
  BY <1>t, <1>3, LinksOnly DEF S!DeleteShare, S!Delete, S!There, S!TypeOK
<1>4. ASSUME NEW l \in Link, S!Expire(l)
      PROVE  LinkInv'
  <2>1. /\ link[l] \in S!Row /\ link' = [link EXCEPT ![l] = [link[l] EXCEPT !.expired = TRUE]]
    BY <1>t, <1>4 DEF S!Expire, S!There, S!TypeOK
  <2>2. [link[l] EXCEPT !.expired = TRUE] \in S!Row /\ [link[l] EXCEPT !.expired = TRUE].burn = link[l].burn
    BY <2>1 DEF S!Row
  <2>. QED  BY <1>t, <1>4, <2>1, <2>2, LinksOnly DEF S!Expire, S!TypeOK
<1>5. CASE S!ChangeFile
  <2>1. /\ ended' \in [Link -> Viewing \cup {"route", Null}]
        /\ \A l \in Link : ended[l] # Null => ended'[l] = ended[l]
    BY <1>t, <1>5 DEF S!ChangeFile, S!There, S!TypeOK
  <2>2. state' \in {"live", "blocked", "trashed", "purged"} /\ UNCHANGED <<link, tries, view, shown>>
    BY <1>5 DEF S!ChangeFile
  <2>. QED  BY <1>t, <2>1, <2>2, LinksOnly DEF S!TypeOK
<1>6. CASE S!SweepExpiredShares
  BY <1>t, <1>6, LinksOnly DEF S!SweepExpiredShares, S!There, S!TypeOK
<1>7. CASE S!NewWindow
  <2>1. tries' \in [Link -> 0..Tries]
    BY <1>t, <1>7, Sizes DEF S!NewWindow, S!TypeOK
  <2>. QED  BY <1>t, <1>7, <2>1, LinksOnly DEF S!NewWindow, S!TypeOK
<1>8. ASSUME NEW v \in Viewing, S!ReadLink(v)
      PROVE  LinkInv'
  <2>1. PICK l \in Link, mine \in BOOLEAN :
          /\ S!There(l)
          /\ IF link[l].expired
             THEN S!Delete(l, "route") /\ S!Answer(v)
             ELSE /\ view' = [view EXCEPT ![v] = [at |-> "read", link |-> l, row |-> link[l], owner |-> mine]]
                  /\ UNCHANGED ended
    BY <1>8 DEF S!ReadLink
  <2>2. view[v].at = "idle" /\ UNCHANGED <<link, state, tries, shown>>
    BY <1>8 DEF S!ReadLink
  <2>3. CASE link[l].expired
    <3>1. /\ ended' \in [Link -> Viewing \cup {"route", Null}]
          /\ \A k \in Link : ended[k] # Null => ended'[k] = ended[k]
      BY <1>t, <2>1, <2>3 DEF S!Delete, S!There, S!TypeOK
    <3>2. view' = [view EXCEPT ![v] = [view[v] EXCEPT !.at = "done"]]
      BY <1>t, <2>1, <2>3 DEF S!Answer, S!Goto, S!TypeOK
    <3>3. [view[v] EXCEPT !.at = "done"] \in S!View /\ [view[v] EXCEPT !.at = "done"].at = "done"
      BY <1>t DEF S!View, S!Step, S!TypeOK
    <3>. QED  BY <1>t, <2>2, <3>1, <3>2, <3>3, ViewMoves DEF S!TypeOK
  <2>4. CASE ~link[l].expired
    <3> DEFINE w == [at |-> "read", link |-> l, row |-> link[l], owner |-> mine]
    <3>1. w \in S!View /\ link[l] # Null
      BY <1>t, <2>1 DEF S!There, S!TypeOK, S!View, S!Step
    <3>. QED  BY <1>t, <2>1, <2>2, <2>4, <3>1, ViewMoves DEF S!TypeOK
  <2>. QED  BY <2>3, <2>4
<1>9. ASSUME NEW v \in Viewing, S!ReadFile(v)
      PROVE  LinkInv'
  <2>1. PICK p \in {"checked", "done"} : view' = [view EXCEPT ![v] = [view[v] EXCEPT !.at = p]]
    BY <1>t, <1>9 DEF S!ReadFile, S!Answer, S!Goto, S!TypeOK
  <2>2. [view[v] EXCEPT !.at = p] \in S!View
    BY <1>t DEF S!View, S!Step, S!TypeOK
  <2>3. view[v].at = "read" /\ UNCHANGED <<link, ended, state, tries, shown>>
    BY <1>9 DEF S!ReadFile
  <2>. QED  BY <1>t, <2>1, <2>2, <2>3, ViewMoves DEF S!TypeOK, S!View, LinkInv, AsMade, Reading
<1>10. ASSUME NEW v \in Viewing, S!Password(v)
      PROVE  LinkInv'
  <2>1. /\ view[v].at = "checked" /\ UNCHANGED <<link, ended, state, shown>>
        /\ view[v] \in S!View /\ view[v].link \in Link
        /\ view[v].row \in S!Row /\ view[v].row.burn = link[view[v].link].burn
        /\ link[view[v].link] # Null
    BY <1>t, <1>10 DEF S!Password, S!TypeOK, S!View, LinkInv, AsMade, Reading
  <2>2. tries' \in [Link -> 0..Tries]
    BY <1>t, <1>10, <2>1, Sizes DEF S!Password, S!Allowed, S!TypeOK
  <2>3. CASE view' = [view EXCEPT ![v] = [view[v] EXCEPT !.at = "done"]]
    <3>1. [view[v] EXCEPT !.at = "done"] \in S!View /\ [view[v] EXCEPT !.at = "done"].at = "done"
      BY <2>1 DEF S!View, S!Step
    <3>. QED  BY <1>t, <2>1, <2>2, <2>3, <3>1, ViewMoves DEF S!TypeOK
  <2>4. CASE view' = [view EXCEPT ![v].row.password = FALSE]
    <3> DEFINE w == [view[v] EXCEPT !.row = [view[v].row EXCEPT !.password = FALSE]]
    <3>1. view' = [view EXCEPT ![v] = w]
      BY <1>t, <2>4
    <3>2. /\ [view[v].row EXCEPT !.password = FALSE] \in S!Row
          /\ [view[v].row EXCEPT !.password = FALSE].burn = view[v].row.burn
      BY <2>1 DEF S!Row
    <3>3. /\ w \in S!View /\ w.at = "checked" /\ w.link = view[v].link
          /\ w.row # Null /\ w.row.burn = view[v].row.burn
      BY <2>1, <3>2 DEF S!View
    <3>. QED  BY <1>t, <2>1, <2>2, <3>1, <3>3, ViewMoves DEF S!TypeOK
  <2>. QED  BY <1>t, <1>10, <2>3, <2>4 DEF S!Password, S!Answer, S!Goto, S!TypeOK
<1>11. ASSUME NEW v \in Viewing, S!Claim(v)
      PROVE  LinkInv'
  <2>1. /\ view[v].at = "checked" /\ UNCHANGED <<link, state, tries, shown>>
        /\ view[v] \in S!View /\ view[v].link \in Link
        /\ view[v].row # Null /\ view[v].row.burn = link[view[v].link].burn
        /\ link[view[v].link] # Null
    BY <1>t, <1>11 DEF S!Claim, S!TypeOK, LinkInv, AsMade, Reading
  <2>2. /\ ended' \in [Link -> Viewing \cup {"route", Null}]
        /\ \A k \in Link : ended[k] # Null => ended'[k] = ended[k]
    BY <1>t, <1>11, <2>1 DEF S!Claim, S!Delete, S!There, S!TypeOK
  <2>3. PICK p \in {"fetch", "done"} : view' = [view EXCEPT ![v] = [view[v] EXCEPT !.at = p]]
    BY <1>t, <1>11 DEF S!Claim, S!Answer, S!Goto, S!TypeOK
  <2> DEFINE w == [view[v] EXCEPT !.at = p]
  <2>4. /\ w \in S!View /\ w.at = p /\ w.link = view[v].link
        /\ w.row = view[v].row /\ w.owner = view[v].owner
    BY <2>1 DEF S!View, S!Step
  <2>5. p = "fetch" /\ link[view[v].link].burn /\ ~view[v].owner => ended'[view[v].link] = v
    BY <1>t, <1>11, <2>1, <2>3 DEF S!Claim, S!Taken, S!Delete, S!There, S!Answer, S!Goto, S!TypeOK, S!View
  <2>. QED  BY <1>t, <2>1, <2>2, <2>3, <2>4, <2>5, ViewMoves DEF S!TypeOK
<1>12. ASSUME NEW v \in Viewing, S!Fetch(v)
      PROVE  LinkInv'
  <2>1. /\ view[v].at = "fetch" /\ UNCHANGED <<link, ended, state, tries>>
        /\ view[v] \in S!View /\ view[v].link \in Link /\ link[view[v].link] # Null
        /\ Burnt(v, view[v].link)
    BY <1>t, <1>12 DEF S!Fetch, S!TypeOK, LinkInv, AsMade, FetchesBurnt, Reading
  <2>2. shown' \in {shown, shown \cup {<<v, view[v].link>>}}
    BY <1>12 DEF S!Fetch
  <2>3. /\ view' \in [Viewing -> S!View]
        /\ view'[v].at = "done" /\ view'[v].owner = view[v].owner
        /\ \A u \in Viewing : u # v => view'[u] = view[u]
    BY <1>t, <1>12, <2>1 DEF S!Fetch, S!Answer, S!Goto, S!TypeOK, S!View, S!Step
  <2>4. S!TypeOK'
    BY <1>t, <2>1, <2>2, <2>3 DEF S!TypeOK
  <2>5. AsMade' /\ FetchesBurnt'
    BY <2>1, <2>3 DEF LinkInv, AsMade, FetchesBurnt, Burnt, Reading
  <2>6. SentByDone'
    BY <1>t, <2>1, <2>2, <2>3 DEF LinkInv, SentByDone, S!TypeOK
  <2>7. S!BurnShownOnce'
    BY <1>t, <2>1, <2>2, <2>3 DEF LinkInv, SentByDone, S!BurnShownOnce, S!TypeOK, Burnt
  <2>. QED  BY <2>4, <2>5, <2>6, <2>7 DEF LinkInv
<1>. QED  BY <1>1, <1>2, <1>3, <1>4, <1>5, <1>6, <1>7, <1>8, <1>9, <1>10, <1>11, <1>12 DEF S!Next

(* Whatever viewings, deletions, sweeps and purges race, in any number:     *)
(* what a burn-on-view link points at is sent to the viewing that deleted   *)
(* it only.                                                                 *)
THEOREM BurnsOnce == MCSpec => []BurnShownOnce
<1>1. MCInit => (focus = "links" => LinkInv)
  BY LinkInit DEF MCInit
<1>2. (focus = "links" => LinkInv) /\ [MCNext]_allVars => (focus = "links" => LinkInv)'
  <2> SUFFICES ASSUME focus = "links" => LinkInv, [MCNext]_allVars, focus' = "links"
               PROVE  LinkInv'
    OBVIOUS
  <2>1. focus = "links" /\ [S!Next]_links
    BY DEF MCNext, allVars
  <2>. QED  BY <2>1, LinkStep
<1>3. (focus = "links" => LinkInv) => BurnShownOnce
  BY DEF LinkInv, BurnShownOnce
<1>. QED  BY <1>1, <1>2, <1>3, PTL DEF MCSpec

----------------------------------------------------------------------------
(* Folder actions: what a dispatch has still to run has not been started,   *)
(* and neither has what it is about to run.                                 *)
Fresh(d, a) == dispatch[d].at = "idle" \/ a \in dispatch[d].todo => work[<<d, a>>] = "none"
Busy(d) == dispatch[d].at \in {"resolve", "await"} =>
  /\ dispatch[d].action \in (1..Actions) \ dispatch[d].todo
  /\ dispatch[d].at = "resolve" => work[A!Cur(d)] = "none"
Succeeded == [status |-> "succeeded", finished |-> TRUE]
Failed == [status |-> "failed", finished |-> TRUE]
Recorded(d, a) ==
  /\ run[<<d, a>>] = Succeeded => work[<<d, a>>] = "ok"
  /\ work[<<d, a>>] = "running" /\ ~(dispatch[d].at = "await" /\ dispatch[d].action = a) =>
       run[<<d, a>>] \in {Null, Failed}
ActInv ==
  /\ A!TypeOK
  /\ \A d \in Dispatch : Busy(d)
  /\ \A d \in Dispatch, a \in 1..Actions : Fresh(d, a) /\ Recorded(d, a)

(* The two ends of a run are values of a row, and differ.                   *)
LEMMA RunValues == Succeeded \in A!Run \ {Null} /\ Failed \in A!Run \ {Null} /\ Succeeded # Failed
<1>1. Succeeded \in A!Run /\ Failed \in A!Run
  BY DEF A!Run, A!Status, Succeeded, Failed
<1>2. Succeeded # Failed
  BY DEF Succeeded, Failed
<1>. QED  BY <1>1, <1>2, NoRowIsNull

(* At the start nothing is dispatched.                                      *)
LEMMA ActInit == A!Init => ActInv
<1> SUFFICES ASSUME A!Init PROVE ActInv
  OBVIOUS
<1> USE Sizes DEF A!Init, A!Action
<1>1. A!TypeOK
  BY DEF A!TypeOK, A!DispatchState
<1>2. \A d \in Dispatch : Busy(d)
  BY DEF Busy
<1>3. \A d \in Dispatch, a \in 1..Actions : Fresh(d, a) /\ Recorded(d, a)
  BY RunValues DEF Fresh, Recorded
<1>. QED  BY <1>1, <1>2, <1>3 DEF ActInv

(* The rows are taken oldest first.                                         *)
LEMMA OldestIsOne ==
  ASSUME NEW s \in SUBSET (1..Actions), s # {}
  PROVE  A!Oldest(s) \in s
<1>1. s \in SUBSET Nat
  BY Sizes
<1>2. IsWellFoundedOn(OpToRel(<, Nat), s)
  BY <1>1, NatLessThanWellFounded, IsWellFoundedOnSubset, Zenon
<1>3. PICK a \in s : \A b \in s : ~(<<b, a>> \in OpToRel(<, Nat))
  BY <1>2, WFMin, Zenon
<1>4. \A b \in s : ~(b < a)
  BY <1>1, <1>3, Zenon DEF OpToRel
<1>5. \A b \in s : a <= b
  BY <1>1, <1>4
<1>. QED  BY <1>5 DEF A!Oldest

(* A dispatch that only goes on to another point.                           *)
LEMMA DispatchGoes ==
  ASSUME A!TypeOK, NEW d \in Dispatch,
         NEW p \in {"next", "resolve", "await", "refresh", "done"}, A!Goto(d, p)
  PROVE  /\ dispatch' \in [Dispatch -> A!DispatchState]
         /\ dispatch'[d].at = p /\ dispatch'[d].todo = dispatch[d].todo
         /\ dispatch'[d].action = dispatch[d].action
         /\ \A e \in Dispatch : e # d => dispatch'[e] = dispatch[e]
  BY DEF A!TypeOK, A!Goto, A!DispatchState

(* What is recorded of the action a dispatch is at.                         *)
LEMMA RunRecorded ==
  ASSUME A!TypeOK, NEW i \in Dispatch \X (1..Actions), NEW s \in A!Status, A!Recorded(i, s)
  PROVE  /\ run' \in [Dispatch \X (1..Actions) -> A!Run \cup {Null}]
         /\ run'[i] \in {Null, [status |-> s, finished |-> TRUE]}
         /\ \A j \in Dispatch \X (1..Actions) : j # i => run'[j] = run[j]
<1>1. [status |-> s, finished |-> TRUE] \in A!Run
  BY DEF A!Run
<1>. QED  BY <1>1 DEF A!TypeOK, A!Recorded, A!Action

(* Every step of a dispatch keeps what its rows say of the actions.         *)
LEMMA ActStep == ActInv /\ [A!Next]_actions => ActInv'
<1> SUFFICES ASSUME ActInv, [A!Next]_actions
             PROVE  ActInv'
  OBVIOUS
<1> DEFINE Pairs == Dispatch \X (1..Actions)
           States == {"none", "running", "ok", "failed", "lost"}
<1> USE RunValues DEF A!Action, A!At
<1>t. /\ A!TypeOK /\ config \in [1..Actions -> {"none", "on", "off", "unknown", "gone"}]
      /\ run \in [Pairs -> A!Run \cup {Null}] /\ dispatch \in [Dispatch -> A!DispatchState]
      /\ work \in [Pairs -> States] /\ subject \in [Dispatch -> BOOLEAN]
      /\ \A d \in Dispatch : /\ dispatch[d].todo \in SUBSET (1..Actions)
                             /\ dispatch[d].action \in (1..Actions) \cup {0}
      /\ \A d \in Dispatch : Busy(d)
      /\ \A d \in Dispatch, a \in 1..Actions : Fresh(d, a) /\ Recorded(d, a)
  BY DEF ActInv, A!TypeOK, A!DispatchState
<1>1. CASE UNCHANGED actions
  BY <1>1 DEF actions, ActInv, A!TypeOK, Busy, Fresh, Recorded, A!Cur
<1>2. ASSUME NEW a \in 1..Actions, A!CreateAction(a)
      PROVE  ActInv'
  <2>0. /\ config' \in [1..Actions -> {"none", "on", "off", "unknown", "gone"}]
        /\ UNCHANGED <<run, dispatch, work, subject>>
    BY <1>t, <1>2 DEF A!CreateAction
  <2>1. A!TypeOK'
    BY <1>t, <2>0 DEF A!TypeOK
  <2>2. ASSUME NEW e \in Dispatch
        PROVE  Busy(e)'
    <3>1. Busy(e) /\ \A b \in 1..Actions : Fresh(e, b)
      BY <1>t
    <3>. QED  BY <1>t, <2>0, <3>1 DEF Busy, A!Cur
  <2>3. ASSUME NEW e \in Dispatch, NEW b \in 1..Actions
        PROVE  Fresh(e, b)' /\ Recorded(e, b)'
    <3>1. <<e, b>> \in Pairs /\ Fresh(e, b) /\ Recorded(e, b) /\ Busy(e)
      BY <1>t
    <3>. QED  BY <1>t, <2>0, <3>1 DEF Fresh, Busy, Recorded, A!Cur
  <2>. QED  BY <2>1, <2>2, <2>3 DEF ActInv
<1>3. ASSUME NEW a \in 1..Actions, A!ChangeAction(a)
      PROVE  ActInv'
  <2>0. /\ config' \in [1..Actions -> {"none", "on", "off", "unknown", "gone"}]
        /\ UNCHANGED <<run, dispatch, work, subject>>
    BY <1>t, <1>3 DEF A!ChangeAction
  <2>1. A!TypeOK'
    BY <1>t, <2>0 DEF A!TypeOK
  <2>2. ASSUME NEW e \in Dispatch
        PROVE  Busy(e)'
    <3>1. Busy(e) /\ \A b \in 1..Actions : Fresh(e, b)
      BY <1>t
    <3>. QED  BY <1>t, <2>0, <3>1 DEF Busy, A!Cur
  <2>3. ASSUME NEW e \in Dispatch, NEW b \in 1..Actions
        PROVE  Fresh(e, b)' /\ Recorded(e, b)'
    <3>1. <<e, b>> \in Pairs /\ Fresh(e, b) /\ Recorded(e, b) /\ Busy(e)
      BY <1>t
    <3>. QED  BY <1>t, <2>0, <3>1 DEF Fresh, Busy, Recorded, A!Cur
  <2>. QED  BY <2>1, <2>2, <2>3 DEF ActInv
<1>4. ASSUME NEW a \in 1..Actions, A!DeleteAction(a)
      PROVE  ActInv'
  <2>0. /\ config' \in [1..Actions -> {"none", "on", "off", "unknown", "gone"}]
        /\ run' \in [Pairs -> A!Run \cup {Null}]
        /\ \A j \in Pairs : run'[j] \in {Null, run[j]}
        /\ UNCHANGED <<dispatch, work, subject>>
    BY <1>t, <1>4 DEF A!DeleteAction
  <2>1. A!TypeOK'
    BY <1>t, <2>0 DEF A!TypeOK
  <2>2. ASSUME NEW e \in Dispatch
        PROVE  Busy(e)'
    <3>1. Busy(e) /\ \A b \in 1..Actions : Fresh(e, b)
      BY <1>t
    <3>. QED  BY <1>t, <2>0, <3>1 DEF Busy, A!Cur
  <2>3. ASSUME NEW e \in Dispatch, NEW b \in 1..Actions
        PROVE  Fresh(e, b)' /\ Recorded(e, b)'
    <3>1. <<e, b>> \in Pairs /\ Fresh(e, b) /\ Recorded(e, b) /\ Busy(e)
      BY <1>t
    <3>. QED  BY <1>t, <2>0, <3>1 DEF Fresh, Busy, Recorded, A!Cur
  <2>. QED  BY <2>1, <2>2, <2>3 DEF ActInv
<1>5. ASSUME NEW d \in Dispatch, A!RemoveSubject(d)
      PROVE  ActInv'
  <2>0. /\ subject' \in [Dispatch -> BOOLEAN]
        /\ UNCHANGED <<config, run, dispatch, work>>
    BY <1>t, <1>5 DEF A!RemoveSubject
  <2>1. A!TypeOK'
    BY <1>t, <2>0 DEF A!TypeOK
  <2>2. ASSUME NEW e \in Dispatch
        PROVE  Busy(e)'
    <3>1. Busy(e) /\ \A b \in 1..Actions : Fresh(e, b)
      BY <1>t
    <3>2. CASE e = d
      BY <1>t, <2>0, <3>1, <3>2 DEF Busy, Fresh, A!Cur
    <3>3. CASE e # d
      BY <1>t, <2>0, <3>1, <3>3 DEF Busy, A!Cur
    <3>. QED  BY <3>2, <3>3
  <2>3. ASSUME NEW e \in Dispatch, NEW b \in 1..Actions
        PROVE  Fresh(e, b)' /\ Recorded(e, b)'
    <3>1. <<e, b>> \in Pairs /\ Fresh(e, b) /\ Recorded(e, b) /\ Busy(e)
      BY <1>t
    <3>. QED  BY <1>t, <2>0, <3>1 DEF Fresh, Busy, Recorded, A!Cur
  <2>. QED  BY <2>1, <2>2, <2>3 DEF ActInv
<1>6. ASSUME NEW d \in Dispatch, A!FireEvent(d)
      PROVE  ActInv'
  <2>0. /\ dispatch[d].at = "idle"
        /\ dispatch' \in [Dispatch -> A!DispatchState]
        /\ dispatch'[d].at \in {"next", "done"}
        /\ \A e \in Dispatch : e # d => dispatch'[e] = dispatch[e]
        /\ UNCHANGED <<config, run, work, subject>>
    <3> DEFINE rows == {b \in 1..Actions : config[b] \in {"on", "unknown"}}
    <3>1. /\ dispatch[d].at = "idle" /\ UNCHANGED <<config, run, work, subject>>
          /\ dispatch' = [dispatch EXCEPT ![d].todo = rows, ![d].at = IF rows = {} THEN "done" ELSE "next"]
      BY <1>6 DEF A!FireEvent
    <3>2. rows \in SUBSET (1..Actions)
      OBVIOUS
    <3> HIDE DEF rows
    <3>3. PICK p \in {"next", "done"} : dispatch' = [dispatch EXCEPT ![d].todo = rows, ![d].at = p]
      BY <3>1
    <3> DEFINE w == [dispatch[d] EXCEPT !.todo = rows, !.at = p]
    <3>4. w \in A!DispatchState /\ w.at = p
      BY <1>t, <3>2 DEF A!DispatchState
    <3>5. dispatch' = [dispatch EXCEPT ![d] = w]
      BY <1>t, <3>3
    <3> HIDE DEF w
    <3>. QED  BY <1>t, <3>1, <3>4, <3>5
  <2>1. A!TypeOK'
    BY <1>t, <2>0 DEF A!TypeOK
  <2>2. ASSUME NEW e \in Dispatch
        PROVE  Busy(e)'
    <3>1. Busy(e) /\ \A b \in 1..Actions : Fresh(e, b)
      BY <1>t
    <3>2. CASE e = d
      BY <1>t, <2>0, <3>1, <3>2 DEF Busy, Fresh, A!Cur
    <3>3. CASE e # d
      BY <1>t, <2>0, <3>1, <3>3 DEF Busy, A!Cur
    <3>. QED  BY <3>2, <3>3
  <2>3. ASSUME NEW e \in Dispatch, NEW b \in 1..Actions
        PROVE  Fresh(e, b)' /\ Recorded(e, b)'
    <3>1. <<e, b>> \in Pairs /\ Fresh(e, b) /\ Recorded(e, b) /\ Busy(e)
      BY <1>t
    <3>. QED  BY <1>t, <2>0, <3>1 DEF Fresh, Busy, Recorded, A!Cur
  <2>. QED  BY <2>1, <2>2, <2>3 DEF ActInv
<1>7. ASSUME NEW d \in Dispatch, A!InsertRun(d)
      PROVE  ActInv'
  <2> DEFINE a == A!Oldest(dispatch[d].todo)
  <2>0. /\ dispatch[d].at = "next" /\ a \in dispatch[d].todo /\ UNCHANGED <<config, work, subject>>
        /\ dispatch' \in [Dispatch -> A!DispatchState]
        /\ \A e \in Dispatch : e # d => dispatch'[e] = dispatch[e]
        /\ \/ /\ dispatch'[d].at = "resolve" /\ dispatch'[d].action = a
              /\ dispatch'[d].todo = dispatch[d].todo \ {a}
              /\ run' = [run EXCEPT ![<<d, a>>] = [status |-> "succeeded", finished |-> FALSE]]
           \/ dispatch'[d].at = "done" /\ dispatch'[d].todo = {} /\ run' = run
    <3>1. dispatch[d].todo # {} /\ a \in dispatch[d].todo
      BY <1>t, <1>7, OldestIsOne DEF A!InsertRun
    <3>. QED  BY <1>t, <1>7, <3>1 DEF A!InsertRun, A!DispatchState
  <2>r. /\ run' \in [Pairs -> A!Run \cup {Null}]
        /\ \A j \in Pairs : run'[j] # Succeeded \/ run'[j] = run[j]
        /\ \A j \in Pairs : j # <<d, a>> => run'[j] = run[j]
    <3>1. /\ [status |-> "succeeded", finished |-> FALSE] \in A!Run
          /\ [status |-> "succeeded", finished |-> FALSE] # Succeeded
      BY DEF A!Run, A!Status, Succeeded
    <3>2. a \in 1..Actions
      BY <1>t, <2>0
    <3> HIDE DEF a
    <3>. QED  BY <1>t, <2>0, <3>1, <3>2
  <2>a. a \in 1..Actions
    BY <1>t, <2>0
  <2> HIDE DEF a
  <2>1. A!TypeOK'
    BY <1>t, <2>0, <2>r, <2>a DEF A!TypeOK
  <2>2. ASSUME NEW e \in Dispatch
        PROVE  Busy(e)'
    <3>1. Busy(e) /\ \A b \in 1..Actions : Fresh(e, b)
      BY <1>t
    <3>2. CASE e = d
      BY <1>t, <2>0, <2>r, <2>a, <3>1, <3>2 DEF Busy, Fresh, A!Cur
    <3>3. CASE e # d
      BY <1>t, <2>0, <2>r, <2>a, <3>1, <3>3 DEF Busy, A!Cur
    <3>. QED  BY <3>2, <3>3
  <2>3. ASSUME NEW e \in Dispatch, NEW b \in 1..Actions
        PROVE  Fresh(e, b)' /\ Recorded(e, b)'
    <3>1. <<e, b>> \in Pairs /\ Fresh(e, b) /\ Recorded(e, b) /\ Busy(e)
      BY <1>t
    <3>. QED  BY <1>t, <2>0, <2>r, <2>a, <3>1 DEF Fresh, Busy, Recorded, A!Cur
  <2>. QED  BY <2>1, <2>2, <2>3 DEF ActInv
<1>8. ASSUME NEW d \in Dispatch, A!LastOne(d)
      PROVE  ActInv'
  <2>0. /\ dispatch[d].at = "next"
        /\ dispatch' \in [Dispatch -> A!DispatchState]
        /\ dispatch'[d].at = "done" /\ dispatch'[d].todo = dispatch[d].todo
        /\ dispatch'[d].action = dispatch[d].action
        /\ \A e \in Dispatch : e # d => dispatch'[e] = dispatch[e]
        /\ UNCHANGED <<config, run, work, subject>>
    BY <1>t, <1>8, DispatchGoes DEF A!LastOne
  <2>1. A!TypeOK'
    BY <1>t, <2>0 DEF A!TypeOK
  <2>2. ASSUME NEW e \in Dispatch
        PROVE  Busy(e)'
    <3>1. Busy(e) /\ \A b \in 1..Actions : Fresh(e, b)
      BY <1>t
    <3>2. CASE e = d
      BY <1>t, <2>0, <3>1, <3>2 DEF Busy, Fresh, A!Cur
    <3>3. CASE e # d
      BY <1>t, <2>0, <3>1, <3>3 DEF Busy, A!Cur
    <3>. QED  BY <3>2, <3>3
  <2>3. ASSUME NEW e \in Dispatch, NEW b \in 1..Actions
        PROVE  Fresh(e, b)' /\ Recorded(e, b)'
    <3>1. <<e, b>> \in Pairs /\ Fresh(e, b) /\ Recorded(e, b) /\ Busy(e)
      BY <1>t
    <3>. QED  BY <1>t, <2>0, <3>1 DEF Fresh, Busy, Recorded, A!Cur
  <2>. QED  BY <2>1, <2>2, <2>3 DEF ActInv
<1>9. ASSUME NEW d \in Dispatch, A!Skip(d)
      PROVE  ActInv'
  <2>0. /\ dispatch[d].at = "resolve" /\ UNCHANGED <<config, work, subject>>
        /\ dispatch' \in [Dispatch -> A!DispatchState]
        /\ dispatch'[d].at = "next" /\ dispatch'[d].todo = dispatch[d].todo
        /\ \A e \in Dispatch : e # d => dispatch'[e] = dispatch[e]
        /\ A!Cur(d) \in Pairs /\ run' \in [Pairs -> A!Run \cup {Null}]
        /\ \A j \in Pairs : j # A!Cur(d) => run'[j] = run[j]
        /\ run'[A!Cur(d)] # Succeeded
    <3>1. dispatch[d].at = "resolve" /\ A!Goto(d, "next") /\ UNCHANGED <<config, work, subject>>
      BY <1>9 DEF A!Skip
    <3>2. A!Cur(d) \in Pairs
      BY <1>t, <3>1 DEF Busy, A!Cur
    <3>3. PICK s \in {"failed", "skipped"} : A!Recorded(A!Cur(d), s)
      BY <1>9 DEF A!Skip, A!TimedOut
    <3>4. s \in A!Status /\ [status |-> s, finished |-> TRUE] # Succeeded
      BY DEF A!Status, Succeeded, Failed
    <3>5. /\ run' \in [Pairs -> A!Run \cup {Null}]
          /\ run'[A!Cur(d)] \in {Null, [status |-> s, finished |-> TRUE]}
          /\ \A j \in Pairs : j # A!Cur(d) => run'[j] = run[j]
      BY <1>t, <3>2, <3>3, <3>4, RunRecorded
    <3>6. /\ dispatch' \in [Dispatch -> A!DispatchState]
          /\ dispatch'[d].at = "next" /\ dispatch'[d].todo = dispatch[d].todo
          /\ \A e \in Dispatch : e # d => dispatch'[e] = dispatch[e]
      BY <1>t, <3>1, DispatchGoes
    <3>. QED  BY <3>1, <3>2, <3>3, <3>4, <3>5, <3>6
  <2>1. A!TypeOK'
    BY <1>t, <2>0 DEF A!TypeOK
  <2>2. ASSUME NEW e \in Dispatch
        PROVE  Busy(e)'
    <3>1. Busy(e) /\ \A b \in 1..Actions : Fresh(e, b)
      BY <1>t
    <3>2. CASE e = d
      BY <1>t, <2>0, <3>1, <3>2 DEF Busy, Fresh, A!Cur
    <3>3. CASE e # d
      BY <1>t, <2>0, <3>1, <3>3 DEF Busy, A!Cur
    <3>. QED  BY <3>2, <3>3
  <2>3. ASSUME NEW e \in Dispatch, NEW b \in 1..Actions
        PROVE  Fresh(e, b)' /\ Recorded(e, b)'
    <3>1. <<e, b>> \in Pairs /\ Fresh(e, b) /\ Recorded(e, b) /\ Busy(e)
      BY <1>t
    <3>. QED  BY <1>t, <2>0, <3>1 DEF Fresh, Busy, Recorded, A!Cur
  <2>. QED  BY <2>1, <2>2, <2>3 DEF ActInv
<1>10. ASSUME NEW d \in Dispatch, A!StartWork(d)
      PROVE  ActInv'
  <2>0. /\ dispatch[d].at = "resolve"
        /\ dispatch' \in [Dispatch -> A!DispatchState]
        /\ dispatch'[d].at = "await" /\ dispatch'[d].todo = dispatch[d].todo
        /\ dispatch'[d].action = dispatch[d].action
        /\ \A e \in Dispatch : e # d => dispatch'[e] = dispatch[e]
        /\ A!Cur(d) \in Pairs
        /\ work' \in [Pairs -> States]
        /\ work'[A!Cur(d)] = "running"
        /\ \A j \in Pairs : j # A!Cur(d) => work'[j] = work[j]
        /\ UNCHANGED <<config, run, subject>>
    BY <1>t, <1>10, DispatchGoes DEF A!StartWork, Busy, A!Cur
  <2>1. A!TypeOK'
    BY <1>t, <2>0 DEF A!TypeOK
  <2>2. ASSUME NEW e \in Dispatch
        PROVE  Busy(e)'
    <3>1. Busy(e) /\ \A b \in 1..Actions : Fresh(e, b)
      BY <1>t
    <3>2. CASE e = d
      BY <1>t, <2>0, <3>1, <3>2 DEF Busy, Fresh, A!Cur
    <3>3. CASE e # d
      BY <1>t, <2>0, <3>1, <3>3 DEF Busy, A!Cur
    <3>. QED  BY <3>2, <3>3
  <2>3. ASSUME NEW e \in Dispatch, NEW b \in 1..Actions
        PROVE  Fresh(e, b)' /\ Recorded(e, b)'
    <3>1. <<e, b>> \in Pairs /\ Fresh(e, b) /\ Recorded(e, b) /\ Busy(e)
      BY <1>t
    <3>. QED  BY <1>t, <2>0, <3>1 DEF Fresh, Busy, Recorded, A!Cur
  <2>. QED  BY <2>1, <2>2, <2>3 DEF ActInv
<1>11. ASSUME NEW d \in Dispatch, A!Settle(d)
      PROVE  ActInv'
  <2>0. /\ dispatch[d].at = "await" /\ UNCHANGED <<config, work, subject>>
        /\ dispatch' \in [Dispatch -> A!DispatchState]
        /\ dispatch'[d].at = "refresh" /\ dispatch'[d].todo = dispatch[d].todo
        /\ \A e \in Dispatch : e # d => dispatch'[e] = dispatch[e]
        /\ A!Cur(d) \in Pairs /\ run' \in [Pairs -> A!Run \cup {Null}]
        /\ \A j \in Pairs : j # A!Cur(d) => run'[j] = run[j]
        /\ work[A!Cur(d)] \in {"ok", "failed"} /\ (run'[A!Cur(d)] = Succeeded => work[A!Cur(d)] = "ok")
    <3>1. dispatch[d].at = "await" /\ A!Goto(d, "refresh") /\ UNCHANGED <<config, work, subject>>
      BY <1>11 DEF A!Settle
    <3>2. A!Cur(d) \in Pairs
      BY <1>t, <3>1 DEF Busy, A!Cur
    <3>3. PICK s \in {"succeeded", "failed"} : A!Recorded(A!Cur(d), s) /\ (s = "succeeded" => work[A!Cur(d)] = "ok")
      BY <1>11 DEF A!Settle, A!TimedOut
    <3>4. s \in A!Status /\ (s # "succeeded" => [status |-> s, finished |-> TRUE] # Succeeded)
      BY DEF A!Status, Succeeded
    <3>5. /\ run' \in [Pairs -> A!Run \cup {Null}]
          /\ run'[A!Cur(d)] \in {Null, [status |-> s, finished |-> TRUE]}
          /\ \A j \in Pairs : j # A!Cur(d) => run'[j] = run[j]
      BY <1>t, <3>2, <3>3, <3>4, RunRecorded
    <3>6. /\ dispatch' \in [Dispatch -> A!DispatchState]
          /\ dispatch'[d].at = "refresh" /\ dispatch'[d].todo = dispatch[d].todo
          /\ \A e \in Dispatch : e # d => dispatch'[e] = dispatch[e]
      BY <1>t, <3>1, DispatchGoes
    <3>7. work[A!Cur(d)] \in {"ok", "failed"}
      BY <1>11 DEF A!Settle
    <3>. QED  BY <3>7, <3>1, <3>2, <3>3, <3>4, <3>5, <3>6
  <2>1. A!TypeOK'
    BY <1>t, <2>0 DEF A!TypeOK
  <2>2. ASSUME NEW e \in Dispatch
        PROVE  Busy(e)'
    <3>1. Busy(e) /\ \A b \in 1..Actions : Fresh(e, b)
      BY <1>t
    <3>2. CASE e = d
      BY <1>t, <2>0, <3>1, <3>2 DEF Busy, Fresh, A!Cur
    <3>3. CASE e # d
      BY <1>t, <2>0, <3>1, <3>3 DEF Busy, A!Cur
    <3>. QED  BY <3>2, <3>3
  <2>3. ASSUME NEW e \in Dispatch, NEW b \in 1..Actions
        PROVE  Fresh(e, b)' /\ Recorded(e, b)'
    <3>1. <<e, b>> \in Pairs /\ Fresh(e, b) /\ Recorded(e, b) /\ Busy(e)
      BY <1>t
    <3>. QED  BY <1>t, <2>0, <3>1 DEF Fresh, Busy, Recorded, A!Cur
  <2>. QED  BY <2>1, <2>2, <2>3 DEF ActInv
<1>12. ASSUME NEW d \in Dispatch, A!TimeOut(d)
      PROVE  ActInv'
  <2>0. /\ dispatch[d].at = "await" /\ UNCHANGED <<config, work, subject>>
        /\ dispatch' \in [Dispatch -> A!DispatchState]
        /\ dispatch'[d].at = "refresh" /\ dispatch'[d].todo = dispatch[d].todo
        /\ \A e \in Dispatch : e # d => dispatch'[e] = dispatch[e]
        /\ A!Cur(d) \in Pairs /\ run' \in [Pairs -> A!Run \cup {Null}]
        /\ \A j \in Pairs : j # A!Cur(d) => run'[j] = run[j]
        /\ run'[A!Cur(d)] \in {Null, Failed}
    <3>1. dispatch[d].at = "await" /\ A!Goto(d, "refresh") /\ UNCHANGED <<config, work, subject>>
      BY <1>12 DEF A!TimeOut
    <3>2. A!Cur(d) \in Pairs
      BY <1>t, <3>1 DEF Busy, A!Cur
    <3>3. PICK s \in {"failed"} : A!Recorded(A!Cur(d), s)
      BY <1>12 DEF A!TimeOut, A!TimedOut
    <3>4. s \in A!Status /\ [status |-> s, finished |-> TRUE] = Failed
      BY DEF A!Status, Succeeded, Failed
    <3>5. /\ run' \in [Pairs -> A!Run \cup {Null}]
          /\ run'[A!Cur(d)] \in {Null, [status |-> s, finished |-> TRUE]}
          /\ \A j \in Pairs : j # A!Cur(d) => run'[j] = run[j]
      BY <1>t, <3>2, <3>3, <3>4, RunRecorded
    <3>6. /\ dispatch' \in [Dispatch -> A!DispatchState]
          /\ dispatch'[d].at = "refresh" /\ dispatch'[d].todo = dispatch[d].todo
          /\ \A e \in Dispatch : e # d => dispatch'[e] = dispatch[e]
      BY <1>t, <3>1, DispatchGoes
    <3>. QED  BY <3>1, <3>2, <3>3, <3>4, <3>5, <3>6
  <2>1. A!TypeOK'
    BY <1>t, <2>0 DEF A!TypeOK
  <2>2. ASSUME NEW e \in Dispatch
        PROVE  Busy(e)'
    <3>1. Busy(e) /\ \A b \in 1..Actions : Fresh(e, b)
      BY <1>t
    <3>2. CASE e = d
      BY <1>t, <2>0, <3>1, <3>2 DEF Busy, Fresh, A!Cur
    <3>3. CASE e # d
      BY <1>t, <2>0, <3>1, <3>3 DEF Busy, A!Cur
    <3>. QED  BY <3>2, <3>3
  <2>3. ASSUME NEW e \in Dispatch, NEW b \in 1..Actions
        PROVE  Fresh(e, b)' /\ Recorded(e, b)'
    <3>1. <<e, b>> \in Pairs /\ Fresh(e, b) /\ Recorded(e, b) /\ Busy(e)
      BY <1>t
    <3>. QED  BY <1>t, <2>0, <3>1 DEF Fresh, Busy, Recorded, A!Cur
  <2>. QED  BY <2>1, <2>2, <2>3 DEF ActInv
<1>13. ASSUME NEW d \in Dispatch, A!RefreshSubject(d)
      PROVE  ActInv'
  <2>0. /\ dispatch[d].at = "refresh"
        /\ dispatch' \in [Dispatch -> A!DispatchState]
        /\ dispatch'[d].at = "next" /\ dispatch'[d].todo = dispatch[d].todo
        /\ \A e \in Dispatch : e # d => dispatch'[e] = dispatch[e]
        /\ UNCHANGED <<config, run, work, subject>>
    BY <1>t, <1>13 DEF A!RefreshSubject, A!DispatchState
  <2>1. A!TypeOK'
    BY <1>t, <2>0 DEF A!TypeOK
  <2>2. ASSUME NEW e \in Dispatch
        PROVE  Busy(e)'
    <3>1. Busy(e) /\ \A b \in 1..Actions : Fresh(e, b)
      BY <1>t
    <3>2. CASE e = d
      BY <1>t, <2>0, <3>1, <3>2 DEF Busy, Fresh, A!Cur
    <3>3. CASE e # d
      BY <1>t, <2>0, <3>1, <3>3 DEF Busy, A!Cur
    <3>. QED  BY <3>2, <3>3
  <2>3. ASSUME NEW e \in Dispatch, NEW b \in 1..Actions
        PROVE  Fresh(e, b)' /\ Recorded(e, b)'
    <3>1. <<e, b>> \in Pairs /\ Fresh(e, b) /\ Recorded(e, b) /\ Busy(e)
      BY <1>t
    <3>. QED  BY <1>t, <2>0, <3>1 DEF Fresh, Busy, Recorded, A!Cur
  <2>. QED  BY <2>1, <2>2, <2>3 DEF ActInv
<1>14. ASSUME NEW d \in Dispatch, NEW a \in 1..Actions, A!EndWork(d, a)
      PROVE  ActInv'
  <2>0. /\ work[<<d, a>>] = "running"
        /\ work' \in [Pairs -> States]
        /\ work'[<<d, a>>] \in {"ok", "failed"}
        /\ \A j \in Pairs : j # <<d, a>> => work'[j] = work[j]
        /\ UNCHANGED <<config, run, dispatch, subject>>
    BY <1>t, <1>14 DEF A!EndWork
  <2>1. A!TypeOK'
    BY <1>t, <2>0 DEF A!TypeOK
  <2>2. ASSUME NEW e \in Dispatch
        PROVE  Busy(e)'
    <3>1. Busy(e) /\ \A b \in 1..Actions : Fresh(e, b)
      BY <1>t
    <3>2. CASE e = d
      BY <1>t, <2>0, <3>1, <3>2 DEF Busy, Fresh, A!Cur
    <3>3. CASE e # d
      BY <1>t, <2>0, <3>1, <3>3 DEF Busy, A!Cur
    <3>. QED  BY <3>2, <3>3
  <2>3. ASSUME NEW e \in Dispatch, NEW b \in 1..Actions
        PROVE  Fresh(e, b)' /\ Recorded(e, b)'
    <3>1. <<e, b>> \in Pairs /\ Fresh(e, b) /\ Recorded(e, b) /\ Busy(e)
      BY <1>t
    <3>. QED  BY <1>t, <2>0, <3>1 DEF Fresh, Busy, Recorded, A!Cur
  <2>. QED  BY <2>1, <2>2, <2>3 DEF ActInv
<1>15. CASE A!Crash
  <2>0. /\ dispatch' \in [Dispatch -> A!DispatchState]
        /\ \A d \in Dispatch : /\ dispatch[d].at = "idle" <=> dispatch'[d].at = "idle"
                               /\ dispatch'[d].at \in {"idle", "done", "lost"}
                               /\ dispatch'[d].todo \subseteq dispatch[d].todo
        /\ work' \in [Pairs -> States]
        /\ \A j \in Pairs : work'[j] = (IF work[j] = "running" THEN "lost" ELSE work[j])
        /\ UNCHANGED <<config, run, subject>>
    <3>1. /\ dispatch' = [d \in Dispatch |-> IF dispatch[d].at \in {"idle", "done"} THEN dispatch[d]
                           ELSE [dispatch[d] EXCEPT !.at = "lost", !.todo = {}]]
          /\ work' = [i \in Pairs |-> IF work[i] = "running" THEN "lost" ELSE work[i]]
          /\ UNCHANGED <<config, run, subject>>
      BY <1>15 DEF A!Crash
    <3>2. ASSUME NEW d \in Dispatch
          PROVE  /\ dispatch'[d] \in A!DispatchState
                 /\ dispatch[d].at = "idle" <=> dispatch'[d].at = "idle"
                 /\ dispatch'[d].at \in {"idle", "done", "lost"}
                 /\ dispatch'[d].todo \subseteq dispatch[d].todo
      <4>1. CASE dispatch[d].at \in {"idle", "done"}
        BY <1>t, <3>1, <4>1
      <4>2. CASE dispatch[d].at \notin {"idle", "done"}
        <5>1. /\ dispatch[d] \in A!DispatchState
              /\ dispatch'[d] = [dispatch[d] EXCEPT !.at = "lost", !.todo = {}]
          BY <1>t, <3>1, <4>2
        <5>2. /\ [dispatch[d] EXCEPT !.at = "lost", !.todo = {}] \in A!DispatchState
              /\ [dispatch[d] EXCEPT !.at = "lost", !.todo = {}].at = "lost"
              /\ [dispatch[d] EXCEPT !.at = "lost", !.todo = {}].todo = {}
          BY <5>1 DEF A!DispatchState
        <5>. QED  BY <4>2, <5>1, <5>2
      <4>. QED  BY <4>1, <4>2
    <3>3. work' \in [Pairs -> States] /\ \A j \in Pairs : work'[j] = (IF work[j] = "running" THEN "lost" ELSE work[j])
      BY <1>t, <3>1
    <3>4. dispatch' \in [Dispatch -> A!DispatchState]
      BY <3>1, <3>2
    <3>. QED  BY <3>1, <3>2, <3>3, <3>4
  <2>1. A!TypeOK'
    BY <1>t, <2>0 DEF A!TypeOK
  <2>2. ASSUME NEW e \in Dispatch
        PROVE  Busy(e)'
    <3>1. Busy(e) /\ \A b \in 1..Actions : Fresh(e, b)
      BY <1>t
    <3>. QED  BY <1>t, <2>0, <3>1 DEF Busy, A!Cur
  <2>3. ASSUME NEW e \in Dispatch, NEW b \in 1..Actions
        PROVE  Fresh(e, b)' /\ Recorded(e, b)'
    <3>1. <<e, b>> \in Pairs /\ Fresh(e, b) /\ Recorded(e, b) /\ Busy(e)
      BY <1>t
    <3>. QED  BY <1>t, <2>0, <3>1 DEF Fresh, Busy, Recorded, A!Cur
  <2>. QED  BY <2>1, <2>2, <2>3 DEF ActInv
<1>. QED  BY <1>1, <1>2, <1>3, <1>4, <1>5, <1>6, <1>7, <1>8, <1>9, <1>10, <1>11, <1>12, <1>13, <1>14, <1>15 DEF A!Next

(* Whatever the configuration does meanwhile, however many events there     *)
(* are, and even when the process ends: a run on record as succeeded did,   *)
(* and one that outlived its time is on record as failed.                   *)
THEOREM RunsAreTrue == MCSpec => []RunsTellTheTruth
<1>1. MCInit => (focus = "actions" => ActInv)
  BY ActInit DEF MCInit
<1>2. (focus = "actions" => ActInv) /\ [MCNext]_allVars => (focus = "actions" => ActInv)'
  <2> SUFFICES ASSUME focus = "actions" => ActInv, [MCNext]_allVars, focus' = "actions"
               PROVE  ActInv'
    OBVIOUS
  <2>1. focus = "actions" /\ [A!Next]_actions
    BY DEF MCNext, allVars
  <2>. QED  BY <2>1, ActStep
<1>3. (focus = "actions" => ActInv) => RunsTellTheTruth
  BY DEF ActInv, Recorded, Succeeded, Failed, RunsTellTheTruth, A!RunsTellTheTruth, A!Action, A!At
<1>. QED  BY <1>1, <1>2, <1>3, PTL DEF MCSpec

----------------------------------------------------------------------------
(* Grants: one to an address is to the address the owner typed, one to a    *)
(* guest is to the one named, or to one who has proved that address.        *)
Here(g) == guest[g] # Null /\ guest[g].team = "here"
IsRow(o) == offer[o] \notin {Null, G!Removed}
Reaches(o) == IsRow(o) =>
  /\ offer[o].to \in Address => offer[o].meant = offer[o].to
  /\ offer[o].to \in Guest =>
       /\ Here(offer[o].to)
       /\ offer[o].meant = offer[o].to \/ offer[o].meant \in proved[offer[o].to]
(* What a handler is about to bind was meant for the address it goes by.    *)
MeantFor(o, g, a) == offer[o] # Null /\ (IsRow(o) => offer[o].meant = a /\ Here(g))
Minding(e) ==
  /\ errand[e].at \in {"add", "insert"} =>
       /\ errand[e].who \in Guest \cup Address
       /\ errand[e].who \in Guest => Here(errand[e].who)
  /\ errand[e].at \in {"list", "each", "bind", "drop"} =>
       /\ errand[e].who \in Guest /\ guest[errand[e].who] # Null
       /\ errand[e].via \in proved[errand[e].who]
  /\ errand[e].at \in {"each", "bind", "drop"} =>
       \A o \in errand[e].todo : MeantFor(o, errand[e].who, errand[e].via)
  /\ errand[e].at \in {"bind", "drop"} =>
       errand[e].on \in Offer /\ MeantFor(errand[e].on, errand[e].who, errand[e].via)
GrantInv ==
  /\ G!TypeOK
  /\ \A o \in Offer : Reaches(o)
  /\ \A e \in Errand : Minding(e)

(* At the start there are no accounts and no offers.                        *)
LEMMA GrantInit == G!Init => GrantInv
<1> SUFFICES ASSUME G!Init PROVE GrantInv
  OBVIOUS
<1> USE DEF G!Init, G!Idle
<1>1. G!TypeOK
  BY DEF G!TypeOK
<1>. QED  BY <1>1 DEF GrantInv, Reaches, IsRow, Minding

(* An account keeps its team, and what it proved; a row keeps what it was   *)
(* meant for, and once removed does not come back.                          *)
LEMMA GrantsKept ==
  ASSUME GrantInv, G!TypeOK',
         \A g \in Guest : guest[g] # Null =>
           guest'[g] # Null /\ guest'[g].team = guest[g].team /\ proved'[g] = proved[g],
         \A o \in Offer : offer[o] # Null => offer'[o] # Null,
         \A o \in Offer : offer[o] # Null /\ IsRow(o)' => IsRow(o) /\ offer'[o].meant = offer[o].meant,
         \A o \in Offer : offer'[o] = offer[o] \/ Reaches(o)',
         \A e \in Errand : errand'[e] = errand[e] \/ Minding(e)'
  PROVE  GrantInv'
<1>1. \A g \in Guest : Here(g) => Here(g)'
  BY DEF Here
<1>2. ASSUME NEW o \in Offer
      PROVE  Reaches(o)'
  <2>1. Reaches(o)
    BY DEF GrantInv
  <2>. QED  BY <1>1, <2>1 DEF Reaches, IsRow, Here
<1>3. ASSUME NEW e \in Errand, errand'[e] = errand[e]
      PROVE  Minding(e)'
  <2>1. Minding(e) /\ errand[e].todo \in SUBSET Offer
    BY DEF GrantInv, G!TypeOK
  <2>2. \A o \in Offer, g \in Guest : \A a : MeantFor(o, g, a) => MeantFor(o, g, a)'
    BY <1>1 DEF MeantFor
  <2>. QED  BY <1>1, <1>3, <2>1, <2>2 DEF Minding, Here
<1>. QED  BY <1>2, <1>3 DEF GrantInv

(* One handler goes on; the rest is as it was.                              *)
LEMMA ErrandGoes ==
  ASSUME GrantInv, NEW e \in Errand,
         NEW w \in [at : {"idle", "add", "insert", "list", "each", "bind", "drop", "done"},
                    who : Guest \cup Address \cup {Null}, via : Address \cup {Null},
                    on : Offer \cup {Null}, todo : SUBSET Offer],
         errand' = [errand EXCEPT ![e] = w], UNCHANGED <<guest, offer, proved>>,
         Minding(e)'
  PROVE  GrantInv'
<1>1. G!TypeOK'
  BY DEF GrantInv, G!TypeOK
<1>2. \A d \in Errand : d # e => errand'[d] = errand[d]
  BY DEF GrantInv, G!TypeOK
<1>. QED  BY <1>1, <1>2, GrantsKept DEF IsRow

(* Every step of a sign-up, a verification and a grant keeps the invariant. *)
LEMMA GrantStep == GrantInv /\ [G!Next]_offers => GrantInv'
<1> SUFFICES ASSUME GrantInv, [G!Next]_offers
             PROVE  GrantInv'
  OBVIOUS
<1> DEFINE Errands == [at : {"idle", "add", "insert", "list", "each", "bind", "drop", "done"},
                       who : Guest \cup Address \cup {Null}, via : Address \cup {Null},
                       on : Offer \cup {Null}, todo : SUBSET Offer]
           Over == [G!Idle EXCEPT !.at = "done"]
<1> USE NoRowIsNull DEF G!At
<1>t. /\ G!TypeOK /\ guest \in [Guest -> G!Account \cup {Null}]
      /\ offer \in [Offer -> G!OfferRow \cup {Null, G!Removed}]
      /\ errand \in [Errand -> Errands] /\ proved \in [Guest -> SUBSET Address]
      /\ \A o \in Offer : Reaches(o)
      /\ \A e \in Errand : Minding(e)
  BY DEF GrantInv, G!TypeOK
<1>o. Over \in Errands /\ Over.at = "done" /\ G!Idle \in Errands
  BY DEF G!Idle
<1>1. CASE UNCHANGED offers
  BY <1>t, <1>1 DEF offers, GrantInv, G!TypeOK, Reaches, Minding, IsRow, MeantFor, Here
<1>2. ASSUME NEW g \in Guest, G!SignUp(g)
      PROVE  GrantInv'
  <2>1. PICK a \in Address, side \in {"here", "elsewhere"} :
          /\ guest' = [guest EXCEPT ![g] = [team |-> side, email |-> a]]
          /\ \/ \E e \in Errand : G!Proven(e, g, a)
             \/ UNCHANGED <<errand, proved>>
    BY <1>2 DEF G!SignUp
  <2>2. [team |-> side, email |-> a] \in G!Account
    BY DEF G!Account
  <2>3. /\ guest[g] = Null /\ offer' = offer /\ guest' \in [Guest -> G!Account \cup {Null}]
        /\ guest'[g] # Null /\ \A h \in Guest : h # g => guest'[h] = guest[h]
    BY <1>t, <1>2, <2>1, <2>2 DEF G!SignUp
  <2>4. CASE UNCHANGED <<errand, proved>>
    <3>1. G!TypeOK'
      BY <1>t, <2>3, <2>4 DEF G!TypeOK
    <3>. QED  BY <2>3, <2>4, <3>1, GrantsKept DEF IsRow
  <2>5. ASSUME NEW e \in Errand, G!Proven(e, g, a)
        PROVE  GrantInv'
    <3> DEFINE w == [G!Idle EXCEPT !.at = "list", !.who = g, !.via = a]
    <3>1. w \in Errands /\ w.at = "list" /\ w.who = g /\ w.via = a
      BY DEF G!Idle
    <3>2. errand' = [errand EXCEPT ![e] = w] /\ proved' = [proved EXCEPT ![g] = {a}]
      BY <2>5 DEF G!Proven
    <3> HIDE DEF w
    <3>3. G!TypeOK'
      BY <1>t, <2>3, <3>1, <3>2 DEF G!TypeOK
    <3>4. Minding(e)'
      BY <1>t, <2>3, <3>1, <3>2 DEF Minding
    <3>5. \A d \in Errand : d # e => errand'[d] = errand[d]
      BY <1>t, <3>2
    <3>6. \A h \in Guest : guest[h] # Null =>
            guest'[h] # Null /\ guest'[h].team = guest[h].team /\ proved'[h] = proved[h]
      BY <1>t, <2>3, <3>2
    <3>. QED  BY <2>3, <3>3, <3>4, <3>5, <3>6, GrantsKept DEF IsRow
  <2>. QED  BY <2>1, <2>4, <2>5
<1>3. ASSUME NEW g \in Guest, G!ChangeEmail(g)
      PROVE  GrantInv'
  <2>1. PICK a \in Address : guest' = [guest EXCEPT ![g].email = a]
    BY <1>3 DEF G!ChangeEmail
  <2>2. guest[g] \in G!Account /\ UNCHANGED <<offer, errand, proved>>
    BY <1>t, <1>3 DEF G!ChangeEmail, G!Accounts
  <2> DEFINE w == [guest[g] EXCEPT !.email = a]
  <2>3. w \in G!Account /\ w.team = guest[g].team
    BY <2>2 DEF G!Account
  <2>4. guest' = [guest EXCEPT ![g] = w]
    BY <1>t, <2>1
  <2> HIDE DEF w
  <2>5. G!TypeOK'
    BY <1>t, <2>2, <2>3, <2>4 DEF G!TypeOK
  <2>6. \A h \in Guest : guest[h] # Null =>
          guest'[h] # Null /\ guest'[h].team = guest[h].team /\ proved'[h] = proved[h]
    BY <1>t, <2>2, <2>3, <2>4
  <2>. QED  BY <2>2, <2>5, <2>6, GrantsKept DEF IsRow
<1>4. ASSUME NEW e \in Errand, NEW x \in Guest \cup Address, G!Target(e, x), x \in Guest => Here(x)
      PROVE  GrantInv'
  <2> DEFINE w == [G!Idle EXCEPT !.at = "add", !.who = x]
  <2>1. w \in Errands /\ w.at = "add" /\ w.who = x
    BY DEF G!Idle
  <2>2. errand' = [errand EXCEPT ![e] = w] /\ UNCHANGED <<guest, offer, proved>>
    BY <1>4 DEF G!Target
  <2> HIDE DEF w
  <2>3. Minding(e)'
    BY <1>t, <1>4, <2>1, <2>2 DEF Minding, Here
  <2>. QED  BY <2>1, <2>2, <2>3, ErrandGoes
<1>5. ASSUME NEW e \in Errand, NEW p \in {"insert", "each"}, G!Goto(e, p),
             errand[e].at = (IF p = "insert" THEN "add" ELSE "bind"), UNCHANGED <<guest, offer, proved>>
      PROVE  GrantInv'
  <2> DEFINE w == [errand[e] EXCEPT !.at = p]
  <2>1. /\ w \in Errands /\ w.at = p /\ w.who = errand[e].who /\ w.via = errand[e].via
        /\ w.todo = errand[e].todo
    BY <1>t
  <2>2. errand' = [errand EXCEPT ![e] = w]
    BY <1>t, <1>5 DEF G!Goto
  <2> HIDE DEF w
  <2>3. Minding(e)'
    BY <1>t, <1>5, <2>1, <2>2 DEF Minding, Here, MeantFor, IsRow
  <2>. QED  BY <1>5, <2>1, <2>2, <2>3, ErrandGoes
<1>6. ASSUME NEW e \in Errand, G!Answer(e), UNCHANGED <<guest, offer, proved>>
      PROVE  GrantInv'
  <2>1. errand' = [errand EXCEPT ![e] = Over]
    BY <1>6 DEF G!Answer
  <2> HIDE DEF Over
  <2>2. Minding(e)'
    BY <1>t, <1>o, <2>1 DEF Minding
  <2>. QED  BY <1>o, <1>6, <2>1, <2>2, ErrandGoes
<1>7. ASSUME NEW e \in Errand, G!AddCollab(e)
      PROVE  GrantInv'
  BY <1>5, <1>6, <1>7 DEF G!AddCollab
<1>8. ASSUME NEW e \in Errand, G!InsertCollab(e)
      PROVE  GrantInv'
  <2>1. errand[e].at = "insert" /\ G!Answer(e) /\ UNCHANGED <<guest, proved>>
    BY <1>8 DEF G!InsertCollab
  <2>2. CASE UNCHANGED offer
    BY <1>6, <2>1, <2>2
  <2>3. ASSUME NEW o \in Offer, offer[o] = Null,
               offer' = [offer EXCEPT ![o] = [to |-> errand[e].who, meant |-> errand[e].who]]
        PROVE  GrantInv'
    <3>1. errand[e].who \in Guest \cup Address /\ (errand[e].who \in Guest => Here(errand[e].who))
      BY <1>t, <2>1 DEF Minding
    <3> DEFINE w == [to |-> errand[e].who, meant |-> errand[e].who]
    <3>2. w \in G!OfferRow /\ w.to = errand[e].who /\ w.meant = errand[e].who
      BY <3>1 DEF G!OfferRow
    <3> HIDE DEF w
    <3>3. errand' = [errand EXCEPT ![e] = Over] /\ offer' = [offer EXCEPT ![o] = w]
      BY <2>1, <2>3 DEF G!Answer, w
    <3> HIDE DEF Over
    <3>4. G!TypeOK'
      BY <1>t, <1>o, <2>1, <3>2, <3>3 DEF G!TypeOK
    <3>5. Minding(e)' /\ Reaches(o)'
      BY <1>t, <1>o, <2>1, <3>1, <3>2, <3>3 DEF Minding, Reaches, Here
    <3>6. /\ \A d \in Errand : d # e => errand'[d] = errand[d]
          /\ \A p \in Offer : p # o => offer'[p] = offer[p]
          /\ offer'[o] # Null
      BY <1>t, <3>2, <3>3
    <3>. QED  BY <2>1, <2>3, <3>4, <3>5, <3>6, GrantsKept DEF IsRow
  <2>. QED  BY <1>8, <2>2, <2>3 DEF G!InsertCollab
<1>9. ASSUME NEW o \in Offer, G!RemoveCollab(o)
      PROVE  GrantInv'
  <2>1. offer' = [offer EXCEPT ![o] = G!Removed] /\ UNCHANGED <<guest, errand, proved>>
    BY <1>9 DEF G!RemoveCollab
  <2>2. G!TypeOK'
    BY <1>t, <2>1 DEF G!TypeOK
  <2>3. offer'[o] = G!Removed /\ \A p \in Offer : p # o => offer'[p] = offer[p]
    BY <1>t, <2>1
  <2>4. Reaches(o)'
    BY <2>3 DEF Reaches, IsRow
  <2>. QED  BY <2>1, <2>2, <2>3, <2>4, GrantsKept DEF IsRow
<1>10. ASSUME NEW e \in Errand, G!ListPending(e)
      PROVE  GrantInv'
  <2> DEFINE due == {o \in G!Rows : offer[o].to \in Address /\ G!Due(errand[e].who, errand[e].via, offer[o].to)}
             w == [errand[e] EXCEPT !.at = "each", !.todo = due]
  <2>0. due \in SUBSET Offer
    BY DEF G!Rows
  <2>1. \A o \in due : IsRow(o) /\ offer[o].to \in Address /\ Here(errand[e].who) /\ errand[e].via = offer[o].to
    BY DEF G!Rows, G!Due, G!In, G!Accounts, IsRow, Here
  <2>2. errand[e].at = "list" /\ UNCHANGED <<guest, offer, proved>>
    BY <1>10 DEF G!ListPending
  <2>3. errand' = [errand EXCEPT ![e].at = "each", ![e].todo = due]
    BY <1>10 DEF G!ListPending
  <2> HIDE DEF due
  <2>4. errand' = [errand EXCEPT ![e] = w]
    BY <1>t, <2>3
  <2>5. w \in Errands /\ w.at = "each" /\ w.who = errand[e].who /\ w.via = errand[e].via /\ w.todo = due
    BY <1>t, <2>0
  <2> HIDE DEF w
  <2>6. \A o \in due : MeantFor(o, errand[e].who, errand[e].via)
    BY <1>t, <2>0, <2>1 DEF MeantFor, Reaches, IsRow
  <2>7. Minding(e)'
    BY <1>t, <2>2, <2>4, <2>5, <2>6 DEF Minding, MeantFor, IsRow, Here
  <2>. QED  BY <2>2, <2>4, <2>5, <2>7, ErrandGoes
<1>11. ASSUME NEW e \in Errand, G!NextPending(e)
      PROVE  GrantInv'
  <2>1. errand[e].at = "each" /\ UNCHANGED <<guest, offer, proved>>
    BY <1>11 DEF G!NextPending
  <2>2. ASSUME NEW o \in errand[e].todo, NEW p \in {"drop", "bind"},
               errand' = [errand EXCEPT ![e].on = o, ![e].todo = @ \ {o}, ![e].at = p]
        PROVE  GrantInv'
    <3> DEFINE w == [errand[e] EXCEPT !.on = o, !.todo = errand[e].todo \ {o}, !.at = p]
    <3>1. /\ w \in Errands /\ w.at = p /\ w.who = errand[e].who /\ w.via = errand[e].via
          /\ w.todo = errand[e].todo \ {o} /\ w.on = o /\ o \in Offer
      BY <1>t
    <3>2. errand' = [errand EXCEPT ![e] = w]
      BY <1>t, <2>2
    <3> HIDE DEF w
    <3>3. Minding(e)'
      BY <1>t, <2>1, <3>1, <3>2 DEF Minding, MeantFor, IsRow, Here
    <3>. QED  BY <2>1, <3>1, <3>2, <3>3, ErrandGoes
  <2>3. CASE errand[e].todo = {}
    BY <1>6, <1>11, <2>3 DEF G!NextPending
  <2>4. CASE errand[e].todo # {}
    <3>1. PICK o \in errand[e].todo :
            errand' = [errand EXCEPT ![e].on = o, ![e].todo = @ \ {o},
                         ![e].at = IF G!For(errand[e].who) # {} THEN "drop" ELSE "bind"]
      BY <1>11, <2>4 DEF G!NextPending
    <3>. QED  BY <2>2, <3>1
  <2>. QED  BY <2>3, <2>4
<1>12. ASSUME NEW e \in Errand, G!Bind(e)
      PROVE  GrantInv'
  <2> DEFINE v == [errand[e] EXCEPT !.at = "each"]
  <2>1. errand[e].at = "bind" /\ UNCHANGED <<guest, proved>>
    BY <1>12 DEF G!Bind
  <2>o. PICK o \in Offer : o = errand[e].on
    BY <1>t, <2>1 DEF Minding
  <2>2. CASE G!Answer(e) /\ UNCHANGED offer
    BY <1>6, <2>1, <2>2
  <2>3. CASE G!Goto(e, "each") /\ UNCHANGED offer
    BY <1>5, <2>1, <2>3
  <2>4. CASE o \in G!Rows /\ G!Change(o, errand[e].who) /\ G!Goto(e, "each")
    <3>1. /\ errand[e].who \in Guest /\ Here(errand[e].who) /\ errand[e].via \in proved[errand[e].who]
          /\ o \in Offer /\ offer[o] \in G!OfferRow /\ offer[o].meant = errand[e].via
          /\ \A p \in errand[e].todo : MeantFor(p, errand[e].who, errand[e].via)
      BY <1>t, <2>o, <2>1, <2>4 DEF Minding, MeantFor, IsRow, G!Rows
    <3> DEFINE w == [offer[o] EXCEPT !.to = errand[e].who]
    <3>2. w \in G!OfferRow /\ w.to = errand[e].who /\ w.meant = offer[o].meant
      BY <3>1 DEF G!OfferRow
    <3>3. /\ v \in Errands /\ v.at = "each" /\ v.who = errand[e].who /\ v.via = errand[e].via
          /\ v.todo = errand[e].todo
      BY <1>t
    <3>4. offer' = [offer EXCEPT ![o] = w] /\ errand' = [errand EXCEPT ![e] = v]
      BY <1>t, <2>o, <2>4, <3>1 DEF G!Change, G!Goto
    <3> HIDE DEF v, w
    <3>5. G!TypeOK'
      BY <1>t, <2>1, <3>1, <3>2, <3>3, <3>4 DEF G!TypeOK
    <3>6. /\ \A d \in Errand : d # e => errand'[d] = errand[d]
          /\ \A p \in Offer : p # o => offer'[p] = offer[p]
          /\ offer'[o] = w /\ errand'[e] = v /\ IsRow(o)
      BY <1>t, <3>1, <3>2, <3>4 DEF IsRow
    <3>7. Reaches(o)'
      BY <2>1, <3>1, <3>2, <3>6 DEF Reaches, Here
    <3>8. Minding(e)'
      BY <1>t, <2>o, <2>1, <3>1, <3>2, <3>3, <3>6 DEF Minding, MeantFor, IsRow, Here
    <3>. QED  BY <2>1, <3>1, <3>2, <3>5, <3>6, <3>7, <3>8, GrantsKept DEF IsRow
  <2>. QED  BY <1>12, <2>o, <2>2, <2>3, <2>4 DEF G!Bind
<1>13. ASSUME NEW e \in Errand, G!Drop(e)
      PROVE  GrantInv'
  <2> DEFINE v == [errand[e] EXCEPT !.at = "each"]
  <2>1. errand[e].at = "drop" /\ UNCHANGED <<guest, proved>>
    BY <1>13 DEF G!Drop
  <2>o. PICK o \in Offer : o = errand[e].on
    BY <1>t, <2>1 DEF Minding
  <2>2. /\ v \in Errands /\ v.at = "each" /\ v.who = errand[e].who /\ v.via = errand[e].via
        /\ v.todo = errand[e].todo
    BY <1>t
  <2>3. offer' = [offer EXCEPT ![o] = G!Removed] /\ errand' = [errand EXCEPT ![e] = v]
    BY <1>t, <1>13, <2>o DEF G!Drop, G!Goto
  <2> HIDE DEF v
  <2>4. G!TypeOK'
    BY <1>t, <2>1, <2>2, <2>3 DEF G!TypeOK
  <2>5. /\ \A d \in Errand : d # e => errand'[d] = errand[d]
        /\ \A p \in Offer : p # o => offer'[p] = offer[p]
        /\ offer'[o] = G!Removed /\ errand'[e] = v
    BY <1>t, <2>1, <2>3
  <2>6. Reaches(o)'
    BY <2>5 DEF Reaches, IsRow
  <2>7. Minding(e)'
    BY <1>t, <2>o, <2>1, <2>2, <2>5 DEF Minding, MeantFor, IsRow, Here
  <2>. QED  BY <2>1, <2>4, <2>5, <2>6, <2>7, GrantsKept DEF IsRow
<1>14. ASSUME NEW e \in Errand, NEW g \in Guest, G!TargetUser(e, g)
      PROVE  GrantInv'
  BY <1>4, <1>14 DEF G!TargetUser, G!In, G!Accounts, Here
<1>15. ASSUME NEW e \in Errand, NEW a \in Address, G!TargetAddress(e, a)
      PROVE  GrantInv'
  BY <1>4, <1>15 DEF G!TargetAddress
<1>. QED  BY <1>1, <1>2, <1>3, <1>7, <1>8, <1>9, <1>10, <1>11, <1>12, <1>13, <1>14, <1>15 DEF G!Next

(* Whatever is shared, signed up, renamed, resolved and removed, in any     *)
(* order and however alike the addresses: a grant reaches the one named or  *)
(* one who proved the address that was typed.                               *)
THEOREM GrantsReach == MCSpec => []GrantsReachTheirs
<1>1. MCInit => (focus = "offers" => GrantInv)
  BY GrantInit DEF MCInit
<1>2. (focus = "offers" => GrantInv) /\ [MCNext]_allVars => (focus = "offers" => GrantInv)'
  <2> SUFFICES ASSUME focus = "offers" => GrantInv, [MCNext]_allVars, focus' = "offers"
               PROVE  GrantInv'
    OBVIOUS
  <2>1. focus = "offers" /\ [G!Next]_offers
    BY DEF MCNext, allVars
  <2>. QED  BY <2>1, GrantStep
<1>3. (focus = "offers" => GrantInv) => GrantsReachTheirs
  BY DEF GrantInv, Reaches, IsRow, Here, GrantsReachTheirs, G!GrantsReachTheirs, G!Rows, G!In, G!Accounts
<1>. QED  BY <1>1, <1>2, <1>3, PTL DEF MCSpec

----------------------------------------------------------------------------
(* Messages: the thread of a message is that of a root between the same     *)
(* two, and a reply being written has its place in such a thread.           *)
RootOf(t, x, y) ==
  /\ t \in Mail /\ mail[t] # Null /\ mail[t].thread = t
  /\ {mail[t].from, mail[t].to} = {x, y}
Beneath(a, t, x, y) ==
  /\ a \in Mail /\ mail[a] # Null /\ t \in {Null, mail[a].thread}
  /\ {mail[a].from, mail[a].to} = {x, y}
Placed(m) == mail[m] # Null =>
  /\ mail[m].from # mail[m].to
  /\ mail[m].thread # Null =>
       /\ RootOf(mail[m].thread, mail[m].from, mail[m].to)
       /\ mail[m].from = Null => mail[m].thread = m
  /\ mail[m].parent # Null =>
       Beneath(mail[m].parent, mail[m].thread, mail[m].from, mail[m].to)
Writing(r) ==
  /\ asking[r].at = "backfill" =>
       /\ asking[r].on \in Mail /\ mail[asking[r].on] # Null
       /\ mail[asking[r].on].thread \in {Null, asking[r].on}
       /\ mail[asking[r].on].parent = Null
  /\ asking[r].at = "reply" =>
       /\ asking[r].row # Null /\ asking[r].by \in Folder
       /\ M!Party(asking[r].by, asking[r].row)
       /\ asking[r].row.from # Null /\ asking[r].row.from # asking[r].row.to
       /\ asking[r].row.thread # Null =>
            RootOf(asking[r].row.thread, asking[r].row.from, asking[r].row.to)
       /\ Beneath(asking[r].on, asking[r].row.thread, asking[r].row.from, asking[r].row.to)
MailInv ==
  /\ M!TypeOK
  /\ \A m \in Mail : Placed(m)
  /\ \A r \in Request : Writing(r)
  /\ \A n \in notice : mail[n[2]] # Null /\ mail[n[2]].to = n[1]

(* At the start nothing is written.                                         *)
LEMMA MailInit == M!Init => MailInv
<1> SUFFICES ASSUME M!Init PROVE MailInv
  OBVIOUS
<1> USE DEF M!Init, M!Idle
<1>1. M!TypeOK
  BY DEF M!TypeOK
<1>. QED  BY <1>1 DEF MailInv, Placed, Writing

(* A message keeps its two parties, and its thread once it has one.         *)
Kept(m) == mail[m] # Null =>
  /\ mail'[m] # Null /\ mail'[m].from = mail[m].from /\ mail'[m].to = mail[m].to
  /\ mail'[m].thread \in {mail[m].thread, m}
  /\ mail[m].thread # Null => mail'[m].thread = mail[m].thread
  /\ mail'[m].parent = mail[m].parent

(* The invariant lasts when messages and requests are unchanged or hold it  *)
(* again.                                                                   *)
LEMMA MailsKept ==
  ASSUME MailInv, M!TypeOK', \A m \in Mail : Kept(m),
         \A m \in Mail : mail'[m] = mail[m] \/ Placed(m)' \/
                         (mail[m] # Null /\ mail'[m].thread = mail[m].thread),
         \A r \in Request : asking'[r] = asking[r] \/ Writing(r)',
         \A n \in notice' : n \in notice \/ (mail'[n[2]] # Null /\ mail'[n[2]].to = n[1])
  PROVE  MailInv'
<1>1. ASSUME NEW t, NEW x, NEW y, RootOf(t, x, y)
      PROVE  RootOf(t, x, y)'
  BY <1>1, NoRowIsNull DEF RootOf, Kept
<1>b. ASSUME NEW a, NEW t, NEW x, NEW y, Beneath(a, t, x, y)
      PROVE  Beneath(a, t, x, y)'
  BY <1>b DEF Beneath, Kept
<1>2. ASSUME NEW m \in Mail
      PROVE  Placed(m)'
  <2>1. Placed(m) /\ Kept(m)
    BY DEF MailInv
  <2>. QED  BY <1>1, <1>b, <2>1 DEF Placed, Kept
<1>3. ASSUME NEW r \in Request, asking'[r] = asking[r]
      PROVE  Writing(r)'
  <2>1. Writing(r)
    BY DEF MailInv
  <2>2. asking[r].at = "backfill" =>
          /\ mail'[asking[r].on] # Null
          /\ mail'[asking[r].on].thread \in {Null, asking[r].on}
          /\ mail'[asking[r].on].parent = Null
    <3> SUFFICES ASSUME asking[r].at = "backfill"
                 PROVE  /\ mail'[asking[r].on] # Null
                        /\ mail'[asking[r].on].thread \in {Null, asking[r].on}
                        /\ mail'[asking[r].on].parent = Null
      OBVIOUS
    <3>1. PICK m \in Mail : m = asking[r].on
      BY <2>1 DEF Writing
    <3>2. Kept(m) /\ mail[m] # Null /\ mail[m].thread \in {Null, m} /\ mail[m].parent = Null
      BY <2>1, <3>1 DEF Writing
    <3>. QED  BY <3>1, <3>2 DEF Kept
  <2>3. asking[r].at = "reply" /\ asking[r].row.thread # Null =>
          RootOf(asking[r].row.thread, asking[r].row.from, asking[r].row.to)'
    <3> SUFFICES ASSUME NEW x, x = asking[r].row, asking[r].at = "reply", x.thread # Null
                 PROVE  RootOf(x.thread, x.from, x.to)'
      BY <1>3
    <3>. QED  BY <1>1, <2>1 DEF Writing
  <2>4. asking[r].at = "reply" =>
          Beneath(asking[r].on, asking[r].row.thread, asking[r].row.from, asking[r].row.to)'
    <3> SUFFICES ASSUME NEW x, x = asking[r].row, asking[r].at = "reply"
                 PROVE  Beneath(asking[r].on, x.thread, x.from, x.to)'
      BY <1>3
    <3>1. Beneath(asking[r].on, x.thread, x.from, x.to)
      BY <2>1 DEF Writing
    <3>2. PICK a : a = asking[r].on
      OBVIOUS
    <3>3. Beneath(a, x.thread, x.from, x.to)'
      BY <1>b, <3>1, <3>2
    <3>. QED  BY <1>3, <3>2, <3>3
  <2>. QED  BY <1>3, <2>1, <2>2, <2>3, <2>4 DEF Writing, M!Party
<1>4. \A n \in notice' : mail'[n[2]] # Null /\ mail'[n[2]].to = n[1]
  BY DEF MailInv, M!TypeOK, Kept
<1>. QED  BY <1>2, <1>3, <1>4 DEF MailInv

(* Every step of a send, a reply and a read keeps the invariant.            *)
LEMMA MailStep == MailInv /\ [M!Next]_mails => MailInv'
<1> SUFFICES ASSUME MailInv, [M!Next]_mails
             PROVE  MailInv'
  OBVIOUS
<1> DEFINE Asks == [at : {"idle", "backfill", "reply", "mark", "announce"},
                    by : Folder \cup {Null}, on : Mail \cup {Null},
                    row : M!MessageRow \cup {Null}, todo : SUBSET Folder]
<1> USE NoRowIsNull DEF M!At
<1>t. /\ M!TypeOK /\ mail \in [Mail -> M!MessageRow \cup {Null}]
      /\ notice \in SUBSET (Folder \X Mail) /\ asking \in [Request -> Asks]
      /\ \A m \in Mail : Placed(m)
      /\ \A r \in Request : Writing(r)
      /\ \A n \in notice : mail[n[2]] # Null /\ mail[n[2]].to = n[1]
  BY DEF MailInv, M!TypeOK
<1>i. M!Idle \in Asks /\ M!Idle.at = "idle"
  BY DEF M!Idle
<1>1. CASE UNCHANGED mails
  BY <1>t, <1>1 DEF mails, MailInv, M!TypeOK, Placed, Writing, RootOf, Beneath, M!Party
(* Only a request goes on.                                                  *)
<1>2. ASSUME NEW r \in Request, NEW w \in Asks, asking' = [asking EXCEPT ![r] = w],
             UNCHANGED <<mail, notice>>, w.at \notin {"backfill", "reply"}
      PROVE  MailInv'
  <2>1. M!TypeOK'
    BY <1>t, <1>2 DEF M!TypeOK
  <2>2. \A s \in Request : asking'[s] = asking[s] \/ Writing(s)'
    BY <1>t, <1>2 DEF Writing
  <2>. QED  BY <1>2, <2>1, <2>2, MailsKept DEF Kept
<1>3. ASSUME NEW r \in Request, M!Answer(r), UNCHANGED <<mail, notice>>
      PROVE  MailInv'
  BY <1>2, <1>3, <1>i DEF M!Answer
(* A message is inserted, and its request has it to backfill or is over.    *)
<1>4. ASSUME NEW r \in Request, NEW w \in Asks, asking' = [asking EXCEPT ![r] = w],
             NEW m \in Mail, NEW thread \in Mail \cup {Null}, NEW a \in Mail \cup {Null},
             NEW x \in Folder \cup {Null}, NEW y \in Folder,
             M!Insert(m, thread, a, x, y), x # y,
             thread # Null => RootOf(thread, x, y) /\ x # Null,
             a # Null => Beneath(a, thread, x, y),
             \/ /\ w.at = "backfill" /\ w.on = m /\ thread = Null /\ a = Null
                /\ notice' = notice
             \/ /\ w.at = "idle"
                /\ notice' \in {notice, notice \cup {<<y, m>>}}
      PROVE  MailInv'
  <2> DEFINE n == [thread |-> thread, parent |-> a, from |-> x, to |-> y, seen |-> "unread"]
  <2>1. n \in M!MessageRow /\ n.thread = thread /\ n.parent = a /\ n.from = x /\ n.to = y
    BY DEF M!MessageRow
  <2>2. mail[m] = Null /\ mail' = [mail EXCEPT ![m] = n]
    BY <1>4 DEF M!Insert
  <2> HIDE DEF n
  <2>3. /\ mail' \in [Mail -> M!MessageRow \cup {Null}]
        /\ mail'[m] = n /\ n # Null /\ \A k \in Mail : k # m => mail'[k] = mail[k]
    BY <1>t, <2>1, <2>2
  <2>4. M!TypeOK'
    BY <1>t, <1>4, <2>3 DEF M!TypeOK
  <2>5. Placed(m)'
    BY <1>4, <2>1, <2>2, <2>3 DEF Placed, RootOf, Beneath
  <2>6. \A s \in Request : asking'[s] = asking[s] \/ Writing(s)'
    BY <1>t, <1>4, <2>1, <2>3 DEF Writing
  <2>7. \A k \in Mail : Kept(k)
    BY <2>2, <2>3 DEF Kept
  <2>8. \A k \in notice' : k \in notice \/ (mail'[k[2]] # Null /\ mail'[k[2]].to = k[1])
    BY <1>4, <2>1, <2>3
  <2>. QED  BY <2>3, <2>4, <2>5, <2>6, <2>7, <2>8, MailsKept
(* Messages are only read or deleted.                                       *)
<1>s. ASSUME UNCHANGED <<notice, asking>>,
             mail' \in [Mail -> M!MessageRow \cup {Null}],
             \A m \in Mail : /\ mail[m] = Null <=> mail'[m] = Null
                             /\ mail[m] # Null =>
                                  /\ mail'[m].from = mail[m].from /\ mail'[m].to = mail[m].to
                                  /\ mail'[m].thread = mail[m].thread
                                  /\ mail'[m].parent = mail[m].parent
      PROVE  MailInv'
  <2>1. M!TypeOK'
    BY <1>t, <1>s DEF M!TypeOK
  <2>2. \A m \in Mail : Kept(m)
    BY <1>s DEF Kept
  <2>. QED  BY <1>s, <2>1, <2>2, MailsKept
<1>5. ASSUME NEW r \in Request, NEW w \in Asks, asking' = [asking EXCEPT ![r] = w],
             w.at = "idle", notice' = notice,
             mail' \in [Mail -> M!MessageRow \cup {Null}],
             \A m \in Mail : /\ mail[m] = Null <=> mail'[m] = Null
                             /\ mail[m] # Null =>
                                  /\ mail'[m].from = mail[m].from /\ mail'[m].to = mail[m].to
                                  /\ mail'[m].thread = mail[m].thread
                                  /\ mail'[m].parent = mail[m].parent
      PROVE  MailInv'
  <2>1. M!TypeOK'
    BY <1>t, <1>5 DEF M!TypeOK
  <2>2. \A s \in Request : asking'[s] = asking[s] \/ Writing(s)'
    BY <1>t, <1>5 DEF Writing
  <2>3. \A m \in Mail : Kept(m)
    BY <1>5 DEF Kept
  <2>. QED  BY <1>5, <2>1, <2>2, <2>3, MailsKept
<1>6. ASSUME NEW r \in Request, NEW p \in Folder, NEW q \in Folder, NEW m \in Mail, M!Send(r, p, q, m)
      PROVE  MailInv'
  <2> DEFINE w == [M!Idle EXCEPT !.at = "backfill", !.by = p, !.on = m]
  <2>1. w \in Asks /\ w.at = "backfill" /\ w.on = m
    BY DEF M!Idle
  <2>2. /\ asking' = [asking EXCEPT ![r] = w] /\ M!Insert(m, Null, Null, p, q) /\ p # q
        /\ notice' = notice
    BY <1>6 DEF M!Send
  <2> HIDE DEF w
  <2>. QED  BY <1>4, <2>1, <2>2
<1>7. ASSUME NEW r \in Request, M!Broadcast(r)
      PROVE  MailInv'
  <2> DEFINE w == [M!Idle EXCEPT !.at = "announce", !.todo = Folder]
  <2>1. w \in Asks /\ w.at = "announce"
    BY DEF M!Idle
  <2>2. asking' = [asking EXCEPT ![r] = w] /\ UNCHANGED <<mail, notice>>
    BY <1>7 DEF M!Broadcast
  <2> HIDE DEF w
  <2>. QED  BY <1>2, <2>1, <2>2
<1>8. ASSUME NEW r \in Request, NEW q \in Folder, NEW m \in Mail, M!SendSystem(r, q, m)
      PROVE  MailInv'
  <2> DEFINE w == [asking[r] EXCEPT !.at = "backfill", !.on = m, !.todo = asking[r].todo \ {q}]
  <2>1. w \in Asks /\ w.at = "backfill" /\ w.on = m
    BY <1>t
  <2>2. /\ asking' = [asking EXCEPT ![r].at = "backfill", ![r].on = m, ![r].todo = @ \ {q}]
        /\ M!Insert(m, Null, Null, Null, q) /\ notice' = notice
    BY <1>8 DEF M!SendSystem
  <2>3. asking' = [asking EXCEPT ![r] = w]
    BY <1>t, <2>2
  <2> HIDE DEF w
  <2>. QED  BY <1>4, <2>1, <2>2, <2>3
<1>9. ASSUME NEW r \in Request, M!Backfill(r)
      PROVE  MailInv'
  <2>1. PICK m \in Mail : /\ m = asking[r].on /\ mail[m] # Null
                          /\ mail[m].thread \in {Null, m} /\ mail[m].parent = Null
    BY <1>t, <1>9 DEF M!Backfill, Writing
  <2> DEFINE n == [mail[m] EXCEPT !.thread = m]
  <2>2. /\ n \in M!MessageRow /\ n.thread = m /\ n.parent = mail[m].parent
        /\ n.from = mail[m].from /\ n.to = mail[m].to
    BY <1>t, <2>1 DEF M!MessageRow
  <2>3. mail' = [mail EXCEPT ![m] = n]
    BY <1>t, <1>9, <2>1 DEF M!Backfill
  <2>4. notice' \in {notice, notice \cup {<<mail[m].to, m>>}}
    BY <1>9, <2>1 DEF M!Backfill, M!Emit
  <2>5. PICK w \in Asks : asking' = [asking EXCEPT ![r] = w] /\ w.at \in {"idle", "announce"}
    <3>1. CASE M!Answer(r)
      BY <1>i, <3>1 DEF M!Answer
    <3>2. CASE asking' = [asking EXCEPT ![r].at = "announce", ![r].on = Null]
      <4> DEFINE v == [asking[r] EXCEPT !.at = "announce", !.on = Null]
      <4>1. v \in Asks /\ v.at = "announce" /\ asking' = [asking EXCEPT ![r] = v]
        <5>1. v.at = "announce"
          BY <1>t
        <5>2. asking[r] \in Asks
          BY <1>t
        <5>3. v \in Asks
          BY ONLY <5>2
        <5>. QED  BY <1>t, <3>2, <5>1, <5>3
      <4>. QED  BY <4>1
    <3>. QED  BY <1>9, <3>1, <3>2 DEF M!Backfill
  <2> HIDE DEF n
  <2>6. /\ mail' \in [Mail -> M!MessageRow \cup {Null}]
        /\ mail'[m] = n /\ n # Null /\ \A k \in Mail : k # m => mail'[k] = mail[k]
    BY <1>t, <2>2, <2>3
  <2>7. mail[m] \in M!MessageRow
    BY <1>t, <2>1
  <2>8. M!TypeOK'
    <3>1. <<mail[m].to, m>> \in Folder \X Mail
      BY <2>7 DEF M!MessageRow
    <3>. QED  BY <1>t, <2>4, <2>5, <2>6, <3>1 DEF M!TypeOK
  <2>9. Placed(m)'
    BY <1>t, <2>1, <2>2, <2>6 DEF Placed, RootOf
  <2>10. \A k \in Mail : Kept(k)
    BY <2>1, <2>2, <2>6 DEF Kept
  <2>11. \A s \in Request : asking'[s] = asking[s] \/ Writing(s)'
    BY <1>t, <2>5 DEF Writing
  <2>12. \A k \in notice' : k \in notice \/ (mail'[k[2]] # Null /\ mail'[k[2]].to = k[1])
    BY <2>2, <2>4, <2>6
  <2>. QED  BY <2>6, <2>8, <2>9, <2>10, <2>11, <2>12, MailsKept
<1>10. ASSUME NEW r \in Request, NEW p \in Folder, NEW m \in Mail, M!ReadTarget(r, p, m)
      PROVE  MailInv'
  <2> DEFINE n == M!Target(m)
             w == [M!Idle EXCEPT !.at = "reply", !.by = p, !.on = m, !.row = n]
  <2>1. /\ mail[m] # Null /\ M!Party(p, mail[m]) /\ mail[m].from # Null
        /\ asking' = [asking EXCEPT ![r] = w] /\ UNCHANGED <<mail, notice>>
    BY <1>10 DEF M!ReadTarget, M!Sent
  <2>2. /\ n \in M!MessageRow /\ n.thread = mail[m].thread
        /\ n.from = mail[m].from /\ n.to = mail[m].to
    <3>1. mail[m] \in M!MessageRow
      BY <1>t, <2>1
    <3>2. n = [mail[m] EXCEPT !.parent = Null, !.seen = "unread"]
      BY DEF M!Target
    <3> HIDE DEF n
    <3>. QED  BY <3>1, <3>2 DEF M!MessageRow
  <2> HIDE DEF n
  <2>3. w \in Asks /\ w.at = "reply" /\ w.by = p /\ w.on = m /\ w.row = n
    BY <2>2 DEF M!Idle
  <2> HIDE DEF w
  <2>4. M!TypeOK'
    BY <1>t, <2>1, <2>3 DEF M!TypeOK
  <2>5. asking'[r] = w /\ \A s \in Request : s # r => asking'[s] = asking[s]
    BY <1>t, <2>1
  <2>6. Placed(m) /\ mail' = mail
    BY <1>t, <2>1
  <2>7. Writing(r)'
    BY <2>1, <2>2, <2>3, <2>5, <2>6 DEF Writing, Placed, RootOf, Beneath, M!Party
  <2>. QED  BY <2>1, <2>4, <2>5, <2>7, MailsKept DEF Kept
<1>11. ASSUME NEW r \in Request, NEW m \in Mail, M!InsertReply(r, m)
      PROVE  MailInv'
  <2> DEFINE x == asking[r].row
             p == asking[r].by
             q == M!OtherParty(p, x)
             a == asking[r].on
  <2>1. /\ x \in M!MessageRow /\ p \in Folder /\ x.from # Null /\ x.from # x.to
        /\ p \in {x.from, x.to}
        /\ x.thread # Null => RootOf(x.thread, x.from, x.to)
        /\ Beneath(a, x.thread, x.from, x.to)
    BY <1>t, <1>11 DEF M!InsertReply, Writing, M!Party
  <2>2. q \in Folder /\ p # q /\ {p, q} = {x.from, x.to} /\ x.thread \in Mail \cup {Null}
    BY <2>1 DEF M!OtherParty, M!MessageRow
  <2>3. /\ M!Insert(m, x.thread, a, p, q) /\ asking' = [asking EXCEPT ![r] = M!Idle]
        /\ notice' \in {notice, notice \cup {<<q, m>>}}
    BY <1>11 DEF M!InsertReply, M!Emit, M!Answer
  <2>4. /\ x.thread # Null => RootOf(x.thread, p, q) /\ p # Null
        /\ a \in Mail /\ Beneath(a, x.thread, p, q)
    BY <2>1, <2>2 DEF RootOf, Beneath
  <2> HIDE DEF x, p, q, a
  <2>. QED  BY <1>4, <1>i, <2>1, <2>2, <2>3, <2>4
<1>12. ASSUME NEW r \in Request, NEW p \in Folder, NEW t \in Mail \cup {Null}, M!OpenThread(r, p, t)
      PROVE  MailInv'
  <2> DEFINE w == [M!Idle EXCEPT !.at = "mark", !.by = p, !.on = t]
  <2>1. w \in Asks /\ w.at = "mark"
    BY DEF M!Idle
  <2>2. asking' = [asking EXCEPT ![r] = w] /\ UNCHANGED <<mail, notice>>
    BY <1>12 DEF M!OpenThread
  <2> HIDE DEF w
  <2>. QED  BY <1>2, <2>1, <2>2
<1>r. ASSUME NEW s, \A m \in Mail : m \in s => mail[m] # Null, mail' = M!Read(s)
      PROVE  /\ mail' \in [Mail -> M!MessageRow \cup {Null}]
             /\ \A m \in Mail : /\ mail[m] = Null <=> mail'[m] = Null
                                /\ mail[m] # Null =>
                                     /\ mail'[m].from = mail[m].from /\ mail'[m].to = mail[m].to
                                     /\ mail'[m].thread = mail[m].thread
                                     /\ mail'[m].parent = mail[m].parent
  <2>1. ASSUME NEW m \in Mail
        PROVE  /\ mail'[m] \in M!MessageRow \cup {Null}
               /\ mail[m] = Null <=> mail'[m] = Null
               /\ mail[m] # Null =>
                    /\ mail'[m].from = mail[m].from /\ mail'[m].to = mail[m].to
                    /\ mail'[m].thread = mail[m].thread
                    /\ mail'[m].parent = mail[m].parent
    <3>1. CASE mail[m] # Null
      <4>1. mail[m] \in M!MessageRow
        BY <1>t, <3>1
      <4>2. /\ [mail[m] EXCEPT !.seen = "read"] \in M!MessageRow
            /\ [mail[m] EXCEPT !.seen = "read"].from = mail[m].from
            /\ [mail[m] EXCEPT !.seen = "read"].to = mail[m].to
            /\ [mail[m] EXCEPT !.seen = "read"].thread = mail[m].thread
            /\ [mail[m] EXCEPT !.seen = "read"].parent = mail[m].parent
        BY <4>1 DEF M!MessageRow
      <4>3. mail'[m] \in {mail[m], [mail[m] EXCEPT !.seen = "read"]}
        BY <1>r DEF M!Read
      <4>. QED  BY <3>1, <4>1, <4>2, <4>3
    <3>2. CASE mail[m] = Null
      BY <1>r, <3>2 DEF M!Read
    <3>. QED  BY <3>1, <3>2
  <2>2. mail' = [m \in Mail |-> mail'[m]]
    BY <1>r DEF M!Read
  <2>. QED  BY <2>1, <2>2
<1>13. ASSUME NEW r \in Request, M!MarkThread(r)
      PROVE  MailInv'
  <2>1. /\ mail' = M!Read(M!Thread(asking[r].on) \cap M!Inbox(asking[r].by))
        /\ asking' = [asking EXCEPT ![r] = M!Idle] /\ notice' = notice
    BY <1>13 DEF M!MarkThread, M!Answer
  <2>2. \A m \in M!Thread(asking[r].on) \cap M!Inbox(asking[r].by) : mail[m] # Null
    BY DEF M!Thread, M!Sent
  <2>. QED  BY <1>i, <1>r, <1>5, <2>1, <2>2
<1>14. ASSUME NEW p \in Folder, NEW s \in SUBSET Mail, M!ReadMail(p, s)
      PROVE  MailInv'
  <2>1. mail' = M!Read(s \cap M!Inbox(p)) /\ UNCHANGED <<notice, asking>>
    BY <1>14 DEF M!ReadMail
  <2>2. \A m \in s \cap M!Inbox(p) : mail[m] # Null
    BY DEF M!Inbox, M!Sent
  <2>3. /\ mail' \in [Mail -> M!MessageRow \cup {Null}]
        /\ \A m \in Mail : /\ mail[m] = Null <=> mail'[m] = Null
                           /\ mail[m] # Null =>
                                /\ mail'[m].from = mail[m].from /\ mail'[m].to = mail[m].to
                                /\ mail'[m].thread = mail[m].thread
                                /\ mail'[m].parent = mail[m].parent
    BY <1>r, <2>1, <2>2
  <2>. QED  BY <1>s, <2>1, <2>3
<1>15. ASSUME NEW m \in Mail, M!Delete(m)
      PROVE  MailInv'
  <2> DEFINE n == [mail[m] EXCEPT !.seen = "deleted"]
  <2>1. mail[m] # Null /\ mail' = [mail EXCEPT ![m] = n] /\ UNCHANGED <<notice, asking>>
    BY <1>t, <1>15 DEF M!Delete, M!Sent
  <2>2. /\ n \in M!MessageRow /\ n.thread = mail[m].thread /\ n.parent = mail[m].parent
        /\ n.from = mail[m].from /\ n.to = mail[m].to
    BY <1>t, <2>1 DEF M!MessageRow
  <2> HIDE DEF n
  <2>3. /\ mail' \in [Mail -> M!MessageRow \cup {Null}]
        /\ mail'[m] = n /\ n # Null /\ \A k \in Mail : k # m => mail'[k] = mail[k]
    BY <1>t, <2>1, <2>2
  <2>. QED  BY <1>s, <2>1, <2>2, <2>3
<1>16. ASSUME NEW n \in notice, M!DeleteNotice(n)
      PROVE  MailInv'
  <2>1. notice' \subseteq notice /\ UNCHANGED <<mail, asking>>
    BY <1>16 DEF M!DeleteNotice
  <2>2. M!TypeOK'
    BY <1>t, <2>1 DEF M!TypeOK
  <2>. QED  BY <2>1, <2>2, MailsKept DEF Kept
<1>17. ASSUME NEW r \in Request, M!Interrupt(r)
      PROVE  MailInv'
  BY <1>3, <1>17 DEF M!Interrupt
<1>. QED  BY <1>1, <1>6, <1>7, <1>8, <1>9, <1>10, <1>11, <1>12, <1>13, <1>14, <1>15, <1>16, <1>17 DEF M!Next

----------------------------------------------------------------------------
(* Comments: ids are given in order, and each step of a request knows of    *)
(* the comment it is about what the next one relies on.                     *)
There(c) == comment[c] # Null
SaidOn(p, x) == \E d \in 1..Remarks : There(d) /\ comment[d].on = x /\ comment[d].by = p
Standing(d, x) == There(d) /\ comment[d].on = x /\ comment[d].text # "deleted"
Concerned(p, c) == p # comment[c].by /\ (p = Host \/ SaidOn(p, comment[c].on))
(* Who has to hear of a comment.                                            *)
Hears(p, c) == p = Host \/ \E d \in 1..c : Standing(d, comment[c].on) /\ comment[d].by = p
OnParent(id, x) == id # 0 => There(id) /\ comment[id].on = x

CommentIn(c) == There(c) =>
  /\ OnParent(comment[c].parent, comment[c].on)
  /\ \A d \in 1..(c - 1) : There(d)
Posts(r) ==
  /\ posting[r].at = "insert" =>
       /\ posting[r].on \in Resource /\ posting[r].by \in Commenter
       /\ OnParent(posting[r].id, posting[r].on)
  /\ posting[r].at \in {"participants", "emit", "update", "delete"} =>
       posting[r].id \in 1..Remarks /\ There(posting[r].id)
  /\ posting[r].at = "participants" =>
       /\ comment[posting[r].id].on = posting[r].on
       /\ comment[posting[r].id].by = posting[r].by
  /\ posting[r].at = "emit" =>
       /\ \A p \in posting[r].todo : Concerned(p, posting[r].id)
       /\ ~posting[r].missed => \A p \in Commenter :
            Hears(p, posting[r].id) => \/ p = comment[posting[r].id].by
                                       \/ <<p, posting[r].id>> \in told
                                       \/ p \in posting[r].todo
TalkInv ==
  /\ C!TypeOK
  /\ \A c \in 1..Remarks : CommentIn(c)
  /\ \A r \in Posting : Posts(r)
  /\ \A n \in told : There(n[2]) /\ Concerned(n[1], n[2])
  /\ \A c \in announced : There(c) /\ \A p \in Commenter :
       Hears(p, c) => p = comment[c].by \/ <<p, c>> \in told

(* At the start nothing is said.                                            *)
LEMMA TalkInit == C!Init => TalkInv
<1> SUFFICES ASSUME C!Init PROVE TalkInv
  OBVIOUS
<1> USE DEF C!Init, C!Idle
<1>1. C!TypeOK
  BY DEF C!TypeOK, C!Remark
<1>2. (\A c \in 1..Remarks : comment[c] = Null) /\ \A r \in Posting : posting[r].at = "idle"
  BY DEF C!Remark
<1>3. told = {} /\ announced = {}
  OBVIOUS
<1>. QED  BY <1>1, <1>2, <1>3 DEF TalkInv, CommentIn, There, Posts

(* A comment stays where it is and its author's, and once deleted does not  *)
(* stand again; a new one comes after those there are.                      *)
Lasts(c) == There(c) =>
  /\ There(c)' /\ comment'[c].on = comment[c].on /\ comment'[c].by = comment[c].by
  /\ comment'[c].parent = comment[c].parent
  /\ comment[c].text = "deleted" => comment'[c].text = "deleted"

(* The invariant lasts while comments that stay keep their thread and new   *)
(* marks are due.                                                           *)
LEMMA TalksLast ==
  ASSUME TalkInv, C!TypeOK', \A c \in 1..Remarks : Lasts(c),
         \A c \in 1..Remarks : There(c)' => There(c) \/ CommentIn(c)',
         told \subseteq told',
         \A n \in told' : n \in told \/ (There(n[2])' /\ Concerned(n[1], n[2])'),
         \A c \in announced' : c \in announced \/
           (There(c)' /\ \A p \in Commenter :
              Hears(p, c)' => p = comment'[c].by \/ <<p, c>> \in told'),
         \A r \in Posting : posting'[r] = posting[r] \/ Posts(r)'
  PROVE  TalkInv'
<1>t. /\ comment \in [1..Remarks -> C!Comment \cup {Null}]
      /\ told \in SUBSET (Commenter \X (1..Remarks)) /\ announced \in SUBSET (1..Remarks)
      /\ \A c \in 1..Remarks : CommentIn(c) /\ Lasts(c)
      /\ \A r \in Posting : Posts(r)
      /\ \A n \in told : There(n[2]) /\ Concerned(n[1], n[2])
  BY DEF TalkInv, C!TypeOK, C!Remark
<1>1. ASSUME NEW x, NEW c, OnParent(c, x), c \in 0..Remarks
      PROVE  OnParent(c, x)'
  BY <1>t, <1>1, Sizes DEF OnParent, Lasts
<1>2. ASSUME NEW c \in 1..Remarks
      PROVE  CommentIn(c)'
  <2>1. CASE There(c)
    <3>1. comment[c].parent \in 0..Remarks
      BY <1>t, <2>1, Sizes DEF C!Comment, C!Remark, There
    <3>2. OnParent(comment[c].parent, comment[c].on)'
      BY <1>1, <1>t, <2>1, <3>1 DEF CommentIn, OnParent, Lasts
    <3>3. \A d \in 1..(c - 1) : There(d)'
      BY <1>t, <2>1, Sizes DEF CommentIn, Lasts
    <3>. QED  BY <1>t, <2>1, <3>2, <3>3 DEF CommentIn, Lasts, OnParent
  <2>2. CASE ~There(c)
    BY <2>2 DEF CommentIn
  <2>. QED  BY <2>1, <2>2
<1>3. ASSUME NEW p, NEW c \in 1..Remarks, There(c), Concerned(p, c)
      PROVE  There(c)' /\ Concerned(p, c)'
  BY <1>t, <1>3 DEF Concerned, SaidOn, Lasts
<1>4. ASSUME NEW p, NEW c \in 1..Remarks, There(c), Hears(p, c)'
      PROVE  Hears(p, c)
  <2>1. \A d \in 1..c : d \in 1..Remarks /\ There(d)
    BY <1>t, <1>4, Sizes DEF CommentIn
  <2>. QED  BY <1>t, <1>4, <2>1 DEF Hears, Standing, Lasts
<1>5. ASSUME NEW r \in Posting, posting'[r] = posting[r]
      PROVE  Posts(r)'
  <2>1. PICK w : w = posting[r]
    OBVIOUS
  <2>2. w.id \in 0..Remarks /\ w.todo \subseteq Commenter
    BY <2>1, Sizes DEF TalkInv, C!TypeOK, C!Remark
  <2>3. /\ w.at = "insert" =>
             w.on \in Resource /\ w.by \in Commenter /\ OnParent(w.id, w.on)
        /\ w.at \in {"participants", "emit", "update", "delete"} =>
             w.id \in 1..Remarks /\ There(w.id) /\ Lasts(w.id)
        /\ w.at = "participants" =>
             comment[w.id].on = w.on /\ comment[w.id].by = w.by
        /\ w.at = "emit" =>
             /\ \A p \in w.todo : Concerned(p, w.id)
             /\ ~w.missed => \A p \in Commenter :
                  Hears(p, w.id) => p = comment[w.id].by \/ <<p, w.id>> \in told \/ p \in w.todo
    BY <1>t, <2>1 DEF Posts
  <2>4. w.at = "insert" => OnParent(w.id, w.on)'
    BY <1>1, <1>5, <2>1, <2>2, <2>3
  <2>5. w.at = "emit" => \A p \in w.todo : Concerned(p, w.id)'
    BY <1>3, <2>3
  <2>6. w.at = "emit" /\ ~w.missed => \A p \in Commenter :
          Hears(p, w.id)' => p = comment'[w.id].by \/ <<p, w.id>> \in told' \/ p \in w.todo
    BY <1>4, <2>3 DEF Lasts
  <2>. QED  BY <1>5, <2>1, <2>3, <2>4, <2>5, <2>6 DEF Posts, Lasts
<1>6. \A n \in told' : There(n[2])' /\ Concerned(n[1], n[2])'
  BY <1>t, <1>3
<1>7. ASSUME NEW c \in announced'
      PROVE  There(c)' /\ \A p \in Commenter : Hears(p, c)' => p = comment'[c].by \/ <<p, c>> \in told'
  BY <1>t, <1>4 DEF TalkInv, Lasts
<1>. QED  BY <1>2, <1>5, <1>6, <1>7 DEF TalkInv

(* Every step of a comment's handler keeps the invariant.                   *)
LEMMA TalkStep == TalkInv /\ [C!Next]_comments => TalkInv'
<1> SUFFICES ASSUME TalkInv, [C!Next]_comments
             PROVE  TalkInv'
  OBVIOUS
<1> DEFINE Posted == [at : {"idle", "insert", "participants", "emit", "update", "delete"},
                    by : Commenter \cup {Null}, on : Resource \cup {Null},
                    id : (1..Remarks) \cup {0}, todo : SUBSET Commenter, missed : BOOLEAN]
<1> USE NoRowIsNull DEF C!At
<1>t. /\ C!TypeOK /\ comment \in [1..Remarks -> C!Comment \cup {Null}]
      /\ told \in SUBSET (Commenter \X (1..Remarks)) /\ announced \in SUBSET (1..Remarks)
      /\ posting \in [Posting -> Posted]
      /\ \A c \in 1..Remarks : CommentIn(c)
      /\ \A r \in Posting : Posts(r)
  BY DEF TalkInv, C!TypeOK, C!Remark
<1>i. C!Idle \in Posted /\ C!Idle.at = "idle"
  BY DEF C!Idle
<1>1. CASE UNCHANGED comments
  <2>1. C!TypeOK'
    BY <1>t, <1>1 DEF comments, C!TypeOK
  <2>. QED  BY <1>t, <1>1, <2>1, TalksLast DEF comments, Lasts, There
(* Only a request goes on.                                                  *)
<1>2. ASSUME NEW r \in Posting, NEW w \in Posted, posting' = [posting EXCEPT ![r] = w],
             UNCHANGED <<comment, told, announced>>, Posts(r)'
      PROVE  TalkInv'
  <2>1. C!TypeOK'
    BY <1>t, <1>2 DEF C!TypeOK, C!Remark
  <2>2. \A s \in Posting : posting'[s] = posting[s] \/ Posts(s)'
    BY <1>t, <1>2
  <2>. QED  BY <1>2, <2>1, <2>2, TalksLast DEF Lasts, There
(* A comment gets another text, and its request is over.                    *)
<1>3. ASSUME NEW r \in Posting, NEW c \in 1..Remarks, There(c),
             NEW text \in {"edited", "deleted"}, comment[c].text = "deleted" => text = "deleted",
             comment' = [comment EXCEPT ![c].text = text], C!Answer(r),
             UNCHANGED <<told, announced>>
      PROVE  TalkInv'
  <2>0. PICK v \in C!Comment : v = comment[c]
    BY <1>t, <1>3 DEF There
  <2> DEFINE n == [v EXCEPT !.text = text]
  <2>1. /\ n \in C!Comment /\ n.text = text /\ n.on = v.on
        /\ n.by = v.by /\ n.parent = v.parent
    BY DEF C!Comment
  <2>2. comment' = [comment EXCEPT ![c] = n]
    BY <1>3, <2>0
  <2> HIDE DEF n
  <2>3. comment' \in [1..Remarks -> C!Comment \cup {Null}]
        /\ comment'[c] = n /\ n # Null /\ \A d \in 1..Remarks : d # c => comment'[d] = comment[d]
    BY <1>t, <2>1, <2>2
  <2>4. C!TypeOK' /\ \A s \in Posting : posting'[s] = posting[s] \/ Posts(s)'
    BY <1>t, <1>3, <1>i, <2>3 DEF C!TypeOK, C!Remark, C!Answer, Posts
  <2>5. \A d \in 1..Remarks : Lasts(d)
    BY <1>3, <2>0, <2>1, <2>3 DEF Lasts, There
  <2>6. \A d \in 1..Remarks : There(d)' => There(d)
    BY <1>3, <2>3 DEF There
  <2>. QED  BY <1>3, <2>4, <2>5, <2>6, TalksLast
<1>4. ASSUME NEW r \in Posting, NEW p \in Commenter, NEW x \in Resource,
             NEW parent \in (1..Remarks) \cup {0}, C!AskCreate(r, p, x, parent)
      PROVE  TalkInv'
  <2> DEFINE w == [C!Idle EXCEPT !.at = "insert", !.by = p, !.id = parent, !.on = x]
  <2>1. w \in Posted /\ w.at = "insert" /\ w.by = p /\ w.on = x /\ w.id = parent
    BY DEF C!Idle
  <2>2. posting' = [posting EXCEPT ![r] = w] /\ UNCHANGED <<comment, told, announced>>
    BY <1>4 DEF C!AskCreate, C!Goto
  <2> HIDE DEF w
  <2>3. posting'[r] = w /\ OnParent(parent, x)'
    BY <1>t, <1>4, <2>2 DEF C!AskCreate, C!ParentOn, C!On, C!There, OnParent, There
  <2>. QED  BY <1>2, <2>1, <2>2, <2>3 DEF Posts
<1>5. ASSUME NEW r \in Posting, NEW c \in 1..Remarks, C!InsertComment(r, c)
      PROVE  TalkInv'
  <2>1. PICK v \in Posted : v = posting[r]
    BY <1>t
  <2>2. /\ v.at = "insert" /\ v.on \in Resource /\ v.by \in Commenter /\ OnParent(v.id, v.on)
    BY <1>t, <1>5, <2>1 DEF Posts, C!InsertComment
  <2> DEFINE n == [on |-> v.on, by |-> v.by, parent |-> v.id, text |-> "new"]
             w == [v EXCEPT !.at = "participants", !.id = c]
  <2>3. /\ n \in C!Comment /\ n.on = v.on /\ n.by = v.by /\ n.parent = v.id
    BY <2>2 DEF C!Comment, C!Remark
  <2>4. w \in Posted /\ w.at = "participants" /\ w.id = c /\ w.on = v.on /\ w.by = v.by
    BY <2>1
  <2>5. comment' = [comment EXCEPT ![c] = n] /\ posting' = [posting EXCEPT ![r] = w]
        /\ UNCHANGED <<told, announced>>
        /\ ~There(c) /\ \A d \in 1..(c - 1) : There(d)
    BY <1>t, <1>5, <2>1 DEF C!InsertComment, C!There, There
  <2> HIDE DEF n, w
  <2>6. /\ comment' \in [1..Remarks -> C!Comment \cup {Null}]
        /\ comment'[c] = n /\ n # Null /\ \A d \in 1..Remarks : d # c => comment'[d] = comment[d]
        /\ posting' \in [Posting -> Posted] /\ posting'[r] = w
        /\ \A s \in Posting : s # r => posting'[s] = posting[s]
    BY <1>t, <2>3, <2>4, <2>5
  <2>7. C!TypeOK'
    BY <1>t, <2>5, <2>6 DEF C!TypeOK, C!Remark
  <2>8. \A d \in 1..Remarks : Lasts(d)
    BY <2>5, <2>6 DEF Lasts, There
  <2>9. CommentIn(c)'
    <3>1. OnParent(v.id, v.on)'
      BY <2>2, <2>5, <2>6, Sizes DEF OnParent, There
    <3>2. \A d \in 1..(c - 1) : There(d)'
      BY <2>5, <2>6, Sizes DEF There
    <3>. QED  BY <2>3, <2>6, <3>1, <3>2 DEF CommentIn, OnParent
  <2>10. \A d \in 1..Remarks : There(d)' => There(d) \/ CommentIn(d)'
    BY <2>6, <2>9 DEF There
  <2>11. Posts(r)'
    BY <2>3, <2>4, <2>6 DEF Posts, There
  <2>. QED  BY <2>5, <2>6, <2>7, <2>8, <2>10, <2>11, TalksLast
<1>6. ASSUME NEW r \in Posting, C!ReadParticipants(r)
      PROVE  TalkInv'
  <2>1. PICK v \in Posted : v = posting[r]
    BY <1>t
  <2>c. PICK c : c = v.id
    OBVIOUS
  <2>2. /\ v.at = "participants" /\ c \in 1..Remarks /\ There(c)
        /\ comment[c].on = v.on /\ comment[c].by = v.by
    BY <1>t, <1>6, <2>1, <2>c DEF Posts, C!ReadParticipants
  <2>3. PICK todo, those : todo = ({Host} \cup those) \ {v.by} /\ todo = C!Recipients(r)
                          /\ those = {comment[d].by : d \in {d \in 1..Remarks : Standing(d, v.on)}}
    BY <2>1 DEF C!Recipients, C!ParticipantsFor, C!On, C!Stands, C!There, C!Remark, Standing, There
  <2>4. /\ \A p \in those : \E d \in 1..Remarks : Standing(d, v.on) /\ comment[d].by = p
        /\ \A d \in 1..Remarks : Standing(d, v.on) => comment[d].by \in those
    BY <2>3
  <2>5. todo \subseteq Commenter
    BY <1>t, <2>3, <2>4, HostIsOne DEF Standing, There, C!Comment
  <2> DEFINE w == [C!Idle EXCEPT !.at = "emit", !.id = c, !.todo = todo]
  <2>6. w \in Posted /\ w.at = "emit" /\ w.id = c /\ w.todo = todo
    BY <2>2, <2>5 DEF C!Idle
  <2>7. posting' = [posting EXCEPT ![r] = w] /\ UNCHANGED <<comment, told, announced>>
    BY <1>6, <2>1, <2>c, <2>3 DEF C!ReadParticipants
  <2> HIDE DEF w
  <2>8. \A p \in todo : Concerned(p, c)
    <3>1. \A p \in those : SaidOn(p, v.on)
      BY <2>4 DEF SaidOn, Standing
    <3>. QED  BY <2>2, <2>3, <3>1 DEF Concerned
  <2>9. \A p : Hears(p, c) => p = comment[c].by \/ p \in todo
    BY <2>2, <2>3, <2>4, Sizes DEF Hears
  <2>10. posting'[r] = w
    BY <1>t, <2>7
  <2>11. (\A p \in todo : Concerned(p, c)') /\ There(c)'
         /\ \A p : Hears(p, c)' => p = comment'[c].by \/ p \in todo
    BY <2>2, <2>7, <2>8, <2>9 DEF Concerned, SaidOn, Hears, Standing, There
  <2>12. Posts(r)'
    BY <2>2, <2>6, <2>10, <2>11 DEF Posts
  <2>. QED  BY <1>2, <2>6, <2>7, <2>12
<1>7. ASSUME NEW r \in Posting, NEW p \in Commenter, C!Emit(r, p)
      PROVE  TalkInv'
  <2>1. PICK v \in Posted : v = posting[r]
    BY <1>t
  <2>c. PICK c : c = v.id
    OBVIOUS
  <2>2. /\ v.at = "emit" /\ p \in v.todo /\ c \in 1..Remarks /\ There(c)
        /\ \A q \in v.todo : Concerned(q, c)
        /\ ~v.missed => \A q \in Commenter :
             Hears(q, c) => q = comment[c].by \/ <<q, c>> \in told \/ q \in v.todo
    BY <1>t, <1>7, <2>1, <2>c DEF Posts, C!Emit
  <2>3. ASSUME NEW missed \in BOOLEAN, v.missed => missed,
               told' \in {told, told \cup {<<p, c>>}},
               ~missed => told' = told \cup {<<p, c>>},
               posting' = [posting EXCEPT ![r] = [v EXCEPT !.todo = v.todo \ {p}, !.missed = missed]]
        PROVE  TalkInv'
    <3> DEFINE w == [v EXCEPT !.todo = v.todo \ {p}, !.missed = missed]
    <3>1. w \in Posted /\ w.at = "emit" /\ w.id = c /\ w.todo = v.todo \ {p} /\ w.missed = missed
      BY <2>c, <2>2
    <3>2. posting' = [posting EXCEPT ![r] = w]
      BY <2>3
    <3> HIDE DEF w
    <3>3. posting' \in [Posting -> Posted] /\ posting'[r] = w
          /\ \A s \in Posting : s # r => posting'[s] = posting[s]
      BY <1>t, <3>1, <3>2
    <3>4. comment' = comment /\ announced' = announced
      BY <1>7 DEF C!Emit
    <3>5. C!TypeOK'
      BY <1>t, <2>2, <2>3, <3>3, <3>4 DEF C!TypeOK, C!Remark
    <3>6. \A q : (Concerned(q, c)' <=> Concerned(q, c)) /\ (Hears(q, c)' <=> Hears(q, c))
      BY <3>4 DEF Concerned, SaidOn, Hears, Standing, There
    <3>7. Posts(r)'
      BY <2>2, <2>3, <3>1, <3>3, <3>4, <3>6 DEF Posts, There
    <3>8. \A n \in told' : n \in told \/ (There(n[2])' /\ Concerned(n[1], n[2])')
      BY <2>2, <2>3, <3>4, <3>6 DEF There
    <3>9. \A s \in Posting : posting'[s] = posting[s] \/ Posts(s)'
      BY <3>3, <3>7
    <3>10. (\A d \in 1..Remarks : Lasts(d)) /\ \A d \in 1..Remarks : There(d)' => There(d)
      BY <3>4 DEF Lasts, There
    <3>. QED  BY <2>3, <3>4, <3>5, <3>8, <3>9, <3>10, TalksLast
  <2>4. CASE told' = told \cup {<<p, c>>} /\ posting' = [posting EXCEPT ![r].todo = @ \ {p}]
    <3>1. v.missed \in BOOLEAN /\ [v EXCEPT !.todo = v.todo \ {p}, !.missed = v.missed] = [v EXCEPT !.todo = v.todo \ {p}]
      OBVIOUS
    <3>. QED  BY <2>1, <2>3, <2>4, <3>1
  <2>5. CASE told' = told /\ posting' = [posting EXCEPT ![r].todo = @ \ {p}, ![r].missed = TRUE]
    <3>1. posting' = [posting EXCEPT ![r] = [v EXCEPT !.todo = v.todo \ {p}, !.missed = TRUE]]
      BY <1>t, <2>1, <2>5
    <3>. QED  BY <2>3, <2>5, <3>1
  <2>. QED  BY <1>7, <2>c, <2>1, <2>4, <2>5 DEF C!Emit
<1>8. ASSUME NEW r \in Posting, C!Created(r)
      PROVE  TalkInv'
  <2>1. PICK v \in Posted : v = posting[r]
    BY <1>t
  <2>c. PICK c : c = v.id
    OBVIOUS
  <2>2. /\ v.at = "emit" /\ v.todo = {} /\ c \in 1..Remarks /\ There(c)
        /\ ~v.missed => \A q \in Commenter :
             Hears(q, c) => q = comment[c].by \/ <<q, c>> \in told
    BY <1>t, <1>8, <2>1, <2>c DEF Posts, C!Created
  <2>3. /\ announced' \in {announced, announced \cup {c}} /\ (v.missed => announced' = announced)
        /\ posting' = [posting EXCEPT ![r] = C!Idle] /\ UNCHANGED <<comment, told>>
    BY <1>8, <2>1, <2>c DEF C!Created, C!Answer
  <2>4. C!TypeOK' /\ \A s \in Posting : posting'[s] = posting[s] \/ Posts(s)'
    BY <1>t, <1>i, <2>2, <2>3 DEF C!TypeOK, C!Remark, Posts
  <2>5. \A d \in announced' : d \in announced \/
          (There(d)' /\ \A q \in Commenter : Hears(q, d)' => q = comment'[d].by \/ <<q, d>> \in told')
    BY <2>2, <2>3 DEF Hears, Standing, There
  <2>6. (\A d \in 1..Remarks : Lasts(d)) /\ \A d \in 1..Remarks : There(d)' => There(d)
    BY <2>3 DEF Lasts, There
  <2>. QED  BY <2>3, <2>4, <2>5, <2>6, TalksLast
<1>9. ASSUME NEW r \in Posting, NEW c \in 1..Remarks, NEW at \in {"update", "delete"},
             C!Stands(c), C!Goto(r, Null, at, c, Null), UNCHANGED <<comment, told, announced>>
      PROVE  TalkInv'
  <2> DEFINE w == [C!Idle EXCEPT !.at = at, !.by = Null, !.id = c, !.on = Null]
  <2>1. w \in Posted /\ w.at = at /\ w.id = c
    BY DEF C!Idle
  <2>2. posting' = [posting EXCEPT ![r] = w]
    BY <1>9 DEF C!Goto
  <2> HIDE DEF w
  <2>3. Posts(r)'
    BY <1>t, <1>9, <2>1, <2>2 DEF Posts, There, C!Stands, C!There
  <2>. QED  BY <1>2, <1>9, <2>1, <2>2, <2>3
<1>10. ASSUME NEW r \in Posting, C!Edit(r)
       PROVE  TalkInv'
  <2>1. PICK c : c = posting[r].id
    OBVIOUS
  <2>2. c \in 1..Remarks /\ There(c)
    BY <1>t, <1>10, <2>1 DEF Posts, C!Edit
  <2>3. PICK text : text = IF comment[c].text = "deleted" THEN "deleted" ELSE "edited"
    OBVIOUS
  <2>4. comment' = [comment EXCEPT ![c].text = text] /\ C!Answer(r) /\ UNCHANGED <<told, announced>>
    BY <1>10, <2>1, <2>3 DEF C!Edit
  <2>. QED  BY <1>3, <2>2, <2>3, <2>4
<1>11. ASSUME NEW r \in Posting, C!Delete(r)
       PROVE  TalkInv'
  <2>1. PICK c : c = posting[r].id
    OBVIOUS
  <2>2. c \in 1..Remarks /\ There(c)
    BY <1>t, <1>11, <2>1 DEF Posts, C!Delete
  <2>. QED  BY <1>3, <1>11, <2>1, <2>2 DEF C!Delete
<1>12. ASSUME NEW r \in Posting, C!Interrupt(r)
       PROVE  TalkInv'
  <2>1. Posts(r)'
    BY <1>t, <1>12, <1>i DEF C!Interrupt, C!Answer, Posts
  <2>. QED  BY <1>2, <1>12, <1>i, <2>1 DEF C!Interrupt, C!Answer
<1>. QED  BY <1>1, <1>4, <1>5, <1>6, <1>7, <1>8, <1>9, <1>10, <1>11, <1>12
          DEF C!Next, C!Remark, C!AskEdit, C!AskDelete

(* However messages are sent, answered, read and deleted, and comments made *)
(* and removed, in any order: a thread joins two, and those concerned hear. *)
THEOREM ConcernedAreTold == MCSpec => []ToldConcerned
<1> DEFINE Inv == (focus = "mails" => MailInv) /\ (focus = "comments" => TalkInv)
<1>1. MCInit => Inv
  BY MailInit, TalkInit DEF MCInit
<1>2. Inv /\ [MCNext]_allVars => Inv'
  <2> SUFFICES ASSUME Inv, [MCNext]_allVars
               PROVE  Inv'
    OBVIOUS
  <2>1. ASSUME focus' = "mails" PROVE MailInv'
    <3>1. focus = "mails" /\ [M!Next]_mails
      BY <2>1 DEF MCNext, allVars
    <3>. QED  BY <3>1, MailStep
  <2>2. ASSUME focus' = "comments" PROVE TalkInv'
    <3>1. focus = "comments" /\ [C!Next]_comments
      BY <2>2 DEF MCNext, allVars
    <3>. QED  BY <3>1, TalkStep
  <2>. QED  BY <2>1, <2>2
<1>3. Inv => ToldConcerned
  <2> SUFFICES ASSUME Inv PROVE ToldConcerned
    OBVIOUS
  <2>1. focus = "mails" => M!ThreadsJoinTwo
    <3> SUFFICES ASSUME MailInv PROVE M!ThreadsJoinTwo
      OBVIOUS
    <3>1. ASSUME NEW m \in Mail, NEW n \in Mail, mail[m] # Null, mail[n] # Null,
                 mail[m].thread # Null, mail[m].thread = mail[n].thread
          PROVE  /\ {mail[m].from, mail[m].to} = {mail[n].from, mail[n].to}
                 /\ mail[m].from # mail[m].to
                 /\ mail[m].from = Null => m = n
      <4>1. Placed(m) /\ Placed(n)
        BY DEF MailInv
      <4>2. \A k \in Mail : mail[k] # Null => mail[k].to # Null
        BY NoRowIsNull DEF MailInv, M!TypeOK, M!MessageRow
      <4>3. {mail[m].from, mail[m].to} = {mail[n].from, mail[n].to}
        BY <3>1, <4>1 DEF Placed, RootOf
      <4>4. mail[m].from = Null => mail[n].from = Null
        BY <3>1, <4>2, <4>3
      <4>. QED  BY <3>1, <4>1, <4>3, <4>4 DEF Placed
    <3>2. \A n \in notice : mail[n[2]].to = n[1]
      BY DEF MailInv
    <3>3. ASSUME NEW m \in Mail, mail[m] # Null, mail[m].parent # Null
          PROVE  Beneath(mail[m].parent, mail[m].thread, mail[m].from, mail[m].to)
      BY <3>3 DEF MailInv, Placed
    <3>. QED  BY <3>1, <3>2, <3>3 DEF M!ThreadsJoinTwo, M!Sent, Beneath
  <2>2. focus = "comments" => C!ToldConcerned
    <3> SUFFICES ASSUME TalkInv PROVE C!ToldConcerned
      OBVIOUS
    <3>t. /\ comment \in [1..Remarks -> C!Comment \cup {Null}]
          /\ told \in SUBSET (Commenter \X (1..Remarks)) /\ announced \in SUBSET (1..Remarks)
      BY DEF TalkInv, C!TypeOK, C!Remark
    <3>1. \A c \in 1..Remarks : There(c) /\ comment[c].parent # 0 =>
            C!On(comment[c].parent, comment[c].on)
      BY DEF TalkInv, CommentIn, OnParent, There, C!On, C!There
    <3>2. \A n \in told : /\ n[1] # comment[n[2]].by
                          /\ n[1] = Host \/ \E d \in 1..Remarks : C!On(d, comment[n[2]].on) /\ comment[d].by = n[1]
      BY DEF TalkInv, Concerned, SaidOn, There, C!On, C!There
    <3>3. ASSUME NEW c \in announced,
                 NEW p \in {Host} \cup {comment[d].by : d \in {d \in 1..c : C!On(d, comment[c].on) /\ C!Stands(d)}}
          PROVE  p = comment[c].by \/ <<p, c>> \in told
      <4>1. c \in 1..Remarks /\ CommentIn(c) /\ There(c)
        BY <3>t DEF TalkInv
      <4>2. Hears(p, c)
        BY DEF Hears, Standing, There, C!On, C!Stands, C!There
      <4>3. p \in Commenter
        BY <3>t, <4>1, HostIsOne, NoRowIsNull, Sizes DEF C!On, C!Stands, C!There, C!Comment
      <4>. QED  BY <4>2, <4>3 DEF TalkInv
    <3>. QED  BY <3>1, <3>2, <3>3 DEF C!ToldConcerned, C!Remark, There, C!There
  <2>. QED  BY <2>1, <2>2 DEF ToldConcerned
<1>. QED  BY <1>1, <1>2, <1>3, PTL DEF MCSpec

----------------------------------------------------------------------------
(* The content index.                                                       *)
(* What a writer has in hand, once it has begun, is a key and a row.        *)
Handed(w) == writer[w].at \in {"archive", "update", "check"} =>
  writer[w].read \in X!FileRow /\ writer[w].key \in Key

(* While version numbers are not given out again, the worker's copy and the *)
(* recorded text are of a version the row has had: of its bytes, if it has  *)
(* the version still.                                                       *)
Behind ==
  /\ row.indexed <= row.version
  /\ worker.at # "idle" =>
       /\ worker.version <= row.version
       /\ worker.version = row.version => worker.key = row.key
       /\ worker.text \in {worker.key, Null}

TextInv ==
  /\ X!TypeOK
  /\ \A w \in Writer : Handed(w)
  /\ ~reused => Behind
  /\ X!IndexedBytes

(* There is a version more than there are writers, and each is a number.    *)
LEMMA VersionsAreNumbers ==
  1 \in X!Version /\ \A v \in X!Version \cup {0} : v \in Nat
<1>1. Cardinality(Writer) \in Nat
  BY Sizes, FS_CardinalityType
<1>2. X!Version = 1..(Cardinality(Writer) + 1)
  BY DEF X!Version, X!Cardinality, Cardinality, X!IsFiniteSet, IsFiniteSet
<1>. QED  BY <1>1, <1>2

(* A new row has its first version and nothing indexed.                     *)
LEMMA TextInit == X!Init => TextInv
<1> SUFFICES ASSUME X!Init
             PROVE  TextInv
  OBVIOUS
<1>1. row \in X!FileRow
  <2>1. PICK k \in Key : row = [key |-> k, version |-> 1, scan |-> "pending", trashed |-> FALSE,
                               indexed |-> 0, text |-> Null]
    BY DEF X!Init
  <2>. QED  BY <2>1, VersionsAreNumbers DEF X!FileRow
<1>2. X!TypeOK
  BY <1>1 DEF X!Init, X!TypeOK, X!WriterState, X!WorkerState, X!Resting
<1>. QED  BY <1>2, VersionsAreNumbers DEF TextInv, X!Init, X!Resting, Behind, Handed, X!IndexedBytes

(* Whoever replaces the bytes moves the version on, or gives a number out   *)
(* again; the worker records on the condition that the row has the version  *)
(* it took.                                                                 *)
LEMMA TextStep == TextInv /\ [X!Next]_index => TextInv'
<1> SUFFICES ASSUME TextInv, [X!Next]_index
             PROVE  TextInv'
  OBVIOUS
<1>v. (\A v \in X!Version \cup {0} : v \in Nat) /\ 1 \in X!Version /\ Null \notin Key
  BY VersionsAreNumbers, NoKeyIsNull
<1> USE DEF TextInv, X!TypeOK, X!WriterState, X!WorkerState, X!FileRow
<1>1. CASE UNCHANGED index
  BY <1>1 DEF index, Handed, Behind, X!IndexedBytes
<1>2. ASSUME NEW w \in Writer, NEW k \in Key, X!PutBytes(w, k)
      PROVE  TextInv'
  <2>1. X!TypeOK'
    BY <1>2, <1>v DEF X!PutBytes
  <2>. QED  BY <1>2, <1>v, <2>1 DEF X!PutBytes, Handed, Behind, X!IndexedBytes
<1>3. ASSUME NEW w \in Writer, NEW v \in X!Version, X!RestoreVersion(w, v)
      PROVE  TextInv'
  <2>1. X!TypeOK'
    BY <1>3, <1>v DEF X!RestoreVersion
  <2>. QED  BY <1>3, <1>v, <2>1 DEF X!RestoreVersion, Handed, Behind, X!IndexedBytes
<1>4. ASSUME NEW w \in Writer, X!ArchiveCurrent(w)
      PROVE  TextInv'
  <2>1. writer[w].read \in X!FileRow
    BY <1>4 DEF X!ArchiveCurrent, Handed
  <2>2. X!TypeOK'
    BY <1>4, <1>v, <2>1 DEF X!ArchiveCurrent
  <2>. QED  BY <1>4, <1>v, <2>2 DEF X!ArchiveCurrent, Handed, Behind, X!IndexedBytes
<1>5. ASSUME NEW w \in Writer, X!UpdateRow(w)
      PROVE  TextInv'
  <2>0. PICK s \in X!NextScan(w) :
          row' = [row EXCEPT !.key = writer[w].key, !.version = X!NextVersion(w), !.scan = s]
    BY <1>5 DEF X!UpdateRow
  <2>1. s \in {"pending", "clean", "infected"} /\ writer[w].key \in Key
    BY <1>5 DEF X!UpdateRow, X!NextScan, Handed
  <2>2. row' \in X!FileRow
    BY <1>5, <2>0, <2>1 DEF X!UpdateRow
  <2>n. row.version \in Nat /\ row.indexed \in Nat /\ worker.version \in Nat
    <3>1. /\ row.version \in X!Version /\ row.indexed \in X!Version \cup {0}
          /\ worker.version \in X!Version \cup {0}
      OBVIOUS
    <3>. HIDE DEF TextInv, X!TypeOK, X!WriterState, X!WorkerState, X!FileRow
    <3>. QED  BY <1>v, <3>1
  <2>2n. row'.version \in Nat /\ row'.indexed \in Nat
    <3>1. row'.version \in X!Version /\ row'.indexed \in X!Version \cup {0}
      BY <2>2
    <3>. HIDE DEF TextInv, X!TypeOK, X!WriterState, X!WorkerState, X!FileRow
    <3>. QED  BY <1>v, <3>1
  <2>3. X!TypeOK'
    BY <1>5, <1>v, <2>2 DEF X!UpdateRow
  <2>4. \A u \in Writer : Handed(u)'
    BY <1>5 DEF X!UpdateRow, Handed
  <2>5. ~reused' => row.version < row'.version /\ row'.indexed = row.indexed /\ ~reused
    <3>1. X!NextVersion(w) \in X!Version /\ row.version \in X!Version
      BY <1>5 DEF X!UpdateRow
    <3>2. row'.version = X!NextVersion(w) /\ row'.indexed = row.indexed
      BY <2>0
    <3>3. reused' = (reused \/ X!NextVersion(w) <= row.version)
      BY <1>5 DEF X!UpdateRow
    <3>. HIDE DEF TextInv, X!TypeOK, X!WriterState, X!WorkerState, X!FileRow
    <3>4. ~reused' => ~reused /\ ~(X!NextVersion(w) <= row.version)
      BY <3>3
    <3>5. X!NextVersion(w) \in Nat /\ row.version \in Nat
      BY <1>v, <3>1
    <3>. QED  BY <3>2, <3>4, <3>5
  <2>6. UNCHANGED worker
    BY <1>5 DEF X!UpdateRow
  <2>7. ~reused' => row'.indexed < row'.version /\ Behind'
    <3>1. /\ row.version \in Nat /\ row'.version \in Nat
          /\ row.indexed \in Nat /\ worker.version \in Nat
      BY <1>v, <2>n, <2>2n
    <3>. HIDE DEF X!TypeOK, X!WriterState, X!WorkerState, X!FileRow
    <3>. QED  BY <2>5, <2>6, <3>1 DEF Behind
  <2>8. X!IndexedBytes'
    <3>1. row'.version \in Nat /\ row'.indexed \in Nat
      BY <2>2n
    <3>. HIDE DEF TextInv, X!TypeOK, X!WriterState, X!WorkerState, X!FileRow
    <3>. QED  BY <2>7, <3>1 DEF X!IndexedBytes
  <2>. QED  BY <2>3, <2>4, <2>7, <2>8
<1>6. ASSUME NEW w \in Writer, X!Accept(w)
      PROVE  TextInv'
  BY <1>6 DEF X!Accept, Handed, Behind, X!IndexedBytes
<1>7. ASSUME NEW w \in Writer, X!Undo(w)
      PROVE  TextInv'
  <2>1. writer[w].read \in X!FileRow
    BY <1>7 DEF X!Undo, Handed
  <2>2. X!TypeOK'
    BY <1>7, <1>v, <2>1 DEF X!Undo
  <2>. QED  BY <1>7, <2>2 DEF X!Undo, Handed, X!IndexedBytes
<1>8. ASSUME NEW v \in X!Version, X!DeleteVersion(v)
      PROVE  TextInv'
  BY <1>8 DEF X!DeleteVersion, Handed, Behind, X!IndexedBytes
<1>9. CASE X!Trash
  BY <1>9 DEF X!Trash, Handed, Behind, X!IndexedBytes
<1>10. CASE X!Scan
  BY <1>10 DEF X!Scan, Handed, Behind, X!IndexedBytes
<1>11. CASE X!Claim
  <2>1. X!TypeOK' /\ row.version \in Nat
    BY <1>11, <1>v DEF X!Claim
  <2>. QED  BY <1>11, <2>1 DEF X!Claim, Handed, Behind, X!IndexedBytes
<1>12. CASE X!Fetch
  BY <1>12, <1>v DEF X!Fetch, Handed, Behind, X!IndexedBytes
<1>13. CASE X!RecordExtraction
  BY <1>13, <1>v DEF X!RecordExtraction, X!Recorded, X!Resting, Handed, Behind, X!IndexedBytes
<1>. QED
  BY <1>1, <1>2, <1>3, <1>4, <1>5, <1>6, <1>7, <1>8, <1>9, <1>10, <1>11, <1>12, <1>13 DEF X!Next

(* However bytes are replaced and restored while the worker extracts, the   *)
(* text recorded for a version is that of its bytes.                        *)
THEOREM TextsAreCurrent == MCSpec => []IndexedBytes
<1>1. MCInit => (focus = "index" => TextInv)
  BY TextInit DEF MCInit
<1>2. (focus = "index" => TextInv) /\ [MCNext]_allVars => (focus = "index" => TextInv)'
  <2> SUFFICES ASSUME focus = "index" => TextInv, [MCNext]_allVars, focus' = "index"
               PROVE  TextInv'
    OBVIOUS
  <2>1. focus = "index" /\ [X!Next]_index
    BY DEF MCNext, allVars
  <2>. QED  BY <2>1, TextStep
<1>3. (focus = "index" => TextInv) => IndexedBytes
  BY DEF TextInv, IndexedBytes
<1>. QED  BY <1>1, <1>2, <1>3, PTL DEF MCSpec

----------------------------------------------------------------------------
(* The copies of a blob.                                                    *)
(* Keys are drawn before they are used.                                     *)
Drawn ==
  /\ copy[B!Here] \in Key => copy[B!Here] \in drawn
  /\ \A j \in Job : job[j].key \in Key => job[j].key \in drawn

(* Until it is in a row, an object is that of the attempt that put it; a    *)
(* copy that was moved away is nobody's any more.                           *)
Private(j) == B!At(j, "insert") =>
  /\ job[j].key \in stored /\ copy[B!Here] # job[j].key
  /\ \A i \in Job : i # j => job[i].key # job[j].key
Moved(j) == B!At(j, "moved") /\ copy[B!Here] \in Key => copy[B!Here] # job[j].key

CopyInv ==
  /\ B!TypeOK
  /\ Drawn
  /\ \A j \in Job : Private(j) /\ Moved(j)
  /\ B!HeldBytes

LEMMA CopyInit == B!Init => CopyInv
<1> SUFFICES ASSUME B!Init
             PROVE  CopyInv
  OBVIOUS
<1>1. Null \notin Key /\ B!Here \in B!Holder
  BY NoKeyIsNull DEF B!Holder
<1>2. B!Idle \in B!Work
  BY <1>1 DEF B!Idle, B!Work, B!Point
<1>3. B!TypeOK
  BY <1>1, <1>2 DEF B!Init, B!TypeOK
<1>4. copy[B!Here] = Null /\ \A j \in Job : job[j].key = Null /\ job[j].at = "idle"
  BY <1>1 DEF B!Init, B!Idle
<1>. QED  BY <1>1, <1>3, <1>4 DEF CopyInv, Drawn, Private, Moved, B!At, B!HeldBytes

(* No handler drops an object that the local row names, or will name: what  *)
(* it drops is its own and lost the insert, was moved, or was asked for.    *)
LEMMA CopyStep == CopyInv /\ [B!Next]_blobs => CopyInv'
<1> SUFFICES ASSUME CopyInv, [B!Next]_blobs
             PROVE  CopyInv'
  OBVIOUS
<1>k. /\ Null \notin Key /\ B!Away \notin Key /\ B!Away # Null /\ B!Here \in B!Holder
      /\ Remote \subseteq B!Holder
  BY NoKeyIsNull DEF B!Holder
(* A handler that comes to know no key but the local row's, and leaves the  *)
(* objects as they are and the row, unless it goes.                         *)
<1>f. ASSUME NEW j \in Job, NEW w \in B!Work, B!TypeOK',
             job' = [job EXCEPT ![j] = w], w.at \notin {"insert", "moved"},
             w.key \in {job[j].key, Null, copy[B!Here]},
             copy'[B!Here] = copy[B!Here] \/ copy'[B!Here] \notin Key,
             UNCHANGED <<stored, drawn, condemned>>
      PROVE  CopyInv'
  <2>1. \A i \in Job : job'[i] = IF i = j THEN w ELSE job[i]
    BY <1>f DEF B!TypeOK
  <2>2. Drawn'
    BY <1>f, <1>k, <2>1 DEF CopyInv, Drawn
  <2>3. B!HeldBytes'
    BY <1>f DEF CopyInv, B!HeldBytes
  <2>4. ASSUME NEW i \in Job PROVE Private(i)' /\ Moved(i)'
    <3>1. CASE i = j
      BY <1>f, <2>1, <3>1 DEF Private, Moved, B!At
    <3>2. CASE i # j
      <4>1. Private(i) /\ Moved(i) /\ job'[i] = job[i] /\ stored \subseteq Key
        BY <2>1, <3>2 DEF CopyInv, B!TypeOK
      <4>2. /\ B!At(i, "moved") /\ copy'[B!Here] \in Key => copy'[B!Here] # job[i].key
            /\ B!At(i, "insert") => copy'[B!Here] # job[i].key
        BY <1>f, <4>1 DEF Private, Moved
      <4>3. B!At(i, "insert") => \A h \in Job : h # i => job'[h].key # job[i].key
        BY <1>f, <1>k, <2>1, <4>1, <3>2 DEF Private
      <4>. QED  BY <1>f, <4>1, <4>2, <4>3 DEF Private, Moved, B!At
    <3>. QED  BY <3>1, <3>2
  <2>. QED  BY <1>f, <2>2, <2>3, <2>4 DEF CopyInv
<1> USE DEF CopyInv, B!TypeOK, B!Work, B!Point, B!At, B!Goto, B!Answer, B!Kept
<1>g. ASSUME NEW j \in Job, NEW p \in B!Point \ {"insert", "moved"}, B!Goto(j, p), B!TypeOK',
             copy'[B!Here] = copy[B!Here] \/ copy'[B!Here] \notin Key,
             UNCHANGED <<stored, drawn, condemned>>
      PROVE  CopyInv'
  <2> DEFINE w == [job[j] EXCEPT !.at = p]
  <2>1. w \in B!Work /\ w.at = p /\ w.key = job[j].key /\ job' = [job EXCEPT ![j] = w]
    BY <1>g
  <2> HIDE DEF w
  <2>. QED  BY <1>f, <1>g, <2>1
<1>1. CASE UNCHANGED blobs
  BY <1>1 DEF blobs, Drawn, Private, Moved, B!HeldBytes
<1>2. ASSUME NEW m \in Local, B!Leave(m)
      PROVE  CopyInv'
  BY <1>2 DEF B!Leave, Drawn, Private, Moved, B!HeldBytes
<1>3. ASSUME NEW j \in Job, B!SelectPlacement(j)
      PROVE  CopyInv'
  <2>1. PICK t \in SUBSET (Local \cup Remote) :
          job' = [job EXCEPT ![j] = [B!Idle EXCEPT !.at = "place", !.targets = t, !.from = B!Here]]
    BY <1>3 DEF B!SelectPlacement
  <2> DEFINE w == [B!Idle EXCEPT !.at = "place", !.targets = t, !.from = B!Here]
  <2>2. w \in B!Work /\ w.at = "place" /\ w.key = Null
    BY <1>k DEF B!Idle
  <2> HIDE DEF w
  <2>3. B!TypeOK'
    BY <1>3, <2>1, <2>2 DEF B!SelectPlacement, w
  <2>. QED  BY <1>3, <1>f, <2>1, <2>2, <2>3 DEF B!SelectPlacement, w
<1>4. ASSUME NEW j \in Job, B!PlaceLocal(j)
      PROVE  CopyInv'
  <2>0. PICK m \in job[j].targets \cap Local, k \in Key :
          /\ B!Put(k)
          /\ job' = [job EXCEPT ![j].at = "insert", ![j].key = k, ![j].targets = @ \ {m}]
    BY <1>4 DEF B!PlaceLocal
  <2>1. B!TypeOK'
    BY <1>4, <2>0, <1>k DEF B!PlaceLocal, B!Put
  <2>2. Drawn' /\ B!HeldBytes'
    BY <1>4, <2>0, <1>k DEF B!PlaceLocal, B!Put, Drawn, B!HeldBytes
  <2>3. \A i \in Job : Private(i)' /\ Moved(i)'
    BY <1>4, <2>0, <1>k DEF B!PlaceLocal, B!Put, Drawn, Private, Moved
  <2>. QED  BY <2>1, <2>2, <2>3
<1>5. ASSUME NEW j \in Job, B!PlaceLocalRow(j)
      PROVE  CopyInv'
  <2>1. B!TypeOK'
    BY <1>5, <1>k DEF B!PlaceLocalRow, B!InsertRow
  <2>. QED  BY <1>5, <1>k, <2>1 DEF B!PlaceLocalRow, B!InsertRow, Drawn, Private, Moved, B!HeldBytes
<1>6. ASSUME NEW j \in Job, B!PlaceRemote(j)
      PROVE  CopyInv'
  <2>0. PICK m \in job[j].targets \cap Remote, ok \in BOOLEAN :
          IF ok /\ B!Conflict(m)
          THEN B!Answer(j) /\ UNCHANGED <<copy, owner>>
          ELSE /\ job' = [job EXCEPT ![j].targets = @ \ {m}]
               /\ IF ok THEN B!InsertRow(m, B!Away, B!Here) ELSE UNCHANGED <<copy, owner>>
    BY <1>6 DEF B!PlaceRemote
  <2>u. UNCHANGED <<stored, drawn, listed, condemned, sharded, left>>
    BY <1>6 DEF B!PlaceRemote
  <2>1. B!TypeOK'
    BY <1>6, <2>0, <2>u, <1>k DEF B!InsertRow
  <2>2. copy'[B!Here] \in {copy[B!Here], B!Away}
    BY <2>0, <1>k DEF B!InsertRow
  <2>3. \A i \in Job : job'[i].key = job[i].key /\ job'[i].at \in {job[i].at, "done"}
    BY <2>0
  <2>4. B!At(j, "place")
    BY <1>6 DEF B!PlaceRemote
  <2>. QED  BY <1>k, <2>u, <2>1, <2>2, <2>3 DEF Drawn, Private, Moved, B!HeldBytes
<1>7. ASSUME NEW j \in Job, B!ListFile(j)
      PROVE  CopyInv'
  BY <1>7, <1>k DEF B!ListFile, Drawn, Private, Moved, B!HeldBytes
<1>8. ASSUME NEW j \in Job, B!ReadRows(j)
      PROVE  CopyInv'
  <2> DEFINE w == [B!Idle EXCEPT !.at = "drop", !.from = B!Here,
                                  !.key = IF copy[B!Here] \in Key THEN copy[B!Here] ELSE Null]
  <2>2. w \in B!Work /\ w.at = "drop" /\ w.key \in {Null, copy[B!Here]}
    BY <1>8, <1>k DEF B!ReadRows, B!Idle
  <2>3. job' = [job EXCEPT ![j] = w]
    BY <1>8 DEF B!ReadRows
  <2> HIDE DEF w
  <2>4. B!TypeOK'
    BY <1>8, <2>2, <2>3 DEF B!ReadRows
  <2>. QED  BY <1>8, <1>f, <2>2, <2>3, <2>4 DEF B!ReadRows
<1>9. ASSUME NEW j \in Job, B!PeerDelete(j)
      PROVE  CopyInv'
  <2>1. PICK p \in Remote :
          job' = [job EXCEPT ![j] = [B!Idle EXCEPT !.at = "drop", !.from = p, !.key = copy[B!Here]]]
    BY <1>9 DEF B!PeerDelete
  <2> DEFINE w == [B!Idle EXCEPT !.at = "drop", !.from = p, !.key = copy[B!Here]]
  <2>2. w \in B!Work /\ w.at = "drop" /\ w.key \in {copy[B!Here]}
    BY <1>9, <1>k DEF B!PeerDelete, B!Idle
  <2>3. job' = [job EXCEPT ![j] = w]
    BY <2>1 DEF B!PeerDelete
  <2> HIDE DEF w
  <2>4. B!TypeOK'
    BY <1>9, <2>2, <2>3 DEF B!PeerDelete
  <2>. QED  BY <1>9, <1>f, <2>2, <2>3, <2>4 DEF B!PeerDelete
<1>10. ASSUME NEW j \in Job, B!DropBytes(j)
      PROVE  CopyInv'
  <2>1. B!TypeOK'
    BY <1>10, <1>k DEF B!DropBytes
  <2>. QED  BY <1>10, <1>k, <2>1 DEF B!DropBytes, Drawn, Private, Moved, B!HeldBytes
<1>11. ASSUME NEW j \in Job, B!DeleteRows(j)
      PROVE  CopyInv'
  <2>1. B!TypeOK'
    BY <1>11, <1>k DEF B!DeleteRows
  <2>2. copy'[B!Here] = Null
    BY <1>11, <1>k DEF B!DeleteRows
  <2>. QED  BY <1>11, <1>g, <1>k, <2>1, <2>2 DEF B!DeleteRows
<1>12. ASSUME NEW j \in Job, B!Receive(j)
      PROVE  CopyInv'
  <2>a. ASSUME NEW p \in Remote, NEW o \in B!Holder,
               job' = [job EXCEPT ![j] = [B!Idle EXCEPT !.at = "put", !.from = p, !.by = o]]
        PROVE  CopyInv'
    <3> DEFINE w == [B!Idle EXCEPT !.at = "put", !.from = p, !.by = o]
    <3>1. w \in B!Work /\ w.at = "put" /\ w.key = Null
      BY <1>k DEF B!Idle
    <3>2. job' = [job EXCEPT ![j] = w]
      BY <2>a
    <3> HIDE DEF w
    <3>3. B!TypeOK'
      BY <1>12, <3>1, <3>2 DEF B!Receive
    <3>. QED  BY <1>12, <1>f, <3>1, <3>2, <3>3 DEF B!Receive
  <2>b. ASSUME B!Answer(j)
        PROVE  CopyInv'
    <3>1. B!TypeOK'
      BY <1>12, <2>b DEF B!Receive
    <3>. QED  BY <1>12, <1>g, <2>b, <3>1 DEF B!Receive
  <2>. QED  BY <1>12, <2>a, <2>b DEF B!Receive
<1>13. ASSUME NEW j \in Job, B!ReceivePut(j)
      PROVE  CopyInv'
  <2>0. PICK k \in Key : B!Put(k) /\ job' = [job EXCEPT ![j].at = "insert", ![j].key = k]
    BY <1>13 DEF B!ReceivePut
  <2>w. [job[j] EXCEPT !.at = "insert", !.key = k] \in B!Work
    OBVIOUS
  <2>j. job' = [job EXCEPT ![j] = [job[j] EXCEPT !.at = "insert", !.key = k]]
    BY <2>0
  <2>1. B!TypeOK'
    <3>1. job' \in [Job -> B!Work]
      BY <2>w, <2>j
    <3>. QED  BY <1>13, <2>0, <3>1 DEF B!ReceivePut, B!Put
  <2>2. Drawn' /\ B!HeldBytes'
    BY <1>13, <2>0, <1>k DEF B!ReceivePut, B!Put, Drawn, B!HeldBytes
  <2>3. \A i \in Job : Private(i)' /\ Moved(i)'
    BY <1>13, <2>0, <1>k DEF B!ReceivePut, B!Put, Drawn, Private, Moved
  <2>. QED  BY <2>1, <2>2, <2>3
<1>14. ASSUME NEW j \in Job, B!ReceiveRow(j)
      PROVE  CopyInv'
  <2>1. B!TypeOK'
    BY <1>14, <1>k DEF B!ReceiveRow, B!InsertRow
  <2>. QED  BY <1>14, <1>k, <2>1 DEF B!ReceiveRow, B!InsertRow, Drawn, Private, Moved, B!HeldBytes
<1>15. ASSUME NEW j \in Job, B!CleanUp(j)
      PROVE  CopyInv'
  BY <1>15, <1>k DEF B!CleanUp, B!Survivor, Drawn, Private, Moved, B!HeldBytes
<1>16. ASSUME NEW j \in Job, B!DrainRead(j)
      PROVE  CopyInv'
  <2>1. PICK t \in Remote :
          job' = [job EXCEPT ![j] = [B!Idle EXCEPT !.at = "push", !.key = copy[B!Here], !.to = t]]
    BY <1>16 DEF B!DrainRead
  <2> DEFINE w == [B!Idle EXCEPT !.at = "push", !.key = copy[B!Here], !.to = t]
  <2>2. w \in B!Work /\ w.at = "push" /\ w.key \in {copy[B!Here]}
    BY <1>16, <1>k DEF B!DrainRead, B!Idle
  <2>3. job' = [job EXCEPT ![j] = w]
    BY <2>1 DEF B!DrainRead
  <2> HIDE DEF w
  <2>4. B!TypeOK'
    BY <1>16, <2>2, <2>3 DEF B!DrainRead
  <2>. QED  BY <1>16, <1>f, <2>2, <2>3, <2>4 DEF B!DrainRead
<1>17. ASSUME NEW j \in Job, B!DrainPush(j)
      PROVE  CopyInv'
  <2>1. PICK p \in {"answered", "done"} : B!Goto(j, p)
    BY <1>17 DEF B!DrainPush
  <2>2. B!TypeOK'
    BY <1>17, <2>1 DEF B!DrainPush
  <2>. QED  BY <1>17, <1>g, <2>1, <2>2 DEF B!DrainPush
<1>18. ASSUME NEW j \in Job, B!DrainMove(j)
      PROVE  CopyInv'
  <2>1. B!TypeOK'
    <3>1. job' \in [Job -> B!Work]
      <4>1. PICK p \in B!Point : B!Goto(j, p)
        BY <1>18 DEF B!DrainMove
      <4>. QED  BY <4>1
    <3>2. copy' \in [B!Holder -> Key \cup {B!Away, Null}]
      <4>1. \/ copy' = copy
            \/ copy' = [[copy EXCEPT ![B!Here] = Null] EXCEPT ![job[j].to] = B!Away]
        BY <1>18 DEF B!DrainMove
      <4>2. [copy EXCEPT ![B!Here] = Null] \in [B!Holder -> Key \cup {B!Away, Null}]
        OBVIOUS
      <4>. QED  BY <4>1, <4>2
    <3>. QED  BY <1>18, <3>1, <3>2 DEF B!DrainMove
  <2>a. CASE B!Answer(j) /\ UNCHANGED copy
    BY <1>18, <1>g, <2>1, <2>a DEF B!DrainMove
  <2>b. CASE /\ B!Goto(j, "moved")
             /\ IF copy[B!Here] = job[j].key
                THEN copy' = [copy EXCEPT ![B!Here] = Null, ![job[j].to] = B!Away]
                ELSE UNCHANGED copy
    <3>1. \/ copy'[B!Here] = copy[B!Here] /\ copy[B!Here] # job[j].key
          \/ copy'[B!Here] \in {Null, B!Away}
      BY <2>b, <1>k
    <3>2. Drawn' /\ B!HeldBytes'
      BY <1>18, <1>k, <2>b, <3>1 DEF B!DrainMove, Drawn, B!HeldBytes
    <3>3. \A i \in Job : job'[i] = IF i = j THEN [job[j] EXCEPT !.at = "moved"] ELSE job[i]
      BY <2>b
    <3>4. ASSUME NEW i \in Job PROVE Private(i)' /\ Moved(i)'
      <4>1. job'[i].key = job[i].key /\ job'[i].at = IF i = j THEN "moved" ELSE job[i].at
        BY <3>3
      <4>2. Moved(i)'
        BY <1>k, <3>1, <4>1 DEF Moved
      <4>3. \A h \in Job : job'[h].key = job[h].key
        BY <3>3
      <4>4. stored' = stored /\ Null \notin stored /\ B!Away \notin stored
        BY <1>18, <1>k DEF B!DrainMove
      <4>5. Private(i)'
        BY <3>1, <4>1, <4>3, <4>4 DEF Private
      <4>. QED  BY <4>2, <4>5
    <3>. QED  BY <2>1, <3>2, <3>4
  <2>. QED  BY <1>18, <2>a, <2>b DEF B!DrainMove
<1>19. ASSUME NEW j \in Job, B!DrainDrop(j)
      PROVE  CopyInv'
  BY <1>19, <1>k DEF B!DrainDrop, Drawn, Private, Moved, B!HeldBytes
<1>20. ASSUME NEW j \in Job, B!Crash(j)
      PROVE  CopyInv'
  BY <1>20, <1>k DEF B!Crash, Drawn, Private, Moved, B!HeldBytes
<1>. QED
  BY <1>1, <1>2, <1>3, <1>4, <1>5, <1>6, <1>7, <1>8, <1>9, <1>10, <1>11, <1>12, <1>13, <1>14,
     <1>15, <1>16, <1>17, <1>18, <1>19, <1>20 DEF B!Next

----------------------------------------------------------------------------
(* The shards of a file.                                                    *)
(* Whole division.                                                          *)
LEMMA Division ==
  ASSUME NEW a \in Nat, NEW b \in Nat \ {0}
  PROVE  /\ a \div b \in Nat /\ a % b \in 0..(b - 1)
         /\ a = b * (a \div b) + (a % b)
  OBVIOUS

LEMMA Quotient ==
  ASSUME NEW a \in Nat, NEW b \in Nat \ {0}, NEW c \in Nat, a < b * c
  PROVE  a \div b \in 0..(c - 1)
<1>1. a \div b \in Nat /\ b * (a \div b) <= a
  BY Division
<1>2. PICK q \in Nat : q = a \div b
  BY <1>1
<1>3. ~(q >= c)
  <2> SUFFICES ASSUME q >= c PROVE FALSE
    OBVIOUS
  <2>1. b * q >= b * c
    OBVIOUS
  <2>. QED  BY <1>1, <1>2, <2>1
<1>. QED  BY <1>2, <1>3

LEMMA Ceiling ==
  ASSUME NEW a \in Nat \ {0}, NEW b \in Nat \ {0}
  PROVE  /\ E!CeilDiv(a, b) \in Nat \ {0}
         /\ a <= b * E!CeilDiv(a, b)
<1>1. PICK x \in Nat : x = a + b - 1
  OBVIOUS
<1>2. PICK q \in Nat, m \in 0..(b - 1) : q = x \div b /\ x = b * q + m
  BY Division
<1>3. a <= b * q
  BY <1>1, <1>2
<1>4. q # 0
  BY <1>3
<1>. QED  BY <1>1, <1>2, <1>3, <1>4 DEF E!CeilDiv
(* k fragments of one size hold the whole ciphertext, each in r shards.     *)
LEMMA Fragments ==
  ASSUME shape \in Shapes
  PROVE  /\ E!k \in Nat \ {0} /\ E!n \in Nat \ {0} /\ E!r \in Nat \ {0}
         /\ E!FragSize \in Nat \ {0} /\ E!n <= E!k * E!FragSize
         /\ E!k * E!r \in Nat
         /\ \A i \in E!Shards : E!FragmentOf(i) \in 0..(E!k - 1)
<1>1. E!k \in Nat \ {0} /\ shape[2] \in Nat \ {0} /\ E!n \in Nat \ {0}
  BY ShapesOfFiles DEF E!k, E!n
<1>2. E!r \in Nat \ {0}
  BY <1>1, Ceiling DEF E!r
<1>3. E!FragSize \in Nat \ {0} /\ E!n <= E!k * E!FragSize
  BY <1>1, Ceiling DEF E!FragSize
<1>4. E!k * E!r \in Nat /\ E!k * E!r = E!r * E!k
  BY <1>1, <1>2
<1>5. ASSUME NEW i \in E!Shards
      PROVE  E!FragmentOf(i) \in 0..(E!k - 1)
  <2>1. i \in Nat /\ i < E!r * E!k
    BY <1>4 DEF E!Shards
  <2>. QED  BY <1>1, <1>2, <2>1, Quotient DEF E!FragmentOf
<1>. QED  BY <1>1, <1>2, <1>3, <1>4, <1>5

(* A part that begins within the ciphertext ends within it.                 *)
LEMMA FitsNotOverruns ==
  ASSUME shape \in Shapes, E!Fits
  PROVE  ~E!Overruns
<1>1. PICK kk \in Nat \ {0}, nn \in Nat \ {0}, ff \in Nat \ {0} : kk = E!k /\ nn = E!n /\ ff = E!FragSize
  BY Fragments
<1>2. (kk - 1) * ff <= nn
  BY <1>1 DEF E!Fits
<1>3. ASSUME NEW f \in 0..(kk - 1)
      PROVE  E!PartSize(f) \in Nat /\ f * ff + E!PartSize(f) <= nn
  <2>1. PICK s \in Nat : s = f * ff
    OBVIOUS
  <2>2. s <= (kk - 1) * ff
    BY <2>1
  <2>p. E!PartEnd(f) = IF ff < nn - s THEN ff ELSE nn - s
    BY <1>1, <2>1 DEF E!PartEnd, E!Least
  <2>l. PICK l \in Nat : l = nn - s
    BY <1>2, <2>2
  <2>3. PICK e \in Nat : e = E!PartEnd(f) /\ e <= nn - s
    BY <2>p, <2>l
  <2>4. E!PartSize(f) = e
    BY <2>3 DEF E!PartSize
  <2>. QED  BY <2>1, <2>3, <2>4
<1>4. ASSUME NEW f \in 0..(E!k - 1), f * E!FragSize + E!PartSize(f) > E!n
      PROVE  FALSE
  <2>1. PICK s \in Nat : s = f * ff
    BY <1>1
  <2>2. PICK e \in Nat : e = E!PartSize(f) /\ s + e <= nn
    BY <1>1, <1>3, <2>1
  <2>. QED  BY <1>1, <1>4, <2>1, <2>2
<1>. QED  BY <1>4 DEF E!Overruns

(* Where the last fragment begins beyond the end, decode throws.            *)
LEMMA OverrunsUnlessFits ==
  ASSUME shape \in Shapes, ~E!Fits
  PROVE  E!Overruns
<1>1. PICK kk \in Nat \ {0}, nn \in Nat \ {0}, ff \in Nat \ {0} : kk = E!k /\ nn = E!n /\ ff = E!FragSize
  BY Fragments
<1>2. PICK s \in Nat : s = (kk - 1) * ff
  <2>1. PICK h \in Nat : h = kk - 1
    OBVIOUS
  <2>. QED  BY <2>1
<1>3. s > nn
  BY <1>1, <1>2 DEF E!Fits
<1>4. E!PartEnd(kk - 1) \in Int
  BY <1>1, <1>2 DEF E!PartEnd, E!Least
<1>5. PICK e \in Nat : e = E!PartSize(kk - 1)
  BY <1>1, <1>4 DEF E!PartSize
<1>6. s + e > nn
  BY <1>3
<1>. QED  BY <1>1, <1>2, <1>5, <1>6 DEF E!Overruns

(* With a shard of every fragment each byte is found where it was put.      *)
LEMMA DecodesToData ==
  ASSUME shape \in Shapes, collected \subseteq E!Shards, E!Seen = 0..(E!k - 1)
  PROVE  E!Decode = E!Data
<1>1. PICK kk \in Nat \ {0}, nn \in Nat \ {0}, ff \in Nat \ {0} :
        kk = E!k /\ nn = E!n /\ ff = E!FragSize /\ nn <= ff * kk
  BY Fragments
<1>2. ASSUME NEW p \in 0..(nn - 1)
      PROVE  E!Copy(p \div ff)[p % ff] = p
  <2>1. PICK f \in 0..(kk - 1), m \in 0..(ff - 1) : f = p \div ff /\ m = p % ff /\ p = f * ff + m
    <3>1. p \div ff \in 0..(kk - 1)
      BY <1>1, Quotient
    <3>2. p % ff \in 0..(ff - 1) /\ p = ff * (p \div ff) + (p % ff)
      BY Division
    <3>3. ff * (p \div ff) = (p \div ff) * ff
      BY <3>1
    <3>. QED  BY <3>1, <3>2, <3>3
  <2>2. \E i \in collected : E!FragmentOf(i) = f
    BY <1>1 DEF E!Seen
  <2>3. PICK i \in E!Shards : i = CHOOSE h \in collected : E!FragmentOf(h) = f
    BY <2>2
  <2>4. E!FragmentOf(i) = f
    BY <2>2, <2>3
  <2>5. E!Copy(f) = E!Fragment(f)
    BY <2>3, <2>4 DEF E!Copy, E!Encode, E!FragmentOf
  <2>6. E!Fragment(f)[m] = p
    BY <1>1, <2>1 DEF E!Fragment
  <2>. QED  BY <2>1, <2>5, <2>6
<1>. QED  BY <1>1, <1>2 DEF E!Decode, E!Data

(* The fetch has passed over a shard for a reason.                          *)
PassedOver == \A i \in E!Shards :
  i < next => placed[i] = "none" \/ E!FragmentOf(i) \in E!Seen \/ i \in refused

ShardInv ==
  /\ shape \in Shapes
  /\ collected \subseteq E!Shards
  /\ step = "fetch" => next \in Nat /\ PassedOver
  /\ E!AnyCopyDecodes

(* Nothing has been fetched.                                                *)
LEMMA ShardInit == E!Init => ShardInv
  BY DEF E!Init, ShardInv, E!AnyCopyDecodes

(* Only a fetch collects and refuses, and it takes the shards in order.     *)
LEMMA ShardStep == ShardInv /\ [E!Next]_shards => ShardInv'
<1> SUFFICES ASSUME ShardInv, [E!Next]_shards
             PROVE  ShardInv'
  OBVIOUS
<1>s. shape' = shape => /\ E!Shards' = E!Shards /\ E!Fits' = E!Fits /\ E!Data' = E!Data /\ E!k' = E!k
                        /\ \A i : E!FragmentOf(i)' = E!FragmentOf(i)
  BY DEF E!Shards, E!Fits, E!Data, E!k, E!n, E!r, E!FragmentOf, E!FragSize
<1>1. CASE UNCHANGED shards
  BY <1>1, <1>s DEF shards, ShardInv, PassedOver, E!Seen, E!AnyCopyDecodes
<1>2. ASSUME NEW where \in {"none", "here", "peer"}, E!Place(where)
      PROVE  ShardInv'
  BY <1>2, <1>s DEF E!Place, ShardInv, E!AnyCopyDecodes
<1>3. CASE E!List
  BY <1>3, <1>s DEF E!List, ShardInv, E!AnyCopyDecodes
<1>4. CASE E!Fetch
  <2>1. \A i \in E!Shards : ~(i < 0)
    BY DEF E!Shards
  <2>. QED  BY <1>4, <1>s, <2>1 DEF E!Fetch, ShardInv, PassedOver, E!AnyCopyDecodes
<1>5. ASSUME NEW i \in E!Shards, E!Lose(i)
      PROVE  ShardInv'
  BY <1>5, <1>s DEF E!Lose, ShardInv, E!AnyCopyDecodes
<1>i. \A i, j \in E!Shards : i \in Nat /\ (j < i + 1 => j < i \/ j = i)
  BY DEF E!Shards
<1>6. ASSUME NEW i \in E!Shards, E!Skip(i)
      PROVE  ShardInv'
  <2>1. i \in Nat /\ \A j \in E!Shards : j < i + 1 => j < i \/ j = i
    BY <1>i
  <2>2. PassedOver'
    BY <1>6, <1>s, <2>1 DEF E!Skip, E!Collecting, ShardInv, PassedOver, E!Seen
  <2>. QED  BY <1>6, <1>s, <2>1, <2>2 DEF E!Skip, E!Collecting, ShardInv, E!AnyCopyDecodes
<1>7. ASSUME NEW i \in E!Shards, E!Ask(i)
      PROVE  ShardInv'
  <2>1. i \in Nat /\ \A j \in E!Shards : j < i + 1 => j < i \/ j = i
    BY <1>i
  <2>2. PassedOver'
    BY <1>7, <1>s, <2>1 DEF E!Ask, E!Collecting, ShardInv, PassedOver, E!Seen
  <2>3. E!AnyCopyDecodes'
    BY <1>7, <1>s DEF E!Ask, E!Collecting, E!AnyCopyDecodes
  <2>4. shape' = shape /\ next' = i + 1 /\ collected' \in {collected, collected \cup {i}}
    BY <1>7 DEF E!Ask
  <2>5. next' \in Nat
    BY <2>1, <2>4
  <2>. QED  BY <1>s, <2>2, <2>3, <2>4, <2>5 DEF ShardInv
<1>8. CASE E!Assemble
  <2>1. step = "fetch" /\ shape \in Shapes /\ UNCHANGED <<shape, placed, next, collected, refused>>
    BY <1>8 DEF E!Assemble, ShardInv
  <2>a. CASE E!Seen = 0..(E!k - 1) /\ ~E!Overruns /\ step' = "bytes" /\ out' = E!Decode
    BY <1>s, <2>1, <2>a, DecodesToData, OverrunsUnlessFits DEF ShardInv, E!AnyCopyDecodes
  <2>b. CASE E!Seen = 0..(E!k - 1) /\ E!Overruns /\ step' = "throws"
    <3>1. E!Seen' = E!Seen
      BY <1>s, <2>1 DEF E!Seen
    <3>. QED  BY <1>s, <2>1, <2>b, <3>1, FitsNotOverruns DEF ShardInv, E!AnyCopyDecodes
  <2>c. CASE E!Seen # 0..(E!k - 1) /\ next \notin E!Shards /\ step' = "null"
    <3>1. E!Seen \subseteq 0..(E!k - 1)
      BY <2>1, Fragments DEF E!Seen, ShardInv
    <3>2. PICK f \in 0..(E!k - 1) : f \notin E!Seen
      BY <2>c, <3>1
    <3>3. \A i \in E!Shards : i < next
      BY <2>1, <2>c, Fragments DEF E!Shards, ShardInv
    <3>4. \A i \in E!Shards : E!FragmentOf(i) = f => placed[i] = "none" \/ i \in refused
      BY <2>1, <3>2, <3>3 DEF ShardInv, PassedOver
    <3>. QED  BY <1>s, <2>1, <2>c, <3>2, <3>4 DEF ShardInv, E!AnyCopyDecodes
  <2>. QED  BY <1>8, <2>a, <2>b, <2>c DEF E!Assemble
<1>. QED  BY <1>1, <1>2, <1>3, <1>4, <1>5, <1>6, <1>7, <1>8 DEF E!Next

(* No placement, deletion, move or crash takes the bytes from under a local *)
(* row.  For any k, m and length, one shard of each fragment gives a file   *)
(* back if the last fragment begins within the ciphertext, and otherwise    *)
(* nothing does.                                                            *)
THEOREM CopiesGood == MCSpec => []CopiesAreGood
<1> DEFINE Inv == (focus = "blobs" => CopyInv) /\ (focus = "shards" => ShardInv)
<1>1. MCInit => Inv
  BY CopyInit, ShardInit DEF MCInit
<1>2. Inv /\ [MCNext]_allVars => Inv'
  <2> SUFFICES ASSUME Inv, [MCNext]_allVars
               PROVE  Inv'
    OBVIOUS
  <2>1. ASSUME focus' = "blobs" PROVE CopyInv'
    <3>1. focus = "blobs" /\ [B!Next]_blobs
      BY <2>1 DEF MCNext, allVars
    <3>. QED  BY <3>1, CopyStep
  <2>2. ASSUME focus' = "shards" PROVE ShardInv'
    <3>1. focus = "shards" /\ [E!Next]_shards
      BY <2>2 DEF MCNext, allVars
    <3>. QED  BY <3>1, ShardStep
  <2>. QED  BY <2>1, <2>2
<1>3. Inv => CopiesAreGood
  BY DEF CopyInv, ShardInv, CopiesAreGood
<1>. QED  BY <1>1, <1>2, <1>3, PTL DEF MCSpec

----------------------------------------------------------------------------
(* Folders and their spaces.                                                *)
(* A row's parent is a row of the same space; a file is in the folder of a  *)
(* row, or in none.                                                         *)
Rooted(f) == F!Is(f) /\ folder[f].parent # Null =>
  F!Is(folder[f].parent) /\ folder[folder[f].parent].space = folder[f].space
Filed(x) == file[x] # Null =>
  IF file[x].folder = Null THEN file[x].home = Null
  ELSE F!Is(file[x].folder) /\ folder[file[x].folder].space = file[x].home

(* What a statement was asked for: folders that there were, of one space.   *)
(* They may be gone by now, and a gone row does not come back.              *)
Known(g) == g \in Folder /\ folder[g] # Null
Alike(f, g) == Known(f) /\ (g = Null \/ (Known(g) /\ (F!Is(f) /\ F!Is(g) => folder[f].space = folder[g].space)))
Beside(x, g) ==
  /\ x \in File
  /\ g = Null /\ file[x] # Null => file[x].home = Null
  /\ g # Null => Known(g) /\ (F!Is(g) /\ file[x] # Null => folder[g].space = file[x].home)
Sound(s) ==
  /\ s[1] = "create" => /\ s[2] \in F!Row
                        /\ s[2].parent = Null \/ Known(s[2].parent)
                        /\ F!Is(s[2].parent) => folder[s[2].parent].space = s[2].space
  /\ s[1] \in {"move", "restore"} => Alike(s[2], s[3])
  /\ s[1] \in {"moveFile", "organize", "file", "restoreFile"} => Beside(s[2], s[3])
Checked == {"create", "move", "restore", "moveFile", "organize", "file", "restoreFile"}

TreeInv ==
  /\ folder \in [Folder -> F!Row \cup {Null, Gone}]
  /\ file \in [File -> F!FileRow \cup {Null}]
  /\ DOMAIN req = Request
  /\ \A f \in Folder : Rooted(f)
  /\ \A x \in File : Filed(x)
  /\ \A r \in Request : Sound(req[r])

(* No row is Null, and no row is gone.                                      *)
LEMMA TreeNulls ==
  /\ Null \notin F!Row /\ Null \notin F!FileRow /\ Null \notin F!Role
  /\ Null \notin Folder /\ Null \notin Space /\ Gone \notin F!Row /\ Gone # Null
  BY NoFolderIsNull

(* A tree of two rows, or of more beside the first or in it.                *)
LEMMA TreeInit == F!Init => TreeInv
<1> SUFFICES ASSUME F!Init
             PROVE  TreeInv
  OBVIOUS
<1>n. /\ Null \notin F!Row /\ Null \notin F!FileRow /\ Null \notin Folder /\ Gone \notin F!Row
      /\ Null \notin Space
  BY TreeNulls
<1>1. PICK u \in Sharer, s \in Space, p \in Folder, q \in Folder, role \in {"editor", "viewer", Null} :
        /\ p # q
        /\ \E other \in {Null, F!NewRow(Null, u, Null), F!NewRow(Null, u, p)} :
             folder = [f \in Folder |->
               IF f = p THEN F!NewRow(Null, u, Null) ELSE IF f = q THEN F!NewRow(s, u, Null) ELSE other]
        /\ \E at \in {p, q} : file = [x \in File |->
             [owner |-> u, folder |-> at, live |-> TRUE, home |-> IF at = q THEN s ELSE Null]]
        /\ space = [t \in Space |-> IF t = s THEN [owner |-> u, live |-> TRUE] ELSE Null]
        /\ member = [t \in Space |-> [v \in Sharer |->
             IF t # s THEN Null ELSE IF v = u THEN "owner" ELSE role]]
        /\ grant = [g \in F!Thing \X Sharer |-> Null]
        /\ req = [r \in Request |-> <<"idle">>]
  BY DEF F!Init
<1>2. PICK other \in {Null, F!NewRow(Null, u, Null), F!NewRow(Null, u, p)} :
        folder = [f \in Folder |->
          IF f = p THEN F!NewRow(Null, u, Null) ELSE IF f = q THEN F!NewRow(s, u, Null) ELSE other]
  BY <1>1
<1>3. PICK at \in {p, q} : file = [x \in File |->
        [owner |-> u, folder |-> at, live |-> TRUE, home |-> IF at = q THEN s ELSE Null]]
  BY <1>1
<1>4. /\ F!NewRow(Null, u, Null) \in F!Row /\ F!NewRow(Null, u, p) \in F!Row /\ F!NewRow(s, u, Null) \in F!Row
      /\ F!NewRow(Null, u, Null).space = Null /\ F!NewRow(Null, u, Null).parent = Null
      /\ F!NewRow(s, u, Null).space = s /\ F!NewRow(s, u, Null).parent = Null
      /\ F!NewRow(Null, u, p).space = Null /\ F!NewRow(Null, u, p).parent = p
  BY DEF F!NewRow, F!Row
<1>5. /\ folder[p] = F!NewRow(Null, u, Null) /\ folder[q] = F!NewRow(s, u, Null)
      /\ \A f \in Folder \ {p, q} : folder[f] = other
  BY <1>1, <1>2
<1>6. folder \in [Folder -> F!Row \cup {Null, Gone}]
  BY <1>2, <1>4, <1>1
<1>7. file \in [File -> F!FileRow \cup {Null}]
  BY <1>3 DEF F!FileRow
<1>8. \A f \in Folder : Rooted(f)
  BY <1>n, <1>4, <1>5 DEF Rooted, F!Is
<1>9. \A x \in File : Filed(x)
  BY <1>n, <1>1, <1>3, <1>4, <1>5 DEF Filed, F!Is
<1>. QED  BY <1>1, <1>6, <1>7, <1>8, <1>9 DEF TreeInv, Sound

(* Who may write a folder or a file, has a row to write.                    *)
LEMMA WritesRows ==
  /\ \A u, f : F!CanWrite(F!FolderRole(u, f)) \/ F!FolderRole(u, f) = "owner" => F!Live(f)
  /\ \A u, f : F!CanWrite(F!TrashedFolderRole(u, f)) \/ F!TrashedFolderRole(u, f) = "owner" => F!Is(f)
  /\ \A u, x : F!CanWrite(F!FileRole(u, x)) \/ F!CanWrite(F!TrashedFileRole(u, x)) => file[x] # Null
<1>1. Null \notin {"owner", "editor"}
  BY TreeNulls DEF F!Role
<1>2. ASSUME NEW u, NEW f, F!CanWrite(F!FolderRole(u, f)) \/ F!FolderRole(u, f) = "owner"
      PROVE  F!Live(f)
  BY <1>1, <1>2 DEF F!CanWrite, F!FolderRole
<1>3. ASSUME NEW u, NEW f, F!CanWrite(F!TrashedFolderRole(u, f)) \/ F!TrashedFolderRole(u, f) = "owner"
      PROVE  F!Is(f)
  BY <1>1, <1>3 DEF F!CanWrite, F!TrashedFolderRole
<1>4. ASSUME NEW u, NEW x, F!CanWrite(F!FileRole(u, x)) \/ F!CanWrite(F!TrashedFileRole(u, x))
      PROVE  file[x] # Null
  BY <1>1, <1>4 DEF F!CanWrite, F!FileRole, F!TrashedFileRole
<1>. QED  BY <1>2, <1>3, <1>4

(* A folder reached by a path of the caller's own is in no space.           *)
LEMMA PersonalIsInNone ==
  ASSUME NEW u, NEW f \in Folder, F!Personal(u, f)
  PROVE  F!Is(f) /\ folder[f].space = Null
<1>1. f \in F!Ancestors(f)
  BY DEF F!Ancestors
<1>. QED  BY <1>1 DEF F!Personal

(* What is below what is below a folder is below it.                        *)
LEMMA SubtreeIsClosed ==
  ASSUME NEW f, NEW g \in Folder, F!Is(g), folder[g].parent # Null, folder[g].parent \in F!Subtree(f)
  PROVE  g \in F!Subtree(f)
<1>1. ASSUME NEW P \in SUBSET Folder, g \in P, F!HoldsParents(P)
      PROVE  f \in P
  <2>1. folder[g].parent \in P
    BY <1>1 DEF F!HoldsParents, F!Is
  <2>2. f \in F!Ancestors(folder[g].parent)
    BY DEF F!Subtree
  <2>. QED  BY <1>1, <2>1, <2>2 DEF F!Ancestors
<1>2. f \in Folder
  BY DEF F!Subtree, F!Ancestors
<1>. QED  BY <1>1, <1>2 DEF F!Subtree, F!Ancestors
(* Rows come and go, and stay in their space.                               *)
Lasting ==
  /\ \A f \in Folder : folder[f] # Null =>
       folder'[f] # Null /\ (folder'[f] \notin {Null, Gone} => F!Is(f) /\ folder'[f].space = folder[f].space)
  /\ \A x \in File : file'[x] # Null => file[x] # Null /\ file'[x].home = file[x].home

(* What a statement was asked for holds until it is made.                   *)
LEMMA SoundLasts ==
  ASSUME TreeInv, Lasting, NEW s, Sound(s)
  PROVE  Sound(s)'
<1>n. Null \notin Folder
  BY TreeNulls
<1>1. \A g : Known(g) => Known(g)' /\ (F!Is(g)' => F!Is(g) /\ folder'[g].space = folder[g].space)
  BY <1>n DEF Lasting, Known, F!Is
<1>2. \A f, g : Alike(f, g) => Alike(f, g)'
  BY <1>1 DEF Alike
<1>3. \A x, g : Beside(x, g) => Beside(x, g)'
  BY <1>1 DEF Beside, Lasting
<1>4. s[1] = "create" => /\ s[2] \in F!Row
                         /\ s[2].parent = Null \/ Known(s[2].parent)'
                         /\ F!Is(s[2].parent)' => folder'[s[2].parent].space = s[2].space
  BY <1>1 DEF Sound, F!Is
<1>5. s[1] \in {"move", "restore"} => Alike(s[2], s[3])'
  BY <1>2 DEF Sound
<1>6. s[1] \in {"moveFile", "organize", "file", "restoreFile"} => Beside(s[2], s[3])'
  BY <1>3 DEF Sound
<1>. QED  BY <1>4, <1>5, <1>6 DEF Sound

(* A step that writes rows as they should be, and asks for as much.         *)
LEMMA TreeLasts ==
  ASSUME TreeInv, Lasting, NEW r \in Request, NEW s, req' = [req EXCEPT ![r] = s], Sound(s)',
         folder' \in [Folder -> F!Row \cup {Null, Gone}], file' \in [File -> F!FileRow \cup {Null}],
         \A f \in Folder : Rooted(f)', \A x \in File : Filed(x)'
  PROVE  TreeInv'
<1>1. ASSUME NEW q \in Request
      PROVE  Sound(req[q])'
  <2>1. PICK t : t = IF q = r THEN s ELSE req[q]
    OBVIOUS
  <2>2. Sound(t)'
    BY <2>1, SoundLasts DEF TreeInv
  <2>3. req'[q] = t
    BY <2>1 DEF TreeInv
  <2>. QED  BY <2>2, <2>3 DEF Sound
<1>2. DOMAIN req' = Request
  BY DEF TreeInv
<1>. QED  BY <1>1, <1>2 DEF TreeInv

(* A request reads and asks.                                                *)
LEMMA TreeAsked ==
  ASSUME TreeInv, NEW r \in Request, NEW s, req' = [req EXCEPT ![r] = s], Sound(s),
         UNCHANGED <<folder, file>>
  PROVE  TreeInv'
<1>1. Lasting
  BY TreeNulls DEF Lasting, F!Is
<1>2. (\A f \in Folder : Rooted(f)') /\ \A x \in File : Filed(x)'
  BY DEF TreeInv, Rooted, Filed, F!Is
<1>. QED  BY <1>1, <1>2, SoundLasts, TreeLasts DEF TreeInv

(* A row is put where it is asked for.                                      *)
LEMMA TreeInserts ==
  ASSUME TreeInv, NEW g \in Folder, folder[g] = Null, NEW row1 \in F!Row,
         row1.parent # Null => F!Is(row1.parent) /\ folder[row1.parent].space = row1.space,
         folder' = [folder EXCEPT ![g] = row1], file' = file
  PROVE  /\ Lasting
         /\ folder' \in [Folder -> F!Row \cup {Null, Gone}]
         /\ \A f \in Folder : Rooted(f)'
         /\ \A x \in File : Filed(x)'
<1>n. Null \notin F!Row /\ Gone \notin F!Row /\ Null \notin Folder
  BY TreeNulls
<1>t. folder' \in [Folder -> F!Row \cup {Null, Gone}]
  BY DEF TreeInv
<1>1. \A f \in Folder : folder'[f] = IF f = g THEN row1 ELSE folder[f]
  BY DEF TreeInv
<1>2. \A f : F!Is(f) => f # g
  BY DEF F!Is
<1>3. \A f \in Folder : F!Is(f) => F!Is(f)' /\ folder'[f] = folder[f]
  BY <1>1, <1>2 DEF F!Is
<1>4. F!Is(g)' /\ folder'[g] = row1
  BY <1>n, <1>1 DEF F!Is
<1>5. Lasting
  BY <1>n, <1>1 DEF Lasting, F!Is
<1>6. ASSUME NEW f \in Folder PROVE Rooted(f)'
  <2>1. CASE f = g
    <3>1. row1.parent \in Folder \cup {Null}
      BY DEF F!Row
    <3>. QED  BY <1>3, <1>4, <2>1, <3>1 DEF Rooted
  <2>2. CASE f # g
    <3>1. folder'[f] = folder[f] /\ (F!Is(f)' => F!Is(f) /\ folder[f] \in F!Row)
      BY <1>1, <2>2 DEF F!Is, TreeInv
    <3>2. F!Is(f)' => folder[f].parent \in Folder \cup {Null}
      BY <3>1 DEF F!Row
    <3>. QED  BY <1>3, <3>1, <3>2 DEF Rooted, TreeInv
  <2>. QED  BY <2>1, <2>2
<1>7. ASSUME NEW x \in File PROVE Filed(x)'
  <2>1. file[x] # Null => file[x].folder \in Folder \cup {Null}
    BY DEF TreeInv, F!FileRow
  <2>. QED  BY <1>3, <2>1 DEF Filed, TreeInv
<1>. QED  BY <1>t, <1>5, <1>6, <1>7

(* A folder is put under another of its space, or under none.               *)
LEMMA TreeMoves ==
  ASSUME TreeInv, NEW f \in Folder, NEW g \in Folder \cup {Null}, F!Is(f),
         g # Null => F!Is(g) /\ folder[g].space = folder[f].space,
         NEW l \in BOOLEAN, folder' = [folder EXCEPT ![f] = [folder[f] EXCEPT !.live = l, !.parent = g]],
         file' = file
  PROVE  /\ Lasting
         /\ folder' \in [Folder -> F!Row \cup {Null, Gone}]
         /\ \A h \in Folder : Rooted(h)'
         /\ \A x \in File : Filed(x)'
<1>n. Null \notin F!Row /\ Gone \notin F!Row /\ Null \notin Folder
  BY TreeNulls
<1>r. \A h \in Folder : F!Is(h) => folder[h] \in F!Row
  BY DEF TreeInv, F!Is
<1> DEFINE w == [folder[f] EXCEPT !.live = l, !.parent = g]
<1>w. w \in F!Row /\ w.parent = g /\ w.space = folder[f].space
  BY <1>r DEF F!Row
<1>1. \A h \in Folder : folder'[h] = IF h = f THEN w ELSE folder[h]
  BY DEF TreeInv
<1>t. folder' \in [Folder -> F!Row \cup {Null, Gone}]
  BY <1>w DEF TreeInv
<1> HIDE DEF w
<1>3. \A h \in Folder : (F!Is(h)' <=> F!Is(h)) /\ (F!Is(h) => folder'[h].space = folder[h].space)
  BY <1>n, <1>1, <1>w DEF F!Is
<1>5. Lasting
  BY <1>n, <1>1, <1>3, <1>w DEF Lasting, F!Is
<1>6. ASSUME NEW h \in Folder PROVE Rooted(h)'
  <2>1. CASE h = f
    BY <1>1, <1>3, <1>w, <2>1 DEF Rooted
  <2>2. CASE h # f
    <3>1. F!Is(h) => folder[h].parent \in Folder \cup {Null}
      BY <1>r DEF F!Row
    <3>. QED  BY <1>1, <1>3, <2>2, <3>1 DEF Rooted, TreeInv
  <2>. QED  BY <2>1, <2>2
<1>7. ASSUME NEW x \in File PROVE Filed(x)'
  <2>1. file[x] # Null => file[x].folder \in Folder \cup {Null}
    BY DEF TreeInv, F!FileRow
  <2>. QED  BY <1>3, <2>1 DEF Filed, TreeInv
<1>. QED  BY <1>t, <1>5, <1>6, <1>7

(* Folders are trashed or restored, and stay where they are.                *)
LEMMA TreeStamps ==
  ASSUME TreeInv, NEW F0, NEW l \in BOOLEAN, F!Stamp(F0, l), file' = file
  PROVE  /\ Lasting
         /\ folder' \in [Folder -> F!Row \cup {Null, Gone}]
         /\ \A h \in Folder : Rooted(h)'
         /\ \A x \in File : Filed(x)'
<1>n. Null \notin F!Row /\ Gone \notin F!Row /\ Null \notin Folder
  BY TreeNulls
<1>r. \A h \in Folder : F!Is(h) => folder[h] \in F!Row
  BY DEF TreeInv, F!Is
<1>1. \A h \in Folder : folder'[h] = IF h \in F0 /\ F!Is(h) THEN [folder[h] EXCEPT !.live = l] ELSE folder[h]
  BY DEF F!Stamp
<1>2. \A h \in Folder : F!Is(h) =>
        folder'[h] \in F!Row /\ folder'[h].space = folder[h].space /\ folder'[h].parent = folder[h].parent
  BY <1>1, <1>r DEF F!Row
<1>3. \A h \in Folder : ~F!Is(h) => folder'[h] = folder[h]
  BY <1>1
<1>4. \A h \in Folder : F!Is(h)' <=> F!Is(h)
  BY <1>n, <1>2, <1>3 DEF F!Is
<1>t. folder' \in [Folder -> F!Row \cup {Null, Gone}]
  <2>1. \A h \in Folder : folder'[h] \in F!Row \cup {Null, Gone}
    BY <1>2, <1>3 DEF TreeInv
  <2>. QED  BY <2>1 DEF F!Stamp
<1>5. Lasting
  <2>1. \A h \in Folder : folder[h] # Null => folder'[h] # Null
    BY <1>n, <1>2, <1>3 DEF F!Is
  <2>. QED  BY <1>n, <2>1, <1>2, <1>4 DEF Lasting, F!Is
<1>6. ASSUME NEW h \in Folder PROVE Rooted(h)'
  <2>1. F!Is(h) => folder[h].parent \in Folder \cup {Null}
    BY <1>r DEF F!Row
  <2>. QED  BY <1>2, <1>4, <2>1 DEF Rooted, TreeInv
<1>7. ASSUME NEW x \in File PROVE Filed(x)'
  <2>1. file[x] # Null => file[x].folder \in Folder \cup {Null}
    BY DEF TreeInv, F!FileRow
  <2>. QED  BY <1>2, <1>4, <2>1 DEF Filed, TreeInv
<1>. QED  BY <1>t, <1>5, <1>6, <1>7

(* Files are moved, trashed, restored or dropped.                           *)
LEMMA FilesMove ==
  ASSUME TreeInv, folder' = folder, file' \in [File -> F!FileRow \cup {Null}],
         \A x \in File : file'[x] # Null =>
           /\ file[x] # Null /\ file'[x].home = file[x].home
           /\ \/ file'[x].folder = file[x].folder
              \/ file'[x].folder = Null /\ Beside(x, Null)
              \/ F!Is(file'[x].folder) /\ Beside(x, file'[x].folder)
  PROVE  /\ Lasting
         /\ \A h \in Folder : Rooted(h)'
         /\ \A x \in File : Filed(x)'
<1>1. Lasting
  BY TreeNulls DEF Lasting, F!Is
<1>2. \A h \in Folder : Rooted(h)'
  BY DEF Rooted, F!Is, TreeInv
<1>3. ASSUME NEW x \in File PROVE Filed(x)'
  BY DEF Filed, Beside, F!Is, TreeInv
<1>. QED  BY <1>1, <1>2, <1>3
(* A statement that moves no folder and no file into another, asked for.    *)
LEMMA TreeAskedPlain ==
  ASSUME TreeInv, NEW r \in Request, NEW s, req' = [req EXCEPT ![r] = s], s[1] \notin Checked,
         UNCHANGED <<folder, file>>
  PROVE  TreeInv'
<1>1. Sound(s)
  BY DEF Sound, Checked
<1>. QED  BY <1>1, TreeAsked

(* A folder is created in the space of the parent that was read.            *)
LEMMA TreeAskedRow ==
  ASSUME TreeInv, NEW r \in Request, NEW sp \in Space \cup {Null}, NEW u \in Sharer,
         NEW p \in Folder \cup {Null}, p # Null => F!Is(p) /\ folder[p].space = sp,
         req' = [req EXCEPT ![r] = <<"create", F!NewRow(sp, u, p)>>], UNCHANGED <<folder, file>>
  PROVE  TreeInv'
<1>1. PICK s : s = <<"create", F!NewRow(sp, u, p)>>
  OBVIOUS
<1>2. s[1] = "create" /\ s[2] \in F!Row /\ s[2].parent = p /\ s[2].space = sp
  BY <1>1 DEF F!NewRow, F!Row
<1>3. Sound(s)
  BY <1>2 DEF Sound, Known, F!Is
<1>. QED  BY <1>1, <1>3, TreeAsked

(* A folder is moved, or restored, under one of its space or under none.    *)
LEMMA TreeAskedMove ==
  ASSUME TreeInv, NEW r \in Request, NEW at \in {"move", "restore"}, NEW f \in Folder,
         NEW g \in Folder \cup {Null}, F!Is(f), g # Null => F!Is(g) /\ folder[g].space = folder[f].space,
         req' = [req EXCEPT ![r] = <<at, f, g>>], UNCHANGED <<folder, file>>
  PROVE  TreeInv'
<1>1. PICK s : s = <<at, f, g>>
  OBVIOUS
<1>2. s[1] = at /\ s[2] = f /\ s[3] = g
  BY <1>1
<1>3. Alike(f, g)
  BY DEF Alike, Known, F!Is
<1>4. Sound(s)
  BY <1>2, <1>3 DEF Sound
<1>. QED  BY <1>1, <1>4, TreeAsked

(* Requests about folders.                                                  *)
LEMMA TreeAsks ==
  ASSUME TreeInv, NEW r \in Request, NEW u \in Sharer, F!AskFolder(r, u)
  PROVE  TreeInv'
<1>n. Null \notin Folder
  BY TreeNulls
<1>r. \A f \in Folder : F!Is(f) => /\ folder[f].space \in Space \cup {Null} /\ folder[f].owner \in Sharer
                                   /\ folder[f].parent \in Folder \cup {Null}
                                   /\ F!SpaceOf(f) = folder[f].space
  BY <1>n DEF TreeInv, F!Is, F!Row, F!SpaceOf
<1>1. ASSUME NEW p \in Folder \cup {Null},
             F!AskCreate(r, u, p) \/ F!McpCreate(r, u, p) \/ F!PathCreate(r, u, p) \/ F!Mount(r, u, p)
      PROVE  TreeInv'
  <2>1. UNCHANGED <<folder, file>>
    BY <1>1 DEF F!AskCreate, F!McpCreate, F!PathCreate, F!Mount, F!Reads
  <2>2. p # Null => F!Is(p)
    BY <1>1, WritesRows, PersonalIsInNone DEF F!AskCreate, F!McpCreate, F!PathCreate, F!Mount, F!Live
  <2>3. PICK sp \in Space \cup {Null} : sp = F!SpaceOf(p)
    BY <1>r, <2>2 DEF F!SpaceOf
  <2>4. PICK v \in Sharer : v = IF p = Null THEN u ELSE folder[p].owner
    BY <1>r, <2>2
  <2>5. p # Null => folder[p].space = sp
    BY <1>r, <2>2, <2>3
  <2>6. F!PathCreate(r, u, p) \/ F!Mount(r, u, p) => sp = Null
    BY <2>3, <2>5, PersonalIsInNone DEF F!PathCreate, F!Mount, F!SpaceOf
  <2>7. \/ req' = [req EXCEPT ![r] = <<"create", F!NewRow(sp, v, p)>>]
        \/ req' = [req EXCEPT ![r] = <<"create", F!NewRow(sp, u, p)>>]
    BY <1>1, <2>3, <2>4, <2>6 DEF F!AskCreate, F!McpCreate, F!PathCreate, F!Mount, F!Ask
  <2>. QED  BY <2>1, <2>2, <2>5, <2>7, TreeAskedRow
<1>2. ASSUME NEW f \in Folder, NEW g \in (Folder \cup {Null}) \ {f},
             F!AskMove(r, u, f, g) \/ F!McpMove(r, u, f, g) \/ F!DavMove(r, u, f, g)
      PROVE  TreeInv'
  <2>1. UNCHANGED <<folder, file>> /\ req' = [req EXCEPT ![r] = <<"move", f, g>>]
    BY <1>2 DEF F!AskMove, F!McpMove, F!DavMove, F!Reads, F!Ask
  <2>2. F!Is(f) /\ (g # Null => F!Is(g))
    BY <1>2, WritesRows, PersonalIsInNone DEF F!AskMove, F!McpMove, F!DavMove, F!Live
  <2>3. g # Null => F!SpaceOf(f) = F!SpaceOf(g) \/ (folder[f].space = Null /\ folder[g].space = Null)
    BY <1>2, PersonalIsInNone DEF F!AskMove, F!McpMove, F!DavMove, F!SameTree
  <2>. QED  BY <1>r, <2>1, <2>2, <2>3, TreeAskedMove
<1>3. ASSUME NEW f \in Folder, F!AskTrash(r, u, f) \/ F!McpTrash(r, u, f)
      PROVE  TreeInv'
  <2>1. PICK s : s \in {<<"trash", F!Subtree(f)>>, <<"trashed", {f}, {}>>} /\ req' = [req EXCEPT ![r] = s]
    BY <1>3 DEF F!AskTrash, F!McpTrash, F!Ask
  <2>2. s[1] \notin Checked
    BY <2>1 DEF Checked
  <2>. QED  BY <1>3, <2>1, <2>2, TreeAskedPlain DEF F!AskTrash, F!McpTrash, F!Reads
<1>4. ASSUME NEW f \in Folder, F!AskRestore(r, u, f) \/ F!McpRestore(r, u, f)
      PROVE  TreeInv'
  <2>1. F!Is(f)
    BY <1>4, WritesRows DEF F!AskRestore, F!McpRestore
  <2>2. PICK g : g = IF F!Live(folder[f].parent) THEN folder[f].parent ELSE Null
    OBVIOUS
  <2>3. g \in Folder \cup {Null} /\ (g # Null => F!Is(g) /\ folder[g].space = folder[f].space)
    BY <1>r, <2>1, <2>2 DEF F!Live, TreeInv, Rooted
  <2>4. UNCHANGED <<folder, file>> /\ req' = [req EXCEPT ![r] = <<"restore", f, g>>]
    BY <1>4, <2>2 DEF F!AskRestore, F!McpRestore, F!Reads, F!Ask
  <2>. QED  BY <2>1, <2>3, <2>4, TreeAskedMove
<1>5. ASSUME NEW f \in Folder, F!AskPurge(r, u, f) \/ F!DavDelete(r, u, f)
      PROVE  TreeInv'
  <2>1. PICK s : /\ s \in {<<"purge", F!Subtree(f), F!FilesIn(F!Subtree(f))>>, <<"deleteFiles", F!Subtree(f)>>}
                 /\ req' = [req EXCEPT ![r] = s]
    BY <1>5 DEF F!AskPurge, F!DavDelete, F!Ask
  <2>2. s[1] \notin Checked
    BY <2>1 DEF Checked
  <2>. QED  BY <1>5, <2>1, <2>2, TreeAskedPlain DEF F!AskPurge, F!DavDelete, F!Reads
<1>6. ASSUME F!AskEmpty(r, u)
      PROVE  TreeInv'
  <2>1. PICK a, b : req' = [req EXCEPT ![r] = <<"empty", a, b>>]
    BY <1>6 DEF F!AskEmpty, F!Ask
  <2>2. <<"empty", a, b>>[1] \notin Checked
    BY DEF Checked
  <2>. QED  BY <1>6, <2>1, <2>2, TreeAskedPlain DEF F!AskEmpty, F!Reads
<1>. QED  BY <1>1, <1>2, <1>3, <1>4, <1>5, <1>6 DEF F!AskFolder

(* Requests about files.                                                    *)
LEMMA TreeFiles ==
  ASSUME TreeInv, NEW r \in Request, NEW u \in Sharer, NEW x \in File, F!AskFile(r, u, x)
  PROVE  TreeInv'
<1>n. Null \notin Folder /\ Null \notin F!FileRow
  BY TreeNulls
<1>r. /\ \A y \in File : file[y] # Null =>
           /\ file[y] \in F!FileRow /\ file[y].folder \in Folder \cup {Null}
           /\ F!SpaceOf(file[y].folder) = file[y].home
           /\ file[y].folder # Null => F!Is(file[y].folder)
      /\ \A f \in Folder : F!Is(f) => F!SpaceOf(f) = folder[f].space
  BY <1>n DEF TreeInv, F!FileRow, Filed, F!SpaceOf
<1>1. ASSUME NEW g \in Folder \cup {Null}, F!AskMoveFile(r, u, x, g)
      PROVE  TreeInv'
  <2>1. file[x] # Null /\ (g # Null => F!Is(g))
    BY <1>1, WritesRows DEF F!AskMoveFile, F!Live
  <2>2. Beside(x, g)
    BY <1>1, <1>r, <2>1 DEF F!AskMoveFile, Beside, Known, F!Is
  <2>3. PICK s : s = <<"moveFile", x, g, g # Null>>
    OBVIOUS
  <2>4. s[1] = "moveFile" /\ s[2] = x /\ s[3] = g
    BY <2>3
  <2>5. Sound(s)
    BY <2>2, <2>4 DEF Sound
  <2>6. req' = [req EXCEPT ![r] = s] /\ UNCHANGED <<folder, file>>
    BY <1>1, <2>3 DEF F!AskMoveFile, F!Ask, F!Reads
  <2>. QED  BY <2>5, <2>6, TreeAsked
<1>2. ASSUME NEW g \in Folder \cup {Null}, F!DavMoveFile(r, u, x, g)
      PROVE  TreeInv'
  <2>1. file[x] # Null /\ (g # Null => F!Is(g))
    BY <1>2, PersonalIsInNone DEF F!DavMoveFile
  <2>2. Beside(x, g)
    <3>1. file[x].home = Null
      <4>1. file[x].folder = Null => F!SpaceOf(file[x].folder) = Null
        BY DEF F!SpaceOf
      <4>2. file[x].folder # Null => folder[file[x].folder].space = Null
        BY <1>2, <1>r, <2>1, PersonalIsInNone DEF F!DavMoveFile
      <4>. QED  BY <1>r, <2>1, <4>1, <4>2
    <3>2. g # Null => folder[g].space = Null
      BY <1>2, PersonalIsInNone DEF F!DavMoveFile
    <3>. QED  BY <2>1, <3>1, <3>2 DEF Beside, Known, F!Is
  <2>3. PICK Y : F!DropFiles(Y)
    BY <1>2 DEF F!DavMoveFile
  <2>4. \A y \in File : file'[y] = IF y \in Y THEN Null ELSE file[y]
    BY <2>3 DEF F!DropFiles
  <2>5. file' \in [File -> F!FileRow \cup {Null}] /\ folder' = folder
    BY <1>2, <2>3 DEF F!DropFiles, TreeInv, F!DavMoveFile
  <2>6. Lasting /\ (\A h \in Folder : Rooted(h)') /\ \A y \in File : Filed(y)'
    BY <2>4, <2>5, FilesMove
  <2>7. PICK s : s = <<"moveFile", x, g, FALSE>>
    OBVIOUS
  <2>8. s[1] = "moveFile" /\ s[2] = x /\ s[3] = g
    BY <2>7
  <2>9. Sound(s)
    BY <2>2, <2>8 DEF Sound
  <2>10. req' = [req EXCEPT ![r] = s] /\ Sound(s)'
    BY <1>2, <2>6, <2>7, <2>9, SoundLasts DEF F!DavMoveFile, F!Ask
  <2>. QED  BY <2>5, <2>6, <2>10, TreeLasts DEF TreeInv
<1>3. ASSUME F!TrashFile(r, u, x)
      PROVE  TreeInv'
  <2>1. file[x] # Null
    BY <1>3, WritesRows DEF F!TrashFile
  <2>2. \A y \in File : file'[y] = IF y = x THEN [file[y] EXCEPT !.live = FALSE] ELSE file[y]
    BY <1>3 DEF F!TrashFile, F!StampFiles
  <2>3. [file[x] EXCEPT !.live = FALSE] \in F!FileRow /\ [file[x] EXCEPT !.live = FALSE].home = file[x].home
        /\ [file[x] EXCEPT !.live = FALSE].folder = file[x].folder
    BY <1>r, <2>1 DEF F!FileRow
  <2>4. file' \in [File -> F!FileRow \cup {Null}] /\ folder' = folder
    BY <1>3, <2>2, <2>3 DEF F!TrashFile, F!StampFiles, TreeInv
  <2>5. Lasting /\ (\A h \in Folder : Rooted(h)') /\ \A y \in File : Filed(y)'
    BY <2>1, <2>2, <2>3, <2>4, FilesMove
  <2>6. req' = [req EXCEPT ![r] = <<"done">>] /\ Sound(<<"done">>)'
    BY <1>3 DEF F!TrashFile, F!Done, F!Then, Sound
  <2>. QED  BY <2>4, <2>5, <2>6, TreeLasts DEF TreeInv
<1>4. ASSUME F!AskRestoreFile(r, u, x)
      PROVE  TreeInv'
  <2>1. file[x] # Null
    BY <1>4, WritesRows DEF F!AskRestoreFile
  <2>2. PICK g : g = IF F!Live(file[x].folder) THEN file[x].folder ELSE Null
    OBVIOUS
  <2>3. Beside(x, g)
    BY <1>4, <1>n, <1>r, <2>1, <2>2 DEF F!AskRestoreFile, F!Live, F!Is, Beside, Known
  <2>4. PICK s : s = <<"restoreFile", x, g>>
    OBVIOUS
  <2>5. s[1] = "restoreFile" /\ s[2] = x /\ s[3] = g
    BY <2>4
  <2>6. Sound(s)
    BY <2>3, <2>5 DEF Sound
  <2>7. req' = [req EXCEPT ![r] = s] /\ UNCHANGED <<folder, file>>
    BY <1>4, <2>2, <2>4 DEF F!AskRestoreFile, F!Ask, F!Reads
  <2>. QED  BY <2>6, <2>7, TreeAsked
<1>. QED  BY <1>1, <1>2, <1>3, <1>4 DEF F!AskFile
(* Spaces, members and grants are no part of the tree.                      *)
LEMMA TreeShares ==
  ASSUME TreeInv, NEW r \in Request, NEW u \in Sharer, F!Sharing(r, u)
  PROVE  TreeInv'
<1>1. ASSUME NEW s \in Space, F!SpaceCreate(r, u, s)
      PROVE  TreeInv'
  BY <1>1, TreeAskedRow DEF F!SpaceCreate, F!Ask, F!Reads
<1>2. ASSUME NEW s \in Space, F!CreateSpace(r, u, s) \/ F!DeleteSpace(r, u, s)
      PROVE  TreeInv'
  <2>b. PICK b : b = FALSE
    OBVIOUS
  <2>1. PICK q : (q = <<"member", s, u, "owner", b>> \/ q = <<"deleteSpace", s>>) /\ req' = [req EXCEPT ![r] = q]
    BY <1>2, <2>b DEF F!CreateSpace, F!DeleteSpace, F!Then
  <2>2. q[1] \notin Checked
    BY <2>1 DEF Checked
  <2>. QED  BY <1>2, <2>1, <2>2, TreeAskedPlain DEF F!CreateSpace, F!DeleteSpace
<1>3. ASSUME NEW s \in Space, NEW v \in Sharer, NEW role \in F!Role, F!AskMember(r, u, s, v, role)
      PROVE  TreeInv'
  <2>b. PICK b : b = (member[s][v] # Null)
    OBVIOUS
  <2>1. PICK q : q = <<"member", s, v, role, b>> /\ req' = [req EXCEPT ![r] = q]
    BY <1>3, <2>b DEF F!AskMember, F!Ask
  <2>2. q[1] \notin Checked
    BY <2>1 DEF Checked
  <2>. QED  BY <1>3, <2>1, <2>2, TreeAskedPlain DEF F!AskMember, F!Reads
<1>4. ASSUME req' = [req EXCEPT ![r] = <<"done">>], UNCHANGED <<folder, file>>
      PROVE  TreeInv'
  <2>1. <<"done">>[1] \notin Checked
    BY DEF Checked
  <2>. QED  BY <1>4, <2>1, TreeAskedPlain
<1>5. ASSUME NEW s \in Space, NEW v \in Sharer, F!RemoveMember(r, u, s, v)
      PROVE  TreeInv'
  BY <1>4, <1>5 DEF F!RemoveMember, F!Done, F!Then
<1>6. ASSUME NEW t \in F!Thing, NEW v \in Sharer, F!RemoveCollab(r, u, t, v)
      PROVE  TreeInv'
  BY <1>4, <1>6 DEF F!RemoveCollab, F!Done, F!Then
<1>7. ASSUME NEW t \in F!Thing, NEW v \in Sharer, NEW role \in {"editor", "viewer"}, F!AddCollab(r, u, t, v, role)
      PROVE  TreeInv'
  BY <1>4, <1>7 DEF F!AddCollab, F!Done, F!Then
<1>. QED  BY <1>1, <1>2, <1>3, <1>5, <1>6, <1>7 DEF F!Sharing

(* A file is put where the statement says, if there is such a folder still. *)
LEMMA FileIsPut ==
  ASSUME TreeInv, NEW x \in File, NEW g, Beside(x, g), NEW l, file[x] # Null => l \in BOOLEAN,
         F!SetFolder(x, g, l), folder' = folder
  PROVE  /\ file' \in [File -> F!FileRow \cup {Null}]
         /\ Lasting
         /\ \A h \in Folder : Rooted(h)'
         /\ \A y \in File : Filed(y)'
<1>n. Null \notin Folder /\ Null \notin F!FileRow
  BY TreeNulls
<1>1. CASE file' = file
  BY <1>1, FilesMove DEF TreeInv
<1>2. CASE /\ file[x] # Null /\ (g = Null \/ F!Is(g))
           /\ file' = [file EXCEPT ![x] = [file[x] EXCEPT !.folder = g, !.live = l]]
  <2> DEFINE w == [file[x] EXCEPT !.folder = g, !.live = l]
  <2>1. file[x] \in F!FileRow /\ g \in Folder \cup {Null} /\ l \in BOOLEAN
    BY <1>2 DEF TreeInv, Beside, Known
  <2>2. w \in F!FileRow /\ w.folder = g /\ w.home = file[x].home
    BY <2>1 DEF F!FileRow
  <2>3. \A y \in File : file'[y] = IF y = x THEN w ELSE file[y]
    BY <1>2 DEF TreeInv
  <2>4. file' \in [File -> F!FileRow \cup {Null}]
    BY <1>2, <2>2 DEF TreeInv
  <2> HIDE DEF w
  <2>. QED  BY <1>2, <2>2, <2>3, <2>4, FilesMove
<1>. QED  BY <1>1, <1>2 DEF F!SetFolder

(* Whatever is below a deleted folder goes with it, and the files in it.    *)
LEMMA TreeDeletes ==
  ASSUME TreeInv, NEW D, NEW F0, D = UNION {F!Subtree(f) : f \in F0},
         folder' = [f \in Folder |-> IF f \in D THEN Gone ELSE folder[f]],
         F!DropFiles(F!FilesIn(D))
  PROVE  /\ Lasting
         /\ folder' \in [Folder -> F!Row \cup {Null, Gone}] /\ file' \in [File -> F!FileRow \cup {Null}]
         /\ \A h \in Folder : Rooted(h)'
         /\ \A x \in File : Filed(x)'
<1>n. /\ Null \notin Folder /\ Null \notin F!FileRow /\ Gone # Null
      /\ \A h : ~F!Is(h) \/ h # Null
  BY TreeNulls DEF F!Is
<1>1. \A h \in Folder : folder'[h] = IF h \in D THEN Gone ELSE folder[h]
  OBVIOUS
<1>2. \A h \in D : h \in Folder /\ F!Is(h)
  BY DEF F!Subtree
<1>3. \A x \in File : file'[x] = IF file[x] # Null /\ file[x].folder \in D THEN Null ELSE file[x]
  BY DEF F!DropFiles, F!FilesIn
<1>t. folder' \in [Folder -> F!Row \cup {Null, Gone}] /\ file' \in [File -> F!FileRow \cup {Null}]
  <2>1. folder' \in [Folder -> F!Row \cup {Null, Gone}]
    BY DEF TreeInv
  <2>2. file' \in [File -> F!FileRow \cup {Null}]
    BY DEF TreeInv, F!DropFiles
  <2>. QED  BY <2>1, <2>2
<1>4. \A h \in Folder : F!Is(h)' <=> F!Is(h) /\ h \notin D
  BY <1>1 DEF F!Is
<1>5. Lasting
  BY <1>n, <1>1, <1>2, <1>3, <1>4 DEF Lasting, F!Is
<1>6. ASSUME NEW h \in Folder
      PROVE  Rooted(h)'
  <2>a. SUFFICES ASSUME F!Is(h)', folder[h].parent # Null, folder'[h] = folder[h]
                 PROVE  Rooted(h)'
    BY <1>1, <1>4 DEF Rooted
  <2>1. PICK p : p = folder[h].parent
    OBVIOUS
  <2>2. F!Is(h) /\ h \notin D
    BY <1>4, <2>a
  <2>3. p \in Folder /\ F!Is(p) /\ folder[p].space = folder[h].space
    BY <2>a, <2>1, <2>2 DEF TreeInv, Rooted, F!Is, F!Row
  <2>4. p \notin D
    BY <2>a, <2>1, <2>2, <2>3, SubtreeIsClosed
  <2>5. F!Is(p)' /\ folder'[p] = folder[p]
    BY <1>1, <1>4, <2>3, <2>4
  <2>. QED  BY <2>a, <2>1, <2>3, <2>5 DEF Rooted
<1>7. ASSUME NEW x \in File
      PROVE  Filed(x)'
  <2>1. CASE file'[x] = Null
    BY <2>1 DEF Filed
  <2>2. CASE file'[x] # Null
    <3>1. file'[x] = file[x] /\ file[x] # Null /\ file[x].folder \notin D
      BY <1>3, <2>2
    <3>2. file[x].folder \in Folder \cup {Null}
      BY <3>1 DEF TreeInv, F!FileRow
    <3>3. file[x].folder # Null => F!Is(file[x].folder)' /\ folder'[file[x].folder] = folder[file[x].folder]
      BY <1>1, <1>4, <3>1, <3>2 DEF TreeInv, Filed
    <3>. QED  BY <3>1, <3>3 DEF TreeInv, Filed
  <2>. QED  BY <2>1, <2>2
<1>. QED  BY <1>t, <1>5, <1>6, <1>7

(* The statements.                                                          *)
LEMMA TreeWrites ==
  ASSUME TreeInv, NEW r \in Request, F!Write(r)
  PROVE  TreeInv'
<1>n. /\ Null \notin Folder /\ Null \notin F!FileRow /\ Null \notin F!Row
      /\ TRUE \in BOOLEAN /\ FALSE \in BOOLEAN
  BY TreeNulls
<1>t. /\ folder \in [Folder -> F!Row \cup {Null, Gone}] /\ file \in [File -> F!FileRow \cup {Null}]
      /\ Sound(req[r])
  BY DEF TreeInv
<1>r. \A f \in Folder : F!Is(f) => folder[f] \in F!Row /\ F!SpaceOf(f) = folder[f].space
  BY <1>n, <1>t DEF F!Is, F!SpaceOf
<1>f. ASSUME NEW s, s[1] \notin Checked, F!Then(r, s), Lasting,
             folder' \in [Folder -> F!Row \cup {Null, Gone}], file' \in [File -> F!FileRow \cup {Null}],
             \A f \in Folder : Rooted(f)', \A x \in File : Filed(x)'
      PROVE  TreeInv'
  <2>1. Sound(s)'
    BY <1>f DEF Sound, Checked
  <2>. QED  BY <1>f, <2>1, TreeLasts DEF F!Then
<1>d. <<"done">>[1] \notin Checked
  BY DEF Checked
<1>k. ASSUME F!Done(r), Lasting,
             folder' \in [Folder -> F!Row \cup {Null, Gone}], file' \in [File -> F!FileRow \cup {Null}],
             \A f \in Folder : Rooted(f)', \A x \in File : Filed(x)'
      PROVE  TreeInv'
  BY <1>d, <1>f, <1>k DEF F!Done
<1>u. ASSUME UNCHANGED <<folder, file>>
      PROVE  Lasting /\ (\A f \in Folder : Rooted(f)') /\ \A x \in File : Filed(x)'
  <2>1. Lasting
    BY <1>u, <1>n DEF Lasting, F!Is
  <2>. QED  BY <1>u, <2>1 DEF TreeInv, Rooted, Filed, F!Is
<1>1. CASE F!Create(r)
  <2>1. PICK row1 : row1 = req[r][2]
    OBVIOUS
  <2>2. /\ row1 \in F!Row /\ F!Done(r) /\ file' = file
        /\ F!Is(row1.parent) => folder[row1.parent].space = row1.space
    BY <1>1, <1>t, <2>1 DEF F!Create, F!Insert, Sound
  <2>3. PICK f \in Folder : folder[f] = Null /\
          folder' = IF row1.parent = Null \/ F!Is(row1.parent) THEN [folder EXCEPT ![f] = row1] ELSE folder
    BY <1>1, <2>1 DEF F!Create, F!Insert
  <2>4. CASE row1.parent = Null \/ F!Is(row1.parent)
    BY <1>k, <1>t, <2>2, <2>3, <2>4, TreeInserts
  <2>5. CASE folder' = folder
    BY <1>k, <1>t, <1>u, <2>2, <2>5
  <2>. QED  BY <2>3, <2>4, <2>5
<1>m. ASSUME NEW f, NEW g, Alike(f, g), NEW l, F!Is(f) => l \in BOOLEAN, file' = file, F!Done(r),
             folder' = IF F!Is(f) /\ (g = Null \/ F!Is(g))
                       THEN [folder EXCEPT ![f] = [folder[f] EXCEPT !.live = l, !.parent = g]] ELSE folder
      PROVE  TreeInv'
  <2>1. f \in Folder /\ g \in Folder \cup {Null}
    BY <1>m DEF Alike, Known
  <2>2. CASE F!Is(f) /\ (g = Null \/ F!Is(g))
    <3>1. g # Null => F!Is(g) /\ folder[g].space = folder[f].space
      BY <1>m, <2>2 DEF Alike
    <3>. QED  BY <1>k, <1>t, <1>m, <2>1, <2>2, <3>1, TreeMoves
  <2>3. CASE folder' = folder
    BY <1>k, <1>t, <1>u, <1>m, <2>3
  <2>. QED  BY <1>m, <2>2, <2>3
<1>2. CASE F!Move(r)
  <2>1. PICK f, g : f = req[r][2] /\ g = req[r][3]
    OBVIOUS
  <2>2. Alike(f, g) /\ file' = file /\ F!Done(r)
    BY <1>2, <1>t, <2>1 DEF F!Move, Sound
  <2>3. folder' = IF F!Is(f) /\ (g = Null \/ F!Is(g)) THEN [folder EXCEPT ![f].parent = g] ELSE folder
    BY <1>2, <2>1 DEF F!Move
  <2>4. F!Is(f) => folder[f].live \in BOOLEAN /\
          [folder[f] EXCEPT !.parent = g] = [folder[f] EXCEPT !.live = folder[f].live, !.parent = g]
    BY <1>r, <2>2 DEF F!Row, Alike, Known
  <2>. QED  BY <1>m, <2>2, <2>3, <2>4
<1>3. CASE F!Restore(r)
  <2>1. PICK f, g : f = req[r][2] /\ g = req[r][3]
    OBVIOUS
  <2>2. Alike(f, g) /\ file' = file /\ F!Done(r)
    BY <1>3, <1>t, <2>1 DEF F!Restore, Sound
  <2>3. folder' = IF F!Is(f) /\ (g = Null \/ F!Is(g))
                  THEN [folder EXCEPT ![f] = [folder[f] EXCEPT !.live = TRUE, !.parent = g]] ELSE folder
    BY <1>3, <2>1 DEF F!Restore
  <2>. QED  BY <1>m, <1>n, <2>2, <2>3
<1>4. CASE F!Trash(r)
  <2>1. PICK F0 : F0 = req[r][2]
    OBVIOUS
  <2>2. F!Stamp(F0, FALSE) /\ F!Then(r, <<"trashFiles", F0>>) /\ file' = file
    BY <1>4, <2>1 DEF F!Trash
  <2>3. <<"trashFiles", F0>>[1] \notin Checked
    BY DEF Checked
  <2>. QED  BY <1>f, <1>t, <2>2, <2>3, TreeStamps
<1>5. CASE F!TrashAlone(r)
  <2>1. PICK F0 : F0 = req[r][2]
    OBVIOUS
  <2>. QED  BY <1>5, <1>k, <1>t, <2>1, TreeStamps DEF F!TrashAlone
<1>6. CASE F!TrashFiles(r)
  <2>1. PICK Y : Y = F!FilesIn(req[r][2])
    OBVIOUS
  <2>2. \A x \in File : file'[x] = IF x \in Y THEN [file[x] EXCEPT !.live = FALSE] ELSE file[x]
    BY <1>6, <2>1 DEF F!TrashFiles, F!StampFiles
  <2>3. \A x \in Y : x \in File /\ file[x] # Null
    BY <2>1 DEF F!FilesIn
  <2>4. ASSUME NEW x \in Y
        PROVE  [file[x] EXCEPT !.live = FALSE] \in F!FileRow /\ [file[x] EXCEPT !.live = FALSE].home = file[x].home
               /\ [file[x] EXCEPT !.live = FALSE].folder = file[x].folder
    BY <1>t, <2>3 DEF F!FileRow
  <2>5. file' \in [File -> F!FileRow \cup {Null}] /\ folder' = folder
    BY <1>6, <1>t, <2>1, <2>2, <2>4 DEF F!TrashFiles, F!StampFiles
  <2>6. Lasting /\ (\A h \in Folder : Rooted(h)') /\ \A y \in File : Filed(y)'
    BY <2>2, <2>3, <2>4, <2>5, FilesMove
  <2>. QED  BY <1>6, <1>k, <1>t, <2>5, <2>6 DEF F!TrashFiles
<1>p. ASSUME NEW s, s[1] \notin Checked, F!Then(r, s), UNCHANGED <<folder, file>>
      PROVE  TreeInv'
  BY <1>p, TreeAskedPlain DEF F!Then
<1>7. CASE F!PurgeGrants(r)
  <2>1. PICK s : s = (IF req[r][1] = "purge" THEN <<"deleteFiles", req[r][2]>>
                                             ELSE <<"deleteTrash", req[r][2], req[r][3]>>)
    OBVIOUS
  <2>2. s[1] \notin Checked
    BY <2>1 DEF Checked
  <2>. QED  BY <1>7, <1>p, <2>1, <2>2 DEF F!PurgeGrants
<1>x. ASSUME NEW Y, F!DropFiles(Y), folder' = folder
      PROVE  /\ file' \in [File -> F!FileRow \cup {Null}] /\ Lasting
             /\ (\A h \in Folder : Rooted(h)') /\ \A y \in File : Filed(y)'
  <2>1. \A y \in File : file'[y] = IF y \in Y THEN Null ELSE file[y]
    BY <1>x DEF F!DropFiles
  <2>2. file' \in [File -> F!FileRow \cup {Null}]
    BY <1>x, <1>t DEF F!DropFiles
  <2>. QED  BY <1>x, <2>1, <2>2, FilesMove
<1>8. CASE F!DeleteFiles(r) \/ F!DeleteTrash(r)
  <2>1. PICK s : s = <<"delete", req[r][2]>>
    OBVIOUS
  <2>2. s[1] \notin Checked
    BY <2>1 DEF Checked
  <2>3. PICK Y : F!DropFiles(Y) /\ folder' = folder /\ F!Then(r, s)
    BY <1>8, <2>1 DEF F!DeleteFiles, F!DeleteTrash
  <2>. QED  BY <1>f, <1>t, <1>x, <2>2, <2>3
<1>9. CASE F!Delete(r)
  <2>1. PICK D : D = UNION {F!Subtree(f) : f \in req[r][2]}
    OBVIOUS
  <2>2. /\ folder' = [f \in Folder |-> IF f \in D THEN Gone ELSE folder[f]]
        /\ F!DropFiles(F!FilesIn(D)) /\ F!Done(r)
    BY <1>9, <2>1 DEF F!Delete
  <2>. QED  BY <1>k, <2>1, <2>2, TreeDeletes
<1>10. CASE F!MoveFile(r)
  <2>1. PICK x, g : x = req[r][2] /\ g = req[r][3]
    OBVIOUS
  <2>2. Beside(x, g) /\ folder' = folder /\ x \in File
    BY <1>10, <1>t, <2>1 DEF F!MoveFile, Sound, Beside
  <2>3. PICK l : l = (file[x] # Null /\ file[x].live)
    OBVIOUS
  <2>4. F!SetFolder(x, g, l) /\ (F!Done(r) \/ F!Then(r, <<"organize", x, g>>))
    BY <1>10, <2>1, <2>3 DEF F!MoveFile
  <2>5. file[x] # Null => l \in BOOLEAN
    BY <2>3
  <2>6. /\ file' \in [File -> F!FileRow \cup {Null}] /\ Lasting
        /\ (\A h \in Folder : Rooted(h)') /\ \A y \in File : Filed(y)'
    BY <2>2, <2>4, <2>5, FileIsPut
  <2>7. PICK s : s = <<"organize", x, g>>
    OBVIOUS
  <2>8. s[1] = "organize" /\ s[2] = x /\ s[3] = g
    BY <2>7
  <2>9. Sound(s)
    BY <2>2, <2>8 DEF Sound
  <2>10. F!Then(r, s) => TreeInv'
    BY <1>t, <2>2, <2>6, <2>9, SoundLasts, TreeLasts DEF F!Then
  <2>. QED  BY <1>k, <1>t, <2>2, <2>4, <2>6, <2>7, <2>10
<1>11. CASE F!Organize(r)
  <2>1. PICK x, p : x = req[r][2] /\ p = req[r][3]
    OBVIOUS
  <2>2. Beside(x, p) /\ F!Is(p) /\ file' = file /\ p \in Folder /\ x \in File
    BY <1>11, <1>t, <1>n, <2>1 DEF F!Organize, Sound, Beside, Known, F!Is
  <2>3. file[x] # Null => folder[p].space = file[x].home
    BY <2>2, <1>n DEF Beside
  <2>a. ASSUME NEW g \in Folder, F!Live(g), folder[g].parent = p, F!Then(r, <<"file", x, g>>), folder' = folder
        PROVE  TreeInv'
    <3>1. folder[g].space = folder[p].space
      BY <1>n, <2>2, <2>a DEF TreeInv, Rooted, F!Live
    <3>2. Beside(x, g)
      BY <1>n, <2>2, <2>3, <2>a, <3>1 DEF Beside, Known, F!Live, F!Is
    <3>3. PICK s : s = <<"file", x, g>>
      OBVIOUS
    <3>4. s[1] = "file" /\ s[2] = x /\ s[3] = g
      BY <3>3
    <3>5. Sound(s)
      BY <3>2, <3>4 DEF Sound
    <3>. QED  BY <2>2, <2>a, <3>3, <3>5, TreeAsked DEF F!Then
  <2>b. ASSUME NEW g \in Folder, folder[g] = Null, folder' = [folder EXCEPT ![g] = F!ChildOf(p)],
               F!Then(r, <<"file", x, g>>)
        PROVE  TreeInv'
    <3>r. folder[p].space \in Space \cup {Null} /\ folder[p].owner \in Sharer /\ F!SpaceOf(p) = folder[p].space
      BY <1>r, <2>2 DEF F!Row
    <3>c. F!ChildOf(p) \in F!Row /\ F!ChildOf(p).parent = p /\ F!ChildOf(p).space = folder[p].space
      BY <2>2, <3>r DEF F!ChildOf, F!NewRow, F!Row
    <3>1. PICK w \in F!Row : w = F!ChildOf(p) /\ w.parent = p /\ w.space = folder[p].space
      BY <3>c
    <3>2. /\ Lasting /\ folder' \in [Folder -> F!Row \cup {Null, Gone}]
          /\ (\A h \in Folder : Rooted(h)') /\ \A y \in File : Filed(y)'
      BY <2>2, <2>b, <3>1, TreeInserts
    <3>3. folder'[g] = w
      BY <1>t, <2>b, <3>1
    <3>4. Beside(x, g)'
      BY <1>n, <2>2, <2>3, <3>1, <3>3 DEF Beside, Known, F!Is
    <3>5. PICK s : s = <<"file", x, g>>
      OBVIOUS
    <3>6. s[1] = "file" /\ s[2] = x /\ s[3] = g
      BY <3>5
    <3>7. Sound(s)'
      BY <3>4, <3>6 DEF Sound
    <3>8. req' = [req EXCEPT ![r] = s]
      BY <2>b, <3>5 DEF F!Then
    <3>. QED  BY <1>t, <2>2, <3>2, <3>7, <3>8, TreeLasts
  <2>. QED  BY <1>11, <2>1, <2>a, <2>b DEF F!Organize
<1>12. CASE F!FileAway(r) \/ F!RestoreFile(r)
  <2>1. PICK x, g : x = req[r][2] /\ g = req[r][3]
    OBVIOUS
  <2>2. Beside(x, g) /\ folder' = folder /\ x \in File /\ F!Done(r)
    BY <1>12, <1>t, <2>1 DEF F!FileAway, F!RestoreFile, Sound, Beside
  <2>3. PICK l : F!SetFolder(x, g, l) /\ l \in BOOLEAN
    <3>1. (file[x] # Null /\ file[x].live) \in BOOLEAN
      OBVIOUS
    <3>. QED  BY <1>12, <1>n, <2>1, <3>1 DEF F!FileAway, F!RestoreFile
  <2>4. /\ file' \in [File -> F!FileRow \cup {Null}] /\ Lasting
        /\ (\A h \in Folder : Rooted(h)') /\ \A y \in File : Filed(y)'
    BY <2>2, <2>3, FileIsPut
  <2>. QED  BY <1>k, <1>t, <2>2, <2>4
<1>13. CASE F!ListSpace(r)
  <2>1. PICK F0 : F!Then(r, <<"trash", F0>>)
    BY <1>13 DEF F!ListSpace
  <2>2. <<"trash", F0>>[1] \notin Checked
    BY DEF Checked
  <2>. QED  BY <1>13, <1>p, <2>1, <2>2 DEF F!ListSpace, F!Reads
<1>14. CASE F!SetMember(r)
  BY <1>14, <1>p, <1>d DEF F!SetMember, F!Done
<1>. QED  BY <1>1, <1>2, <1>3, <1>4, <1>5, <1>6, <1>7, <1>8, <1>9, <1>10, <1>11, <1>12, <1>13, <1>14 DEF F!Write

(* Whatever is moved, restored, created or deleted between what a request   *)
(* read and what it writes, no folder changes its space.                    *)
LEMMA TreeStep == TreeInv /\ [F!Next]_tree => TreeInv'
<1> SUFFICES ASSUME TreeInv, [F!Next]_tree
             PROVE  TreeInv'
  OBVIOUS
<1>1. CASE UNCHANGED tree
  BY <1>1 DEF tree, TreeInv, Rooted, Filed, Sound, Alike, Beside, Known, F!Is
<1>. QED  BY <1>1, TreeAsks, TreeFiles, TreeShares, TreeWrites DEF F!Next

(* However requests about folders, files and spaces interleave, a folder is *)
(* in its parent's space and a file in the space it was first in.           *)
THEOREM SpacesHold == MCSpec => []OneSpacePerTree
<1>1. MCInit => (focus = "tree" => TreeInv)
  BY TreeInit DEF MCInit
<1>2. (focus = "tree" => TreeInv) /\ [MCNext]_allVars => (focus = "tree" => TreeInv)'
  <2> SUFFICES ASSUME focus = "tree" => TreeInv, [MCNext]_allVars, focus' = "tree"
               PROVE  TreeInv'
    OBVIOUS
  <2>1. focus = "tree" /\ [F!Next]_tree
    BY DEF MCNext, allVars
  <2>. QED  BY <2>1, TreeStep
<1>3. (focus = "tree" => TreeInv) => OneSpacePerTree
  <2> SUFFICES ASSUME TreeInv PROVE F!OneSpacePerTree
    BY DEF OneSpacePerTree
  <2>1. \A f \in Folder : F!Is(f) /\ folder[f].parent # Null => folder[folder[f].parent].space = folder[f].space
    BY DEF TreeInv, Rooted
  <2>2. \A x \in File : file[x] # Null => F!SpaceOf(file[x].folder) = file[x].home
    BY DEF TreeInv, Filed, F!SpaceOf
  <2>. QED  BY <2>1, <2>2 DEF F!OneSpacePerTree
<1>. QED  BY <1>1, <1>2, <1>3, PTL DEF MCSpec
===============================================================================
