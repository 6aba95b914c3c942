---------------------------- MODULE Quota_proofs ----------------------------
(***************************************************************************)
(* The storage caps hold for any number of uploads, users and teams, and   *)
(* whichever way each write is undone, but for the uploads checked while   *)
(* an undo hides the bytes it brings back; and without those the tables    *)
(* implement the abstract ledger.                                          *)
(***************************************************************************)
EXTENDS Quota, FiniteSetTheorems, TLAPS

(* Uploads that have passed the re-check of the owner's cap.               *)
Passed == {u \in Upload : pc[u] \in {"team check", "stored"}}

(* What a written upload and the bytes it replaces can rely on: neither    *)
(* leaves the tables while its request may still look at them, unless an   *)
(* undo has removed the version of the bytes and not yet put them back.    *)
Kept ==
  \A u \in Upload :
    pc[u] \in {"user check", "team check", "stored"} => u \in current \cup archived \cup Hidden

Busy(w) == pc[w] \in InFlight /\ target[w] # None

TargetKept ==
  \A w \in Upload :
    Busy(w) =>
      /\ pc[target[w]] = "stored"
      /\ pc[w] = "undo version" /\ w \in RowFirst => target[w] \in current
      /\ pc[w] # "undo version" /\ ~InGap(w) => target[w] \in archived

OneReplacer ==
  \A w, x \in Upload : Busy(w) /\ Busy(x) /\ target[w] = target[x] => w = x

NoEarlyTarget ==
  \A w \in Upload : /\ pc[w] \in {"idle", "pre team", "write"} => target[w] = None
                    /\ pc[w] = "overwrite" => target[w] # None

TableInv == TypeOK /\ Kept /\ TargetKept /\ OneReplacer /\ NoEarlyTarget

(* Those of them whose checks counted everything.                          *)
Clean == Passed \ slipped

PassedWithinCap ==
  \A o \in User : UserCap[o] > 0 =>
    Cardinality(BytesIn(OfUser(Clean, o))) <= UserCap[o]

---------------------------------------------------------------------------
(* The bytes of a set of uploads are finitely many, and more uploads have  *)
(* no fewer bytes.                                                         *)
LEMMA BytesFinite ==
  ASSUME NEW S \in SUBSET Upload
  PROVE  /\ IsFiniteSet(BytesIn(S))
         /\ Cardinality(BytesIn(S)) \in Nat
<1>1. BytesIn(S) \subseteq Byte
  BY QuotaAssumption DEF BytesIn
<1>2. IsFiniteSet(BytesIn(S))
  BY <1>1, QuotaAssumption, FS_Subset
<1> QED BY <1>2, FS_CardinalityType

LEMMA BytesMonotone ==
  ASSUME NEW T \in SUBSET Upload, NEW S \in SUBSET T
  PROVE  Cardinality(BytesIn(S)) <= Cardinality(BytesIn(T))
<1>1. BytesIn(S) \subseteq BytesIn(T)
  BY DEF BytesIn
<1> QED BY <1>1, BytesFinite, FS_Subset

LEMMA LessOverlap ==
  ASSUME NEW a \in Nat, NEW b \in Nat, NEW c \in Nat
  PROVE  a + b - c <= a + b
OBVIOUS

(* Bytes in either table are no more than the two tables' sums.            *)
LEMMA SumCounts ==
  ASSUME NEW A \in SUBSET Upload, NEW B \in SUBSET Upload, NEW S \in SUBSET (A \cup B)
  PROVE  Cardinality(BytesIn(S)) <= Cardinality(BytesIn(A)) + Cardinality(BytesIn(B))
<1>1. BytesIn(A \cup B) = BytesIn(A) \cup BytesIn(B)
  BY DEF BytesIn
<1>2. Cardinality(BytesIn(A) \cup BytesIn(B)) =
        Cardinality(BytesIn(A)) + Cardinality(BytesIn(B)) - Cardinality(BytesIn(A) \cap BytesIn(B))
  BY BytesFinite, FS_Union
<1>3. Cardinality(BytesIn(A) \cap BytesIn(B)) \in Nat
  <2>1. IsFiniteSet(BytesIn(A) \cap BytesIn(B))
    BY BytesFinite, FS_Subset
  <2> QED BY <2>1, FS_CardinalityType
<1>4. Cardinality(BytesIn(S)) <= Cardinality(BytesIn(A \cup B))
  BY BytesMonotone
<1>5. Cardinality(BytesIn(A)) \in Nat /\ Cardinality(BytesIn(B)) \in Nat
      /\ Cardinality(BytesIn(S)) \in Nat
  BY BytesFinite
<1>6. Cardinality(BytesIn(A \cup B)) \in Nat
  BY BytesFinite
<1>7. Cardinality(BytesIn(A \cup B)) <= Cardinality(BytesIn(A)) + Cardinality(BytesIn(B))
  BY <1>1, <1>2, <1>3, <1>5, LessOverlap
<1> QED BY <1>4, <1>5, <1>6, <1>7

---------------------------------------------------------------------------
(* Every step preserves TableInv.                                          *)

LEMMA NoneIsNoUpload == None \notin Upload
BY QuotaAssumption

(* What is hidden stays hidden but for an undo that ends.                  *)
LEMMA HiddenStays ==
  ASSUME \A w \in Upload : InGap(w) => InGap(w)' /\ target'[w] = target[w]
  PROVE  Hidden \subseteq Hidden'
BY DEF Hidden

LEMMA TargetIsUpload ==
  ASSUME TypeOK, NEW w \in Upload, target[w] # None
  PROVE  target[w] \in Upload
BY DEF TypeOK

LEMMA CheckTables ==
  ASSUME TableInv, NEW u \in Upload,
         PreCheckUser(u) \/ PreCheckTeam(u) \/ CheckUser(u) \/ CheckTeam(u)
  PROVE  TableInv'
<1> USE DEF TableInv
<1>1. /\ UNCHANGED <<target, current, archived>>
      /\ slipped' \subseteq Upload
      /\ UndoStart(u) = "undo row" => target[u] = None \/ u \in RowFirst
      /\ UndoStart(u) \in {"undo row", "undo version"}
  BY DEF PreCheckUser, PreCheckTeam, CheckUser, CheckTeam, UndoStart, Slips, TypeOK
<1>2. \/ pc[u] = "idle" /\ pc' = [pc EXCEPT ![u] = "rejected"]
      \/ pc[u] = "idle" /\ pc' = [pc EXCEPT ![u] = "pre team"]
      \/ pc[u] = "pre team" /\ pc' = [pc EXCEPT ![u] = "rejected"]
      \/ pc[u] = "pre team" /\ pc' = [pc EXCEPT ![u] = "write"]
      \/ pc[u] = "user check" /\ pc' = [pc EXCEPT ![u] = UndoStart(u)]
      \/ pc[u] = "user check" /\ pc' = [pc EXCEPT ![u] = "team check"]
      \/ pc[u] = "team check" /\ pc' = [pc EXCEPT ![u] = UndoStart(u)]
      \/ pc[u] = "team check" /\ pc' = [pc EXCEPT ![u] = "stored"]
  BY DEF PreCheckUser, PreCheckTeam, CheckUser, CheckTeam, Step
<1>3. TypeOK'
  BY <1>1, <1>2 DEF TypeOK, Point
<1>a. /\ \A w \in Upload : w # u => pc'[w] = pc[w] /\ target'[w] = target[w]
      /\ pc[u] \in {"idle", "pre team", "user check", "team check"}
      /\ pc'[u] \in {"rejected", "pre team", "write", "team check", "stored", "undo row",
                     "undo version"}
      /\ pc'[u] \in {"team check", "stored", "undo row", "undo version"} =>
           pc[u] \in {"user check", "team check"}
      /\ pc'[u] = "undo row" => target[u] = None \/ u \in RowFirst
      /\ pc'[u] = "undo version" => target[u] # None /\ u \notin RowFirst
  BY <1>1, <1>2 DEF TypeOK, UndoStart
<1>b. \A w \in Upload : InGap(w)' <=> InGap(w)
  BY <1>1, <1>a DEF InGap
<1>c. Hidden \subseteq Hidden'
  BY <1>1, <1>b, HiddenStays
<1>4. Kept'
  BY <1>1, <1>a, <1>c DEF Kept
<1>5. \A w \in Upload : Busy(w)' => Busy(w)
  BY <1>1, <1>a DEF Busy, InFlight, NoEarlyTarget
<1>6. TargetKept'
  <2> SUFFICES ASSUME NEW w \in Upload, Busy(w)'
               PROVE  /\ pc'[target'[w]] = "stored"
                      /\ pc'[w] = "undo version" /\ w \in RowFirst => target'[w] \in current'
                      /\ pc'[w] # "undo version" /\ ~InGap(w)' => target'[w] \in archived'
    BY DEF TargetKept
  <2>1. /\ Busy(w) /\ target[w] \in Upload /\ pc[target[w]] = "stored"
        /\ pc[w] = "undo version" /\ w \in RowFirst => target[w] \in current
        /\ pc[w] # "undo version" /\ ~InGap(w) => target[w] \in archived
    BY <1>5, TargetIsUpload DEF TargetKept, Busy
  <2>2. target[w] # u
    BY <1>a, <2>1
  <2>3. CASE w = u
    BY <1>1, <1>a, <1>b, <2>1, <2>2, <2>3
  <2>4. CASE w # u
    BY <1>1, <1>a, <1>b, <2>1, <2>2, <2>4
  <2> QED BY <2>3, <2>4
<1>7. OneReplacer'
  BY <1>1, <1>5 DEF OneReplacer
<1>8. NoEarlyTarget'
  BY <1>1, <1>2 DEF TypeOK, NoEarlyTarget
<1> QED BY <1>3, <1>4, <1>6, <1>7, <1>8

LEMMA InsertTables ==
  ASSUME TableInv, NEW u \in Upload, Insert(u)
  PROVE  TableInv'
<1> USE DEF TableInv, Insert, Step
<1>1. TypeOK'
  BY DEF TypeOK, Point
<1>a. \A w \in Upload : InGap(w)' <=> InGap(w)
  BY DEF TypeOK, InGap
<1>b. Hidden \subseteq Hidden'
  BY <1>a, HiddenStays
<1>2. Kept'
  BY <1>b DEF TypeOK, Kept
<1>3. \A w \in Upload : Busy(w)' => Busy(w) /\ w # u
  BY DEF TypeOK, Busy, InFlight, NoEarlyTarget
<1>4. TargetKept'
  <2> SUFFICES ASSUME NEW w \in Upload, Busy(w)'
               PROVE  /\ pc'[target'[w]] = "stored"
                      /\ pc'[w] = "undo version" /\ w \in RowFirst => target'[w] \in current'
                      /\ pc'[w] # "undo version" /\ ~InGap(w)' => target'[w] \in archived'
    BY DEF TargetKept
  <2>1. /\ w # u /\ Busy(w) /\ target[w] \in Upload /\ pc[target[w]] = "stored"
        /\ pc[w] = "undo version" /\ w \in RowFirst => target[w] \in current
        /\ pc[w] # "undo version" /\ ~InGap(w) => target[w] \in archived
    BY <1>3, TargetIsUpload DEF TargetKept, Busy
  <2> QED BY <1>a, <2>1 DEF TypeOK
<1>5. OneReplacer'
  BY <1>3 DEF OneReplacer
<1>6. NoEarlyTarget'
  BY DEF TypeOK, NoEarlyTarget
<1> QED BY <1>1, <1>2, <1>4, <1>5, <1>6

LEMMA ArchiveTables ==
  ASSUME TableInv, NEW u \in Upload, NEW r \in Upload, Archive(u, r)
  PROVE  TableInv'
<1> USE DEF TableInv, Archive, Step
<1>1. TypeOK'
  BY DEF TypeOK, Point
<1>3. \A w \in Upload : w # u => pc'[w] = pc[w] /\ target'[w] = target[w]
  BY DEF TypeOK
<1>4. /\ pc'[u] = "overwrite" /\ target'[u] = r /\ r # u /\ pc'[r] = "stored"
      /\ r \in archived'
  BY DEF TypeOK
<1>a. \A w \in Upload : (InGap(w)' <=> InGap(w)) /\ (InGap(w) => w # u)
  BY <1>3, <1>4 DEF InGap
<1>b. Hidden \subseteq Hidden'
  BY <1>3, <1>a, HiddenStays
<1>2. Kept'
  BY <1>b DEF TypeOK, Kept
<1>5. TargetKept'
  <2> SUFFICES ASSUME NEW w \in Upload, Busy(w)'
               PROVE  /\ pc'[target'[w]] = "stored"
                      /\ pc'[w] = "undo version" /\ w \in RowFirst => target'[w] \in current'
                      /\ pc'[w] # "undo version" /\ ~InGap(w)' => target'[w] \in archived'
    BY DEF TargetKept
  <2>1. CASE w = u
    BY <1>4, <2>1
  <2>2. CASE w # u
    <3>1. Busy(w)
      BY <1>3, <2>2 DEF Busy
    <3>2. /\ target[w] \in Upload /\ pc[target[w]] = "stored" /\ target[w] # u
          /\ pc[w] = "undo version" /\ w \in RowFirst => target[w] \in current
          /\ pc[w] # "undo version" /\ ~InGap(w) => target[w] \in archived
      BY <3>1, TargetIsUpload DEF TargetKept, Busy
    <3>3. pc'[w] = pc[w] /\ target'[w] = target[w] /\ pc'[target[w]] = pc[target[w]]
      BY <1>3, <2>2, <3>2
    <3>4. current' = current /\ archived \subseteq archived' /\ (InGap(w)' <=> InGap(w))
      BY <1>a
    <3> HIDE DEF Archive, Step
    <3> QED BY <3>2, <3>3, <3>4
  <2> QED BY <2>1, <2>2
<1>6. OneReplacer'
  BY <1>3, <1>4, NoneIsNoUpload DEF OneReplacer, Busy, Free
<1>7. NoEarlyTarget'
  BY NoneIsNoUpload DEF TypeOK, NoEarlyTarget
<1> QED BY <1>1, <1>2, <1>5, <1>6, <1>7

LEMMA OverwriteTables ==
  ASSUME TableInv, NEW u \in Upload, Overwrite(u)
  PROVE  TableInv'
<1> USE DEF TableInv, Overwrite, Step
<1>1. TypeOK'
  BY DEF TypeOK, Point
<1>2. Busy(u) /\ target[u] \in archived
  BY DEF Busy, InFlight, NoEarlyTarget, TargetKept, InGap
<1>a. \A w \in Upload : InGap(w)' <=> InGap(w)
  BY DEF TypeOK, InGap
<1>b. Hidden \subseteq Hidden'
  BY <1>a, HiddenStays
<1>3. Kept'
  BY <1>2, <1>b DEF TypeOK, Kept
<1>4. \A w \in Upload : Busy(w)' => Busy(w)
  BY <1>2 DEF TypeOK, Busy
<1>5. OneReplacer'
  BY <1>4 DEF OneReplacer
<1>6. TargetKept'
  <2> SUFFICES ASSUME NEW w \in Upload, Busy(w)'
               PROVE  /\ pc'[target'[w]] = "stored"
                      /\ pc'[w] = "undo version" /\ w \in RowFirst => target'[w] \in current'
                      /\ pc'[w] # "undo version" /\ ~InGap(w)' => target'[w] \in archived'
    BY DEF TargetKept
  <2>1. Busy(w) /\ target[w] # u /\ target[w] \in Upload
    BY <1>4, TargetIsUpload DEF Busy, TargetKept
  <2>2. CASE w = u
    BY <1>2, <2>1, <2>2 DEF TypeOK, TargetKept
  <2>3. CASE w # u
    <3>1. target[w] # target[u]
      BY <1>2, <2>1, <2>3 DEF OneReplacer
    <3> QED BY <1>a, <2>1, <2>3, <3>1 DEF TypeOK, TargetKept
  <2> QED BY <2>2, <2>3
<1>7. NoEarlyTarget'
  BY DEF TypeOK, NoEarlyTarget
<1> QED BY <1>1, <1>3, <1>5, <1>6, <1>7

LEMMA UndoRowTables ==
  ASSUME TableInv, NEW u \in Upload, UndoRow(u)
  PROVE  TableInv'
<1> USE DEF TableInv, UndoRow, Step
<1>1. TypeOK'
  BY DEF TypeOK, Point
<1>a. \A w \in Upload : w # u => pc'[w] = pc[w] /\ (InGap(w)' <=> InGap(w))
  BY DEF TypeOK, InGap
<1>b. Hidden \subseteq Hidden' \cup {target[u]}
  BY <1>a DEF Hidden
<1>2. Kept'
  <2> SUFFICES ASSUME NEW w \in Upload, pc'[w] \in {"user check", "team check", "stored"}
               PROVE  w \in current' \cup archived' \cup Hidden'
    BY DEF Kept
  <2>1. w # u /\ w \in current \cup archived \cup Hidden
    BY DEF TypeOK, Kept
  <2>2. w = target[u] => w \in current'
    BY NoneIsNoUpload
  <2> QED BY <1>b, <2>1, <2>2
<1>3. \A w \in Upload : Busy(w)' => Busy(w)
  BY DEF TypeOK, Busy, InFlight
<1>4. OneReplacer'
  BY <1>3 DEF OneReplacer
<1>5. \A w \in Upload : Busy(w) => target[w] # u
  BY DEF TargetKept
<1>6. TargetKept'
  <2> SUFFICES ASSUME NEW w \in Upload, Busy(w)'
               PROVE  /\ pc'[target'[w]] = "stored"
                      /\ pc'[w] = "undo version" /\ w \in RowFirst => target'[w] \in current'
                      /\ pc'[w] # "undo version" /\ ~InGap(w)' => target'[w] \in archived'
    BY DEF TargetKept
  <2>1. Busy(w) /\ target[w] # u /\ target[w] \in Upload /\ pc[target[w]] = "stored"
    BY <1>3, <1>5, TargetIsUpload DEF Busy, TargetKept
  <2>2. CASE w = u
    <3>1. pc'[u] = "undo version"
      BY <2>2 DEF TypeOK, Busy, InFlight
    <3> QED BY <2>1, <2>2, <3>1 DEF TypeOK, Busy
  <2>3. CASE w # u
    BY <1>a, <2>1, <2>3 DEF TypeOK, TargetKept
  <2> QED BY <2>2, <2>3
<1>7. NoEarlyTarget'
  BY DEF TypeOK, NoEarlyTarget
<1> QED BY <1>1, <1>2, <1>4, <1>6, <1>7

LEMMA UndoVersionTables ==
  ASSUME TableInv, NEW u \in Upload, UndoVersion(u)
  PROVE  TableInv'
<1> USE DEF TableInv, UndoVersion, Step
<1>1. TypeOK'
  BY DEF TypeOK, Point
<1>2. target[u] # None => Busy(u) /\ (u \in RowFirst => target[u] \in current)
  BY DEF Busy, InFlight, TargetKept
<1>a. \A w \in Upload : w # u => pc'[w] = pc[w] /\ (InGap(w)' <=> InGap(w))
  BY DEF TypeOK, InGap
<1>b. ~InGap(u) /\ (u \notin RowFirst /\ target[u] # None => InGap(u)')
  BY DEF TypeOK, InGap
<1>c. Hidden \subseteq Hidden'
  BY <1>a, <1>b, HiddenStays
<1>d. u \notin RowFirst /\ target[u] # None => target[u] \in Hidden'
  BY <1>b DEF Hidden
<1>3. Kept'
  <2> SUFFICES ASSUME NEW w \in Upload, pc'[w] \in {"user check", "team check", "stored"}
               PROVE  w \in current' \cup archived' \cup Hidden'
    BY DEF Kept
  <2>1. w # u /\ w \in current \cup archived \cup Hidden
    BY DEF TypeOK, Kept
  <2>2. w = target[u] => w \in current \/ w \in Hidden'
    BY <1>2, <1>d, NoneIsNoUpload
  <2> QED BY <1>c, <2>1, <2>2
<1>4. \A w \in Upload : Busy(w)' => Busy(w)
  BY DEF TypeOK, Busy, InFlight
<1>5. OneReplacer'
  BY <1>4 DEF OneReplacer
<1>6. TargetKept'
  <2> SUFFICES ASSUME NEW w \in Upload, Busy(w)'
               PROVE  /\ pc'[target'[w]] = "stored"
                      /\ pc'[w] = "undo version" /\ w \in RowFirst => target'[w] \in current'
                      /\ pc'[w] # "undo version" /\ ~InGap(w)' => target'[w] \in archived'
    BY DEF TargetKept
  <2>1. Busy(w) /\ target[w] # u /\ target[w] \in Upload /\ pc[target[w]] = "stored"
    BY <1>4, TargetIsUpload DEF Busy, TargetKept
  <2>2. CASE w = u
    <3>1. u \notin RowFirst
      BY <2>2 DEF TypeOK, Busy, InFlight
    <3> QED BY <1>b, <2>1, <2>2, <3>1 DEF TypeOK, Busy
  <2>3. CASE w # u
    <3>1. target[w] # target[u]
      BY <1>2, <2>1, <2>3 DEF OneReplacer, Busy
    <3> QED BY <1>a, <2>1, <2>3, <3>1 DEF TypeOK, TargetKept
  <2> QED BY <2>2, <2>3
<1>7. NoEarlyTarget'
  BY DEF TypeOK, NoEarlyTarget
<1> QED BY <1>1, <1>3, <1>5, <1>6, <1>7

LEMMA CutOffTables ==
  ASSUME TableInv, NEW u \in Upload, CutOff(u)
  PROVE  TableInv'
<1> USE DEF TableInv, CutOff
<1>1. TypeOK'
  BY DEF TypeOK, Point
<1>0. \A w \in Upload : pc'[w] = pc[w] \/ (w = u /\ pc'[w] = "cut off")
                           \/ (InGap(u) /\ w = target[u] /\ pc'[w] = "lost")
  OBVIOUS
<1>a. \A w \in Upload : InGap(w) => w = u \/ InGap(w)'
  <2> SUFFICES ASSUME NEW w \in Upload, InGap(w), w # u PROVE InGap(w)'
    OBVIOUS
  <2>1. pc[w] = "undo row"
    BY DEF InGap
  <2>2. InGap(u) => pc[target[u]] = "stored"
    BY DEF InGap, Busy, InFlight, TargetKept
  <2>3. pc'[w] = pc[w]
    BY <1>0, <2>1, <2>2
  <2> QED BY <2>3 DEF InGap
<1>b. Hidden \subseteq Hidden' \cup (IF InGap(u) THEN {target[u]} ELSE {})
  BY <1>a DEF Hidden
<1>2. Kept'
  <2> SUFFICES ASSUME NEW w \in Upload, pc'[w] \in {"user check", "team check", "stored"}
               PROVE  w \in current' \cup archived' \cup Hidden'
    BY DEF Kept
  <2>1. pc'[w] = pc[w] /\ ~(InGap(u) /\ w = target[u])
    BY <1>0
  <2>2. w \in current \cup archived \cup Hidden
    BY <2>1 DEF Kept
  <2> QED BY <1>b, <2>1, <2>2
<1>3. \A w \in Upload : Busy(w)' => Busy(w) /\ w # u /\ pc'[w] = pc[w]
  <2> SUFFICES ASSUME NEW w \in Upload, Busy(w)'
               PROVE  Busy(w) /\ w # u /\ pc'[w] = pc[w]
    OBVIOUS
  <2>1. pc'[w] \in InFlight /\ target[w] # None
    BY DEF Busy
  <2>2. pc'[w] = pc[w]
    BY <1>0, <2>1 DEF InFlight
  <2>3. w # u
    BY <2>1 DEF InFlight
  <2> QED BY <2>1, <2>2, <2>3 DEF Busy
<1>4. OneReplacer'
  BY <1>3 DEF OneReplacer
<1>6. TargetKept'
  <2> SUFFICES ASSUME NEW w \in Upload, Busy(w)'
               PROVE  /\ pc'[target'[w]] = "stored"
                      /\ pc'[w] = "undo version" /\ w \in RowFirst => target'[w] \in current'
                      /\ pc'[w] # "undo version" /\ ~InGap(w)' => target'[w] \in archived'
    BY DEF TargetKept
  <2>1. /\ Busy(w) /\ w # u /\ pc'[w] = pc[w] /\ target[w] \in Upload
        /\ pc[target[w]] = "stored"
    BY <1>3, TargetIsUpload DEF Busy, TargetKept
  <2>2. target[w] # u
    BY <2>1 DEF InFlight
  <2>3. InGap(u) => target[w] # target[u]
    BY <2>1 DEF InGap, Busy, InFlight, OneReplacer
  <2>4. pc'[target[w]] = "stored"
    BY <1>0, <2>1, <2>2, <2>3
  <2> QED BY <2>1, <2>4 DEF TargetKept, InGap
<1>7. NoEarlyTarget'
  <2> SUFFICES ASSUME NEW w \in Upload
               PROVE  /\ pc'[w] \in {"idle", "pre team", "write"} => target'[w] = None
                      /\ pc'[w] = "overwrite" => target'[w] # None
    BY DEF NoEarlyTarget
  <2>1. target' = target
    OBVIOUS
  <2> QED BY <1>0, <2>1 DEF NoEarlyTarget
<1> QED BY <1>1, <1>2, <1>4, <1>6, <1>7

LEMMA RemoveTables ==
  ASSUME TableInv, NEW u \in Upload, Remove(u)
  PROVE  TableInv'
<1> USE DEF TableInv, Remove, Step
<1>1. TypeOK'
  BY DEF TypeOK, Point
<1>a. \A w \in Upload : InGap(w)' <=> InGap(w)
  BY DEF TypeOK, InGap
<1>b. Hidden \subseteq Hidden'
  BY <1>a, HiddenStays
<1>2. Kept'
  BY <1>b DEF TypeOK, Kept
<1>3. \A w \in Upload : Busy(w)' => Busy(w) /\ w # u
  BY DEF TypeOK, Busy, InFlight
<1>4. OneReplacer'
  BY <1>3 DEF OneReplacer
<1>5. \A w \in Upload : Busy(w) => target[w] # u
  BY DEF Busy, Free
<1>6. TargetKept'
  <2> SUFFICES ASSUME NEW w \in Upload, Busy(w)'
               PROVE  /\ pc'[target'[w]] = "stored"
                      /\ pc'[w] = "undo version" /\ w \in RowFirst => target'[w] \in current'
                      /\ pc'[w] # "undo version" /\ ~InGap(w)' => target'[w] \in archived'
    BY DEF TargetKept
  <2>1. Busy(w) /\ w # u /\ target[w] # u /\ target[w] \in Upload
    BY <1>3, <1>5, TargetIsUpload DEF Busy
  <2> QED BY <1>a, <2>1 DEF TypeOK, TargetKept
<1>7. NoEarlyTarget'
  BY DEF TypeOK, NoEarlyTarget
<1> QED BY <1>1, <1>2, <1>4, <1>6, <1>7

LEMMA NextTables ==
  ASSUME TableInv, [Next]_vars
  PROVE  TableInv'
<1>1. CASE UNCHANGED vars
  BY <1>1 DEF vars, TableInv, TypeOK, Kept, TargetKept, OneReplacer, NoEarlyTarget, Busy,
              InGap, Hidden
<1>2. ASSUME NEW u \in Upload,
             PreCheckUser(u) \/ PreCheckTeam(u) \/ CheckUser(u) \/ CheckTeam(u)
      PROVE  TableInv'
  BY <1>2, CheckTables
<1>3. ASSUME NEW u \in Upload, Insert(u) \/ Overwrite(u) \/ (\E r \in Upload : Archive(u, r))
      PROVE  TableInv'
  BY <1>3, InsertTables, OverwriteTables, ArchiveTables
<1>4. ASSUME NEW u \in Upload, UndoRow(u) \/ UndoVersion(u)
      PROVE  TableInv'
  BY <1>4, UndoRowTables, UndoVersionTables
<1>5. ASSUME NEW u \in Upload, CutOff(u) \/ Remove(u)
      PROVE  TableInv'
  BY <1>5, CutOffTables, RemoveTables
<1> QED BY <1>1, <1>2, <1>3, <1>4, <1>5 DEF Next

---------------------------------------------------------------------------
(* The caps *)

(* What a passed check of the owner's cap says about the uploads that have *)
(* passed: they are all in the tables, so the sums it read cover them.     *)
LEMMA UserCheckCovers ==
  ASSUME TableInv, NEW o \in User, NEW S \in SUBSET (current \cup archived)
  PROVE  Cardinality(BytesIn(OfUser(S, o))) <= UserUsage(o)
<1>1. OfUser(S, o) \in SUBSET (OfUser(current, o) \cup OfUser(archived, o))
  BY DEF OfUser
<1>2. OfUser(current, o) \in SUBSET Upload /\ OfUser(archived, o) \in SUBSET Upload
  BY DEF OfUser, TableInv, TypeOK
<1> QED BY <1>1, <1>2, SumCounts DEF UserUsage

LEMMA TeamCheckCovers ==
  ASSUME TableInv, NEW t \in Team, NEW S \in SUBSET (current \cup archived)
  PROVE  Cardinality(BytesIn(OfTeam(S, t))) <= TeamUsage(t)
<1>1. OfTeam(S, t) \in SUBSET (OfTeam(current, t) \cup OfTeam(archived, t))
  BY DEF OfTeam
<1>2. OfTeam(current, t) \in SUBSET Upload /\ OfTeam(archived, t) \in SUBSET Upload
  BY DEF OfTeam, TableInv, TypeOK
<1> QED BY <1>1, <1>2, SumCounts DEF TeamUsage

LEMMA UsageType ==
  ASSUME TableInv
  PROVE  /\ \A o \in User : UserUsage(o) \in Nat
         /\ \A t \in Team : TeamUsage(t) \in Nat
<1>1. \A o \in User : OfUser(current, o) \in SUBSET Upload /\ OfUser(archived, o) \in SUBSET Upload
  BY DEF OfUser, TableInv, TypeOK
<1>2. \A t \in Team : OfTeam(current, t) \in SUBSET Upload /\ OfTeam(archived, t) \in SUBSET Upload
  BY DEF OfTeam, TableInv, TypeOK
<1> QED BY <1>1, <1>2, BytesFinite DEF UserUsage, TeamUsage

(* Uploads become clean by CheckUser alone, and only by one that counts    *)
(* all there is; every other step leaves the clean ones as they are or     *)
(* takes uploads away.                                                     *)
LEMMA CleanGrows ==
  ASSUME TableInv, [Next]_vars
  PROVE  \/ Clean' \subseteq Clean
         \/ \E u \in Upload :
              /\ pc[u] = "user check" /\ ~ UserOver(Owner[u])
              /\ OfUser(Hidden, Owner[u]) = {}
              /\ Clean' \subseteq Clean \cup {u}
<1> USE DEF TableInv
<1>1. CASE UNCHANGED vars
  BY <1>1 DEF vars, Passed, Clean
<1>2. ASSUME NEW u \in Upload, CheckUser(u)
      PROVE  \/ Clean' \subseteq Clean
             \/ /\ pc[u] = "user check" /\ ~ UserOver(Owner[u])
                /\ OfUser(Hidden, Owner[u]) = {}
                /\ Clean' \subseteq Clean \cup {u}
  <2>1. /\ pc[u] = "user check" /\ slipped \subseteq slipped'
        /\ OfUser(Hidden, Owner[u]) # {} => u \in slipped'
    BY <1>2 DEF CheckUser, Step, Slips
  <2>2. Passed' \subseteq Passed \cup {u} /\ (UserOver(Owner[u]) => Passed' \subseteq Passed)
    BY <1>2 DEF CheckUser, Step, UndoStart, Passed, TypeOK
  <2> QED BY <2>1, <2>2 DEF Clean
<1>p. ASSUME Passed' \subseteq Passed, slipped \subseteq slipped'
      PROVE  Clean' \subseteq Clean
  BY <1>p DEF Clean
<1>3. ASSUME NEW u \in Upload,
             PreCheckUser(u) \/ PreCheckTeam(u) \/ CheckTeam(u) \/ Insert(u) \/ Overwrite(u)
      PROVE  Clean' \subseteq Clean
  <2>1. slipped \subseteq slipped'
    BY <1>3 DEF PreCheckUser, PreCheckTeam, CheckTeam, Slips, Insert, Overwrite
  <2>2. Passed' \subseteq Passed
    BY <1>3 DEF PreCheckUser, PreCheckTeam, CheckTeam, UndoStart, Insert, Overwrite, Step,
                Passed, TypeOK
  <2> QED BY <1>p, <2>1, <2>2
<1>4. ASSUME NEW u \in Upload, NEW r \in Upload, Archive(u, r)
      PROVE  Clean' \subseteq Clean
  BY <1>4, <1>p DEF Archive, Step, Passed, TypeOK
<1>5. ASSUME NEW u \in Upload, UndoRow(u) \/ UndoVersion(u) \/ CutOff(u) \/ Remove(u)
      PROVE  Clean' \subseteq Clean
  BY <1>5, <1>p DEF UndoRow, UndoVersion, CutOff, Remove, Step, Passed, TypeOK
<1> QED BY <1>1, <1>2, <1>3, <1>4, <1>5 DEF Next

LEMMA CleanStep ==
  ASSUME TableInv, PassedWithinCap, [Next]_vars
  PROVE  PassedWithinCap'
<1>1. Clean' \in SUBSET Upload /\ Clean \in SUBSET Upload
  BY DEF Passed, Clean
<1>2. ASSUME NEW o \in User, UserCap[o] > 0, OfUser(Clean', o) \subseteq OfUser(Clean, o)
      PROVE  Cardinality(BytesIn(OfUser(Clean', o))) <= UserCap[o]
  <2>1. OfUser(Clean', o) \in SUBSET OfUser(Clean, o) /\ OfUser(Clean, o) \in SUBSET Upload
    BY <1>1, <1>2 DEF OfUser
  <2>2. Cardinality(BytesIn(OfUser(Clean', o))) <= Cardinality(BytesIn(OfUser(Clean, o)))
    BY <2>1, BytesMonotone
  <2>3. Cardinality(BytesIn(OfUser(Clean, o))) <= UserCap[o]
    BY <1>2 DEF PassedWithinCap
  <2>4. /\ Cardinality(BytesIn(OfUser(Clean', o))) \in Nat
        /\ Cardinality(BytesIn(OfUser(Clean, o))) \in Nat /\ UserCap[o] \in Nat
    BY <2>1, BytesFinite, QuotaAssumption
  <2> QED BY <2>2, <2>3, <2>4
<1>3. ASSUME NEW u \in Upload, pc[u] = "user check", ~ UserOver(Owner[u]),
             OfUser(Hidden, Owner[u]) = {}, Clean' \subseteq Clean \cup {u},
             NEW o \in User, UserCap[o] > 0
      PROVE  Cardinality(BytesIn(OfUser(Clean', o))) <= UserCap[o]
  <2>2. CASE o = Owner[u]
    <3>0. OfUser(Clean', o) \in SUBSET (current \cup archived)
      <4> SUFFICES ASSUME NEW w \in OfUser(Clean', o) PROVE w \in current \cup archived
        OBVIOUS
      <4>1. w \in Upload /\ Owner[w] = o /\ pc[w] \in {"user check", "team check", "stored"}
        BY <1>1, <1>3 DEF OfUser, Clean, Passed
      <4>2. w \in current \cup archived \cup Hidden
        BY <4>1 DEF TableInv, Kept
      <4>3. w \notin Hidden
        BY <1>3, <2>2, <4>1 DEF OfUser
      <4> QED BY <4>2, <4>3
    <3>1. Cardinality(BytesIn(OfUser(Clean', o))) <= UserUsage(o)
      <4>1. Cardinality(BytesIn(OfUser(OfUser(Clean', o), o))) <= UserUsage(o)
        BY <3>0, UserCheckCovers
      <4>2. OfUser(OfUser(Clean', o), o) = OfUser(Clean', o)
        BY DEF OfUser
      <4> QED BY <4>1, <4>2
    <3>2. UserUsage(o) \in Nat /\ UserCap[o] \in Nat
      BY UsageType, QuotaAssumption
    <3>a. ~ UserOver(o) /\ UserCap[o] > 0
      BY <1>3, <2>2
    <3>3. UserUsage(o) <= UserCap[o]
      BY <3>2, <3>a DEF UserOver
    <3>4. Cardinality(BytesIn(OfUser(Clean', o))) \in Nat
      <4>1. OfUser(Clean', o) \in SUBSET Upload
        BY <1>1 DEF OfUser
      <4> QED BY <4>1, BytesFinite
    <3> QED BY <3>1, <3>2, <3>3, <3>4
  <2>3. CASE o # Owner[u]
    <3>1. OfUser(Clean', o) \subseteq OfUser(Clean, o)
      BY <1>3, <2>3 DEF OfUser
    <3> QED BY <1>2, <1>3, <3>1
  <2> QED BY <2>2, <2>3
<1>4. CASE Clean' \subseteq Clean
  <2> SUFFICES ASSUME NEW o \in User, UserCap[o] > 0
               PROVE  Cardinality(BytesIn(OfUser(Clean', o))) <= UserCap[o]
    BY DEF PassedWithinCap, OfUser, BytesIn
  <2>1. OfUser(Clean', o) \subseteq OfUser(Clean, o)
    BY <1>4 DEF OfUser
  <2> QED BY <1>2, <2>1
<1>5. ASSUME NEW u \in Upload, pc[u] = "user check", ~ UserOver(Owner[u]),
             OfUser(Hidden, Owner[u]) = {}, Clean' \subseteq Clean \cup {u}
      PROVE  PassedWithinCap'
  <2> SUFFICES ASSUME NEW o \in User, UserCap[o] > 0
               PROVE  Cardinality(BytesIn(OfUser(Clean', o))) <= UserCap[o]
    BY DEF PassedWithinCap, OfUser, BytesIn
  <2> QED BY <1>3, <1>5
<1> QED BY <1>4, <1>5, CleanGrows

(* The same for the team's cap and the uploads that stand.                 *)
LEMMA VettedGrows ==
  ASSUME TableInv, [Next]_vars
  PROVE  \/ Vetted' = Vetted
         \/ \E u \in Upload : u \in Vetted /\ Vetted' = Vetted \ {u}
         \/ \E u \in Upload :
              /\ pc[u] = "team check" /\ u \notin slipped /\ ~ TeamOver(TeamOf[Owner[u]])
              /\ OfTeam(Hidden, TeamOf[Owner[u]]) = {}
              /\ u \notin Vetted /\ Vetted' = Vetted \cup {u}
<1> USE DEF TableInv
<1>1. CASE UNCHANGED vars
  BY <1>1 DEF vars, Stored, Vetted
<1>2. ASSUME NEW u \in Upload, CheckTeam(u)
      PROVE  \/ Vetted' = Vetted
             \/ /\ pc[u] = "team check" /\ u \notin slipped /\ ~ TeamOver(TeamOf[Owner[u]])
                /\ OfTeam(Hidden, TeamOf[Owner[u]]) = {}
                /\ u \notin Vetted /\ Vetted' = Vetted \cup {u}
  <2>1. /\ pc[u] = "team check" /\ u \notin Stored
        /\ IF OfTeam(Hidden, TeamOf[Owner[u]]) = {} THEN slipped' = slipped
           ELSE slipped' = slipped \cup {u}
    BY <1>2 DEF CheckTeam, Step, Slips, Stored
  <2>2. IF TeamOver(TeamOf[Owner[u]]) THEN Stored' = Stored ELSE Stored' = Stored \cup {u}
    BY <1>2 DEF CheckTeam, Step, UndoStart, Stored, TypeOK
  <2> QED BY <2>1, <2>2 DEF Vetted
<1>3. ASSUME NEW u \in Upload, CheckUser(u)
      PROVE  Vetted' = Vetted
  <2>1. u \notin Stored /\ slipped' \in {slipped, slipped \cup {u}}
    BY <1>3 DEF CheckUser, Step, Slips, Stored
  <2>2. Stored' = Stored
    BY <1>3 DEF CheckUser, UndoStart, Step, Stored, TypeOK
  <2> QED BY <2>1, <2>2 DEF Vetted
<1>4. ASSUME NEW u \in Upload,
             PreCheckUser(u) \/ PreCheckTeam(u) \/ Insert(u) \/ Overwrite(u)
      PROVE  Vetted' = Vetted
  BY <1>4 DEF PreCheckUser, PreCheckTeam, Insert, Overwrite, Step, Stored, Vetted, TypeOK
<1>5. ASSUME NEW u \in Upload, NEW r \in Upload, Archive(u, r)
      PROVE  Vetted' = Vetted
  BY <1>5 DEF Archive, Step, Stored, Vetted, TypeOK
<1>6. ASSUME NEW u \in Upload, UndoRow(u) \/ UndoVersion(u)
      PROVE  Vetted' = Vetted
  BY <1>6 DEF UndoRow, UndoVersion, Step, Stored, Vetted, TypeOK
<1>7. ASSUME NEW u \in Upload, CutOff(u)
      PROVE  Vetted' = Vetted \/ \E w \in Upload : w \in Vetted /\ Vetted' = Vetted \ {w}
  <2>1. pc[u] # "stored" /\ slipped' = slipped
    BY <1>7 DEF CutOff, InFlight
  <2>2. CASE ~InGap(u)
    <3>1. Stored' = Stored
      BY <1>7, <2>1, <2>2 DEF CutOff, Stored
    <3> QED BY <2>1, <3>1 DEF Vetted
  <2>3. CASE InGap(u)
    <3>1. target[u] \in Upload /\ pc[target[u]] = "stored"
      BY <2>3, TargetIsUpload DEF InGap, Busy, InFlight, TargetKept
    <3>2. Stored' = Stored \ {target[u]}
      BY <1>7, <2>1, <2>3 DEF CutOff, Stored
    <3> QED BY <2>1, <3>1, <3>2 DEF Vetted
  <2> QED BY <2>2, <2>3
<1>8. ASSUME NEW u \in Upload, Remove(u)
      PROVE  Vetted' = Vetted \/ (u \in Vetted /\ Vetted' = Vetted \ {u})
  <2>1. Stored' = Stored \ {u} /\ slipped' = slipped
    BY <1>8 DEF Remove, Step, Stored, TypeOK
  <2> QED BY <2>1 DEF Vetted
<1> QED BY <1>1, <1>2, <1>3, <1>4, <1>5, <1>6, <1>7, <1>8 DEF Next

LEMMA VettedStep ==
  ASSUME TableInv, FitsTeamCap, [Next]_vars
  PROVE  FitsTeamCap'
<1>1. Vetted' \in SUBSET Upload /\ Vetted \in SUBSET Upload
  BY DEF Stored, Vetted
<1>2. ASSUME NEW t \in Team, TeamCap[t] > 0, OfTeam(Vetted', t) \subseteq OfTeam(Vetted, t)
      PROVE  Cardinality(BytesIn(OfTeam(Vetted', t))) <= TeamCap[t]
  <2>1. OfTeam(Vetted', t) \in SUBSET OfTeam(Vetted, t) /\ OfTeam(Vetted, t) \in SUBSET Upload
    BY <1>1, <1>2 DEF OfTeam
  <2>2. Cardinality(BytesIn(OfTeam(Vetted', t))) <= Cardinality(BytesIn(OfTeam(Vetted, t)))
    BY <2>1, BytesMonotone
  <2>3. Cardinality(BytesIn(OfTeam(Vetted, t))) <= TeamCap[t]
    BY <1>2 DEF FitsTeamCap
  <2>4. /\ Cardinality(BytesIn(OfTeam(Vetted', t))) \in Nat
        /\ Cardinality(BytesIn(OfTeam(Vetted, t))) \in Nat /\ TeamCap[t] \in Nat
    BY <2>1, BytesFinite, QuotaAssumption
  <2> QED BY <2>2, <2>3, <2>4
<1>3. ASSUME NEW u \in Upload, pc[u] = "team check", ~ TeamOver(TeamOf[Owner[u]]),
             OfTeam(Hidden, TeamOf[Owner[u]]) = {}, Vetted' = Vetted \cup {u},
             NEW t \in Team, TeamCap[t] > 0
      PROVE  Cardinality(BytesIn(OfTeam(Vetted', t))) <= TeamCap[t]
  <2>2. CASE t = TeamOf[Owner[u]]
    <3>0. OfTeam(Vetted', t) \in SUBSET (current \cup archived)
      <4> SUFFICES ASSUME NEW w \in OfTeam(Vetted', t) PROVE w \in current \cup archived
        OBVIOUS
      <4>1. w \in Upload /\ TeamOf[Owner[w]] = t /\ pc[w] \in {"team check", "stored"}
        BY <1>1, <1>3 DEF OfTeam, Vetted, Stored
      <4>2. w \in current \cup archived \cup Hidden
        BY <4>1 DEF TableInv, Kept
      <4>3. w \notin Hidden
        BY <1>3, <2>2, <4>1 DEF OfTeam
      <4> QED BY <4>2, <4>3
    <3>1. Cardinality(BytesIn(OfTeam(Vetted', t))) <= TeamUsage(t)
      <4>1. Cardinality(BytesIn(OfTeam(OfTeam(Vetted', t), t))) <= TeamUsage(t)
        BY <3>0, TeamCheckCovers
      <4>2. OfTeam(OfTeam(Vetted', t), t) = OfTeam(Vetted', t)
        BY DEF OfTeam
      <4> QED BY <4>1, <4>2
    <3>2. TeamUsage(t) \in Nat /\ TeamCap[t] \in Nat
      BY UsageType, QuotaAssumption
    <3>a. ~ TeamOver(t) /\ TeamCap[t] > 0
      BY <1>3, <2>2
    <3>3. TeamUsage(t) <= TeamCap[t]
      BY <3>2, <3>a DEF TeamOver
    <3>4. Cardinality(BytesIn(OfTeam(Vetted', t))) \in Nat
      <4>1. OfTeam(Vetted', t) \in SUBSET Upload
        BY <1>1 DEF OfTeam
      <4> QED BY <4>1, BytesFinite
    <3> QED BY <3>1, <3>2, <3>3, <3>4
  <2>3. CASE t # TeamOf[Owner[u]]
    <3>1. OfTeam(Vetted', t) \subseteq OfTeam(Vetted, t)
      BY <1>3, <2>3 DEF OfTeam
    <3> QED BY <1>2, <1>3, <3>1
  <2> QED BY <2>2, <2>3
<1>4. CASE Vetted' \subseteq Vetted
  <2> SUFFICES ASSUME NEW t \in Team, TeamCap[t] > 0
               PROVE  Cardinality(BytesIn(OfTeam(Vetted', t))) <= TeamCap[t]
    BY DEF FitsTeamCap, OfTeam, BytesIn
  <2>1. OfTeam(Vetted', t) \subseteq OfTeam(Vetted, t)
    BY <1>4 DEF OfTeam
  <2> QED BY <1>2, <2>1
<1>5. ASSUME NEW u \in Upload, pc[u] = "team check", ~ TeamOver(TeamOf[Owner[u]]),
             OfTeam(Hidden, TeamOf[Owner[u]]) = {}, Vetted' = Vetted \cup {u}
      PROVE  FitsTeamCap'
  <2> SUFFICES ASSUME NEW t \in Team, TeamCap[t] > 0
               PROVE  Cardinality(BytesIn(OfTeam(Vetted', t))) <= TeamCap[t]
    BY DEF FitsTeamCap, OfTeam, BytesIn
  <2> QED BY <1>3, <1>5
<1> QED BY <1>4, <1>5, VettedGrows

LEMMA NothingStored == BytesIn({}) = {} /\ Cardinality({}) = 0
BY FS_EmptySet DEF BytesIn

LEMMA InitHolds == Init => TableInv /\ PassedWithinCap /\ FitsTeamCap
<1> SUFFICES ASSUME Init PROVE TableInv /\ PassedWithinCap /\ FitsTeamCap
  OBVIOUS
<1>1. TableInv
  BY DEF Init, TableInv, TypeOK, Point, Kept, TargetKept, OneReplacer, NoEarlyTarget, Busy
<1>2. Clean = {} /\ Vetted = {}
  BY DEF Init, Passed, Stored, Clean, Vetted
<1>3. PassedWithinCap
  <2>1. \A o \in User : OfUser(Clean, o) = {} /\ UserCap[o] \in Nat
    BY <1>2, QuotaAssumption DEF OfUser
  <2> QED BY <2>1, NothingStored DEF PassedWithinCap
<1>4. FitsTeamCap
  <2>1. \A t \in Team : OfTeam(Vetted, t) = {} /\ TeamCap[t] \in Nat
    BY <1>2, QuotaAssumption DEF OfTeam
  <2> QED BY <2>1, NothingStored DEF FitsTeamCap
<1> QED BY <1>1, <1>3, <1>4

LEMMA StandingFits ==
  ASSUME TableInv, PassedWithinCap
  PROVE  FitsUserCap
<1> SUFFICES ASSUME NEW o \in User, UserCap[o] > 0
             PROVE  Cardinality(BytesIn(OfUser(Vetted, o))) <= UserCap[o]
  BY DEF FitsUserCap
<1>1. OfUser(Vetted, o) \in SUBSET OfUser(Clean, o) /\ OfUser(Clean, o) \in SUBSET Upload
  BY DEF OfUser, Stored, Passed, Vetted, Clean
<1>2. Cardinality(BytesIn(OfUser(Vetted, o))) <= Cardinality(BytesIn(OfUser(Clean, o)))
  BY <1>1, BytesMonotone
<1>3. Cardinality(BytesIn(OfUser(Clean, o))) <= UserCap[o]
  BY DEF PassedWithinCap
<1>4. /\ Cardinality(BytesIn(OfUser(Vetted, o))) \in Nat
      /\ Cardinality(BytesIn(OfUser(Clean, o))) \in Nat /\ UserCap[o] \in Nat
  BY <1>1, BytesFinite, QuotaAssumption
<1> QED BY <1>2, <1>3, <1>4

---------------------------------------------------------------------------
(* Whichever way each write is undone and however many uploads race        *)
(* through the checks, the bytes that stand never exceed the owner's cap   *)
(* but by uploads checked while an undo of the owner's stood between its   *)
(* two statements.                                                         *)
THEOREM UserCapTheorem == Spec => []FitsUserCap
<1>1. Init => TableInv /\ PassedWithinCap
  BY InitHolds
<1>2. TableInv /\ PassedWithinCap /\ [Next]_vars => TableInv' /\ PassedWithinCap'
  BY NextTables, CleanStep
<1>3. TableInv /\ PassedWithinCap => FitsUserCap
  BY StandingFits
<1> QED BY <1>1, <1>2, <1>3, PTL DEF Spec

(* Nor, in the same way, the cap of the owner's team.                      *)
THEOREM TeamCapTheorem == Spec => []FitsTeamCap
<1>1. Init => TableInv /\ FitsTeamCap
  BY InitHolds
<1>2. TableInv /\ FitsTeamCap /\ [Next]_vars => TableInv' /\ FitsTeamCap'
  BY NextTables, VettedStep
<1> QED BY <1>1, <1>2, PTL DEF Spec

NothingSlipped == slipped = {}

(* Where every undo puts the row back first, nothing slips in and the      *)
(* claim holds as it is made.                                              *)
THEOREM RowFirstKeepsCap ==
  ASSUME RowFirst = Upload
  PROVE  Spec => []UserCapKept
<1>1. Init => TableInv /\ PassedWithinCap /\ NothingSlipped
  BY InitHolds DEF Init, NothingSlipped
<1>2. TableInv /\ PassedWithinCap /\ NothingSlipped /\ [Next]_vars
        => TableInv' /\ PassedWithinCap' /\ NothingSlipped'
  <2> SUFFICES ASSUME TableInv, PassedWithinCap, NothingSlipped, [Next]_vars
               PROVE  TableInv' /\ PassedWithinCap' /\ NothingSlipped'
    OBVIOUS
  <2>1. Hidden = {}
    BY DEF Hidden, InGap
  <2>2. \A u \in Upload : CheckUser(u) \/ CheckTeam(u) => slipped' = {}
    BY <2>1 DEF NothingSlipped, CheckUser, CheckTeam, Slips, OfUser, OfTeam
  <2>3. slipped' = {}
    BY <2>2 DEF NothingSlipped, Next, vars, PreCheckUser, PreCheckTeam, Insert, Archive,
                Overwrite, UndoRow, UndoVersion, CutOff, Remove
  <2> QED BY <2>3, NextTables, CleanStep DEF NothingSlipped
<1>3. TableInv /\ PassedWithinCap /\ NothingSlipped => UserCapKept
  BY StandingFits DEF FitsUserCap, UserCapKept, Vetted, NothingSlipped
<1> QED BY <1>1, <1>2, <1>3, PTL DEF Spec

(* Stored bytes are in one of the two tables at every moment of every undo *)
(* but for the statement after one that removes the version first.         *)
THEOREM CountedTheorem == Spec => []StoredIsCounted
<1>1. Init => TableInv
  BY InitHolds
<1>2. TableInv /\ [Next]_vars => TableInv'
  BY NextTables
<1>3. TableInv => StoredIsCounted
  BY DEF TableInv, Kept, Stored, StoredIsCounted
<1> QED BY <1>1, <1>2, <1>3, PTL DEF Spec

LEMMA SameCount ==
  ASSUME NEW S
  PROVE  Ledger!Cardinality(S) = Cardinality(S)
BY DEF Ledger!Cardinality, Cardinality

LEMMA SameTeamSum ==
  ASSUME NEW S, NEW t
  PROVE  Ledger!WithinTeamCap(S, t)
           <=> (TeamCap[t] > 0 => Cardinality(BytesIn(OfTeam(S, t))) <= TeamCap[t])
<1>1. Ledger!OfTeam(S, t) = OfTeam(S, t)
  BY DEF Ledger!OfTeam, OfTeam
<1>2. Ledger!BytesIn(OfTeam(S, t)) = BytesIn(OfTeam(S, t))
  BY DEF Ledger!BytesIn, BytesIn
<1> QED BY <1>1, <1>2, SameCount DEF Ledger!WithinTeamCap

LEMMA SameUserSum ==
  ASSUME NEW S, NEW o
  PROVE  Ledger!WithinUserCap(S, o)
           <=> (UserCap[o] > 0 => Cardinality(BytesIn(OfUser(S, o))) <= UserCap[o])
<1>1. Ledger!OfUser(S, o) = OfUser(S, o)
  BY DEF Ledger!OfUser, OfUser
<1>2. Ledger!BytesIn(OfUser(S, o)) = BytesIn(OfUser(S, o))
  BY DEF Ledger!BytesIn, BytesIn
<1> QED BY <1>1, <1>2, SameCount DEF Ledger!WithinUserCap

(* An upload that passes the team's check, too, is admitted to the ledger, *)
(* and a removed or a lost one is released; nothing else shows.            *)
LEMMA LedgerStep ==
  ASSUME TableInv, PassedWithinCap, FitsTeamCap, FitsTeamCap', [Next]_vars
  PROVE  [Ledger!Next]_Vetted
<1>1. CASE Vetted' = Vetted
  BY <1>1
<1>2. ASSUME NEW u \in Upload, u \in Vetted, Vetted' = Vetted \ {u}
      PROVE  Ledger!Next
  BY <1>2 DEF Ledger!Next, Ledger!Release
<1>3. ASSUME NEW u \in Upload, pc[u] = "team check", u \notin slipped, u \notin Vetted,
             Vetted' = Vetted \cup {u}
      PROVE  Ledger!Next
  <2>1. Ledger!WithinTeamCap(Vetted', TeamOf[Owner[u]])
    <3> DEFINE t == TeamOf[Owner[u]]
    <3>1. t \in Team
      BY QuotaAssumption
    <3>2. TeamCap[t] > 0 => Cardinality(BytesIn(OfTeam(Vetted', t))) <= TeamCap[t]
      BY <3>1 DEF FitsTeamCap
    <3> QED BY <3>2, SameTeamSum
  <2>2. Ledger!WithinUserCap(Vetted', Owner[u])
    <3> SUFFICES ASSUME UserCap[Owner[u]] > 0
                 PROVE  Cardinality(BytesIn(OfUser(Vetted', Owner[u]))) <= UserCap[Owner[u]]
      BY SameUserSum
    <3>1. Vetted' \subseteq Clean /\ Owner[u] \in User
      BY <1>3, QuotaAssumption DEF Passed, Stored, Vetted, Clean
    <3>2. OfUser(Vetted', Owner[u]) \in SUBSET OfUser(Clean, Owner[u])
          /\ OfUser(Clean, Owner[u]) \in SUBSET Upload
      BY <3>1 DEF OfUser, Passed, Clean
    <3>3. Cardinality(BytesIn(OfUser(Vetted', Owner[u]))) <= Cardinality(BytesIn(OfUser(Clean, Owner[u])))
      BY <3>2, BytesMonotone
    <3>4. Cardinality(BytesIn(OfUser(Clean, Owner[u]))) <= UserCap[Owner[u]]
      BY <3>1 DEF PassedWithinCap
    <3>5. /\ Cardinality(BytesIn(OfUser(Vetted', Owner[u]))) \in Nat
          /\ Cardinality(BytesIn(OfUser(Clean, Owner[u]))) \in Nat
          /\ UserCap[Owner[u]] \in Nat
      BY <3>1, <3>2, BytesFinite, QuotaAssumption
    <3> QED BY <3>3, <3>4, <3>5
  <2> QED BY <1>3, <2>1, <2>2 DEF Ledger!Next, Ledger!Admit
<1> QED BY <1>1, <1>2, <1>3, VettedGrows

(* But for the uploads that slip in, the tables implement the abstract     *)
(* ledger of StorageLedger.                                                *)
THEOREM LedgerTheorem == Spec => KeepsLedger
<1>1. Init => TableInv /\ PassedWithinCap /\ FitsTeamCap
  BY InitHolds
<1>2. TableInv /\ PassedWithinCap /\ FitsTeamCap /\ [Next]_vars
        => TableInv' /\ PassedWithinCap' /\ FitsTeamCap'
  BY NextTables, CleanStep, VettedStep
<1>3. Init => Ledger!Init
  BY DEF Init, Stored, Vetted, Ledger!Init
<1>4. TableInv /\ PassedWithinCap /\ FitsTeamCap /\ FitsTeamCap' /\ [Next]_vars => [Ledger!Next]_Vetted
  BY LedgerStep
<1> QED BY <1>1, <1>2, <1>3, <1>4, PTL DEF Spec, KeepsLedger, Ledger!Spec
=============================================================================
