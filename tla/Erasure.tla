------------------------------ MODULE Erasure -------------------------------
(***************************************************************************)
(* A file of a space-offering federation: its ciphertext is cut into k     *)
(* fragments and each is placed r times (federation/erasure.ts); reading   *)
(* it asks the holders in the order of the shards until there is a copy of *)
(* every fragment (federation/files.ts).  What a holder does with its copy *)
(* is PeerBlobs; here it answers or it does not.                           *)
(***************************************************************************)
EXTENDS Integers

CONSTANTS
  Shapes,  \* <<k, m, n>>: erasure_k, erasure_m and the length of a ciphertext,
           \* with 1 <= k <= m and 1 <= n
  Null

VARIABLES
  shape,     \* k, m and n of the file
  placed,    \* shards that have a row, by index: held here or by a peer
  step,      \* where the upload or the fetch stands
  next,      \* the shard it is at
  collected, \* shards the fetch has the bytes of
  refused,    \* shards whose holder gave it none
  out        \* what it returned

vars == <<shape, placed, step, next, collected, refused, out>>

k == shape[1]
n == shape[3]

CeilDiv(a, b) == (a + b - 1) \div b
Least(a, b) == IF a < b THEN a ELSE b

(* erasureConfig: m is read as k * r                                        *)
r == CeilDiv(shape[2], k)
Shards == 0..(k * r - 1)

(* A byte of the ciphertext is known by its position, the padding is Null.  *)
Data == [p \in 0..(n - 1) |-> p]
FragSize == CeilDiv(n, k)

(* encode                                                                   *)
Fragment(f) == [j \in 0..(FragSize - 1) |-> IF f * FragSize + j < n THEN f * FragSize + j ELSE Null]
Encode == [i \in Shards |-> Fragment(i \div r)]

(* Mutant: shards are counted over the fragments, not over the replicas.    *)
FragmentByCount(i) == i % k

FragmentOf(i) == i \div r

TypeOK ==
  /\ shape \in Shapes
  /\ placed \in [Shards -> {"none", "here", "peer"}]
  /\ step \in {"upload", "listed", "fetch", "bytes", "null", "throws"}
  /\ next \in 0..(k * r)
  /\ collected \in SUBSET Shards /\ refused \in SUBSET Shards
  /\ out \in [0..(n - 1) -> 0..(n - 1) \cup {Null}] \cup {Null}

Init ==
  /\ shape \in Shapes
  /\ placed = [i \in Shards |-> "none"]
  /\ step = "upload" /\ next = 0
  /\ collected = {} /\ refused = {} /\ out = Null

----------------------------------------------------------------------------
(* uploadSpaceOffering: each shard in turn, to a member of its own choice;  *)
(* one that nobody takes is only counted (short_by).                        *)
Place(where) ==
  /\ step = "upload" /\ next \in Shards
  /\ placed' = [placed EXCEPT ![next] = where]
  /\ next' = next + 1
  /\ UNCHANGED <<shape, step, collected, refused, out>>

List ==
  /\ step = "upload" /\ next \notin Shards
  /\ step' = "listed"
  /\ UNCHANGED <<shape, placed, next, collected, refused, out>>

(* A row goes with the shard it is for (PeerBlobs).                         *)
Lose(i) ==
  /\ step = "listed"
  /\ placed[i] # "none" /\ placed' = [placed EXCEPT ![i] = "none"]
  /\ UNCHANGED <<shape, step, next, collected, refused, out>>

(* fetchSpaceOffering: the rows are read once, before the first holder is   *)
(* asked.                                                                   *)
Fetch ==
  /\ step = "listed"
  /\ step' = "fetch" /\ next' = 0
  /\ UNCHANGED <<shape, placed, collected, refused, out>>

Seen == {FragmentOf(i) : i \in collected}
Collecting(i) == step = "fetch" /\ next = i /\ i \in Shards /\ Seen # 0..(k - 1)

Skip(i) ==
  /\ Collecting(i)
  /\ placed[i] = "none" \/ FragmentOf(i) \in Seen
  /\ next' = i + 1
  /\ UNCHANGED <<shape, placed, step, collected, refused, out>>

Ask(i) ==
  /\ Collecting(i)
  /\ placed[i] # "none" /\ FragmentOf(i) \notin Seen
  /\ next' = i + 1
  /\ UNCHANGED <<shape, placed, out>>
  /\ \/ collected' = collected \cup {i} /\ UNCHANGED <<refused, step>>
     \/ /\ refused' = refused \cup {i} /\ UNCHANGED collected
        /\ step' = IF placed[i] = "here" THEN "throws" ELSE step

(* decode: of each fragment the part that lies before the end is copied to  *)
(* its place.  subarray counts a negative end from the end of the fragment, *)
(* and set throws when the part would go past the end.                      *)
PartEnd(f) == Least(FragSize, n - f * FragSize)
PartSize(f) == IF PartEnd(f) >= 0 THEN PartEnd(f) ELSE IF FragSize + PartEnd(f) > 0 THEN FragSize + PartEnd(f) ELSE 0
Overruns == \E f \in 0..(k - 1) : f * FragSize + PartSize(f) > n

Copy(f) == Encode[CHOOSE i \in collected : FragmentOf(i) = f]
Decode == [p \in 0..(n - 1) |-> Copy(p \div FragSize)[p % FragSize]]

Assemble ==
  /\ step = "fetch"
  /\ UNCHANGED <<shape, placed, next, collected, refused>>
  /\ \/ /\ Seen = 0..(k - 1) /\ ~Overruns
        /\ step' = "bytes" /\ out' = Decode
     \/ /\ Seen = 0..(k - 1) /\ Overruns
        /\ step' = "throws" /\ UNCHANGED out
     \/ /\ Seen # 0..(k - 1) /\ next \notin Shards
        /\ step' = "null" /\ UNCHANGED out

Next ==
  \/ \E where \in {"none", "here", "peer"} : Place(where)
  \/ List \/ Fetch \/ Assemble
  \/ \E i \in Shards : Lose(i) \/ Skip(i) \/ Ask(i)

Spec == Init /\ [][Next]_vars

----------------------------------------------------------------------------
(* The last fragment begins within the ciphertext.                          *)
Fits == (k - 1) * FragSize <= n

(* The source's claim, that any one copy of each of the k fragments gives   *)
(* the ciphertext back (federation/erasure.ts:5), holds for a size that     *)
(* fits: whichever holders answer, a read then returns the ciphertext,      *)
(* nothing when it found every copy of some fragment missing, or throws     *)
(* when an object kept here is gone.  For a size that does not fit, 31 to   *)
(* 35 bytes cut in ten, say, the claim fails: no set of copies is ever      *)
(* read back, and decode throws with all of them collected                  *)
(* (federation/erasure.ts:93-97).                                           *)
AnyCopyDecodes ==
  /\ step = "bytes" => Fits /\ out = Data
  /\ step = "null" =>
       \E f \in 0..(k - 1) : \A i \in Shards : FragmentOf(i) = f => placed[i] = "none" \/ i \in refused
  /\ step = "throws" => \/ \E i \in refused : placed[i] = "here"
                        \/ ~Fits /\ Seen = 0..(k - 1)
=============================================================================
