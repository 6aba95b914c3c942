---------------------------- MODULE Uploads_proofs ----------------------------
(***************************************************************************)
(* Resumable uploads are sound for any sessions, requests, chunk sizes and *)
(* files.  Three invariants, each resting on the one before: a session is  *)
(* opened by one request (Born); what is staged, counted and assembled     *)
(* fits the client's file (Fitting); it is filed once (OnceInv).           *)
(***************************************************************************)
EXTENDS Uploads, FiniteSetTheorems, TLAPS

(* What a request holds: the sum of the promises it read is left open.      *)
Local(n) ==
  [at : Point, s : Session \cup {Null}, row : Row \cup {Null},
   part : Nat, piece : Nat, reserved : {n}, got : PartMap]

Typed ==
  /\ driver \in {"s3", "local"} /\ numbered \in BOOLEAN /\ minted \subseteq Session
  /\ row \in [Session -> Row \cup {Null}]
  /\ stage \in [Session -> {"none", "open", "closed"}]
  /\ parts \in [Session -> PartMap]
  /\ blob \in [Session -> PartMap \cup {Null}]
  /\ filed \in [Session -> Nat]
  /\ req = [p \in Process |-> req[p]]
  /\ \A p \in Process : req[p] \in Local(req[p].reserved)

(* Process p goes on with r for its local variables.                        *)
Goes(p, r) == r \in Local(r.reserved) /\ req' = [req EXCEPT ![p] = r]

(* As before but for the point it is at.                                    *)
Still(p, r) ==
  /\ r.s = req[p].s /\ r.row = req[p].row /\ r.part = req[p].part
  /\ r.piece = req[p].piece /\ r.got = req[p].got

(* Nothing staged is a map of parts.                                        *)
LEMMA EmptyIsMap == Empty \in PartMap /\ DOMAIN Empty = {}
<1>1. Empty = [i \in {} |-> i]
  BY DEF Empty
<1>2. [i \in {} |-> i] \in [{} -> Piece] /\ {} \in SUBSET Piece
  OBVIOUS
<1>. QED  BY <1>1, <1>2 DEF PartMap

(* Maps of parts are the functions from pieces to pieces.                   *)
LEMMA MapIs ==
  ASSUME NEW f PROVE f \in PartMap <=> \E S \in SUBSET Piece : f \in [S -> Piece]
BY DEF PartMap

(* A part is put into a map or replaced there.                              *)
LEMMA PutMap ==
  ASSUME NEW f \in PartMap, NEW i \in Piece, NEW x \in Piece
  PROVE  /\ Put(f, i, x) \in PartMap /\ DOMAIN Put(f, i, x) = DOMAIN f \cup {i}
         /\ Put(f, i, x)[i] = x
         /\ \A j \in DOMAIN f : j # i => Put(f, i, x)[j] = f[j]
<1>1. PICK S \in SUBSET Piece : f \in [S -> Piece]
  BY MapIs
<1>2. S \cup {i} \in SUBSET Piece /\ Put(f, i, x) \in [S \cup {i} -> Piece]
  BY <1>1 DEF Put
<1>. QED  BY <1>1, <1>2, MapIs DEF Put

(* Parts beyond the n-th are what is left of a map.                         *)
LEMMA BeyondMap ==
  ASSUME NEW f \in PartMap, NEW n
  PROVE  /\ Beyond(f, n) \in PartMap /\ DOMAIN Beyond(f, n) \subseteq DOMAIN f
         /\ \A j \in DOMAIN Beyond(f, n) : Beyond(f, n)[j] = f[j]
<1>1. PICK S \in SUBSET Piece : f \in [S -> Piece]
  BY MapIs
<1> DEFINE T == {i \in DOMAIN f : i > n}
<1>2. T \in SUBSET Piece /\ Beyond(f, n) \in [T -> Piece] /\ T \subseteq DOMAIN f
  BY <1>1 DEF Beyond, Restrict
<1>. QED  BY <1>1, <1>2, MapIs DEF Beyond, Restrict

(* A piece of a session's file is a piece.                                  *)
LEMMA PieceOf == \A s \in Session : 1..Pieces[s] \subseteq Piece /\ Pieces[s] \in Nat \ {0}
BY UploadsAssumption DEF Piece

(* The idle request holds nothing.                                          *)
LEMMA IdleTyped == Idle \in Local(Idle.reserved) /\ Idle.at = "idle" /\ Idle.s = Null
BY EmptyIsMap DEF Idle, Local, Point

(* Going on is typed, and leaves the other requests alone.                  *)
LEMMA GoesTyped ==
  ASSUME Typed, NEW p \in Process, NEW r, Goes(p, r)
  PROVE  /\ req' = [q \in Process |-> req'[q]] /\ req'[p] = r
         /\ \A q \in Process : q # p => req'[q] = req[q]
         /\ \A q \in Process : req'[q] \in Local(req'[q].reserved)
BY DEF Typed, Goes

(* The next point of a handler.                                             *)
LEMMA GoToGoes ==
  ASSUME Typed, NEW p \in Process, NEW at \in Point, GoTo(p, at)
  PROVE  \E r : Goes(p, r) /\ r.at = at /\ Still(p, r)
<1>1. PICK v \in Local(req[p].reserved) : v = req[p]
  BY DEF Typed
<1> DEFINE w == [v EXCEPT !.at = at]
<1>2. w \in Local(w.reserved) /\ w.at = at /\ w.s = v.s /\ w.row = v.row /\ w.part = v.part
      /\ w.piece = v.piece /\ w.got = v.got
  BY DEF Local
<1>3. req' = [req EXCEPT ![p] = w]
  BY <1>1 DEF GoTo, Becomes
<1> HIDE DEF w
<1>. QED  BY <1>1, <1>2, <1>3 DEF Goes, Still

(* A handler answers.                                                       *)
LEMMA AnswerGoes ==
  ASSUME Typed, NEW p \in Process, Answer(p)
  PROVE  Goes(p, Idle) /\ Idle.at = "idle" /\ Idle.s = Null
BY IdleTyped DEF Answer, Becomes, Goes

(* A handler begins with a snapshot of the session's row.                   *)
LEMMA BeginGoes ==
  ASSUME Typed, NEW p \in Process, NEW at \in Point, NEW s \in Session, Begin(p, at, s)
  PROVE  \E r : Goes(p, r) /\ r.at = at /\ r.s = s /\ r.row = row[s] /\ r.got = Empty
                /\ req[p].at = "idle"
<1>0. row[s] \in Row \cup {Null}
  BY DEF Typed
<1> DEFINE w == [Idle EXCEPT !.at = at, !.s = s, !.row = row[s]]
<1>1. w \in Local(w.reserved) /\ w.at = at /\ w.s = s /\ w.row = row[s] /\ w.got = Empty
  BY <1>0, EmptyIsMap DEF Local, Idle
<1>2. req' = [req EXCEPT ![p] = w] /\ req[p].at = "idle"
  BY DEF Begin, Becomes, Is
<1> HIDE DEF w
<1>. QED  BY <1>1, <1>2 DEF Goes

(* A chunk goes on to store the piece as the part after the ones received.  *)
LEMMA ChunkGoes ==
  ASSUME Typed, NEW h \in Process, NEW s \in Session, NEW c \in 1..Pieces[s], NEW n \in Nat \cup {Null},
         BeginChunk(h, s, c, n)
  PROVE  \E r : Goes(h, r) /\ r.at = "store" /\ r.s = s /\ r.row = row[s] /\ r.got = Empty
                /\ r.part = row[s].received + 1 /\ r.piece = c /\ req[h].at = "idle"
<1>0. row[s] \in Row /\ Part(s, n) = row[s].received + 1
  BY DEF Typed, BeginChunk, Active
<1>1. PICK part \in Nat : part = Part(s, n)
  BY <1>0 DEF Row
<1>2. c \in Nat
  BY PieceOf
<1> DEFINE w == [Idle EXCEPT !.at = "store", !.s = s, !.row = row[s], !.part = part, !.piece = c]
<1>3. w \in Local(w.reserved) /\ w.at = "store" /\ w.s = s /\ w.row = row[s] /\ w.part = part
      /\ w.piece = c /\ w.got = Empty
  BY <1>0, <1>2, EmptyIsMap DEF Local, Idle, Point
<1>4. req' = [req EXCEPT ![h] = w] /\ req[h].at = "idle"
  BY <1>1 DEF BeginChunk, Becomes, Is
<1> HIDE DEF w
<1>. QED  BY <1>0, <1>1, <1>3, <1>4 DEF Goes

(* The sum of the promises is read into the request.                        *)
LEMMA ReservedGoes ==
  ASSUME Typed, NEW h \in Process, ReadReserved(h)
  PROVE  \E r : Goes(h, r) /\ r.at = "room" /\ Still(h, r)
<1>1. PICK v \in Local(req[h].reserved) : v = req[h]
  BY DEF Typed
<1>2. PICK n : n = Reserved
  OBVIOUS
<1> DEFINE w == [v EXCEPT !.at = "room", !.reserved = n]
<1>3. w \in Local(w.reserved) /\ w.at = "room" /\ w.s = v.s /\ w.row = v.row /\ w.part = v.part
      /\ w.piece = v.piece /\ w.got = v.got
  BY DEF Local, Point
<1>4. req' = [req EXCEPT ![h] = w]
  BY <1>1, <1>2 DEF ReadReserved, Becomes
<1> HIDE DEF w
<1>. QED  BY <1>1, <1>3, <1>4 DEF Goes, Still

(* A part is fetched into the request.                                      *)
LEMMA FetchGoes ==
  ASSUME Typed, NEW h \in Process, req[h].s \in Session, FetchPart(h)
  PROVE  \E r : /\ Goes(h, r) /\ r.at = "fetch" /\ r.s = req[h].s /\ r.row = req[h].row
                /\ r.got = Put(req[h].got, Fetched(h) + 1, parts[req[h].s][Fetched(h) + 1])
                /\ Fetched(h) + 1 \in DOMAIN parts[req[h].s]
<1>1. PICK v \in Local(req[h].reserved) : v = req[h]
  BY DEF Typed
<1> DEFINE i == Fetched(h) + 1
<1>2. i \in DOMAIN parts[req[h].s] /\ parts[req[h].s] \in PartMap /\ req[h].at = "fetch"
  BY DEF Typed, FetchPart, Is
<1>3. i \in Piece /\ parts[req[h].s][i] \in Piece
  BY <1>2, MapIs
<1>4. PICK g \in PartMap : g = Put(v.got, i, parts[req[h].s][i])
  BY <1>3, PutMap DEF Local
<1> DEFINE w == [v EXCEPT !.got = g]
<1>5. w \in Local(w.reserved) /\ w.at = v.at /\ w.s = v.s /\ w.row = v.row /\ w.got = g
  BY DEF Local
<1>6. req' = [req EXCEPT ![h] = w]
  BY <1>1, <1>4 DEF FetchPart, Becomes
<1> HIDE DEF w
<1>. QED  BY <1>1, <1>2, <1>4, <1>5, <1>6 DEF Goes

Early == {"reserve", "room", "open"}

(* A session that is being opened is known to the one request that opens it. *)
Opening(p) ==
  req[p].at \in Early =>
    LET s == req[p].s IN
    /\ s \in minted /\ stage[s] = "none" /\ row[s] = Null /\ filed[s] = 0
    /\ \A q \in Process \ {p} : req[q].s # s

(* Of a session that is not minted nobody knows.                            *)
Unborn(s) ==
  s \notin minted =>
    /\ stage[s] = "none" /\ row[s] = Null /\ filed[s] = 0
    /\ \A p \in Process : req[p].s # s

Born == (\A p \in Process : Opening(p)) /\ \A s \in Session : Unborn(s)

Apart(p) ==
  \A s \in Session : s # req[p].s =>
    row'[s] = row[s] /\ stage'[s] = stage[s] /\ filed'[s] = filed[s]

(* A request that goes on with the session it has, or takes one that has a  *)
(* row, leaves those alone that are being opened and those not minted.      *)
LEMMA BornKept ==
  ASSUME Typed, Born, NEW p \in Process, NEW r, Goes(p, r), Apart(p), minted' = minted,
         r.s = req[p].s \/ r.s = Null \/ (r.s \in Session /\ row[r.s] # Null),
         r.at \in Early => /\ req[p].at \in Early /\ r.s = req[p].s
                           /\ UNCHANGED <<row, stage, filed>>
  PROVE  Born'
<1>1. /\ req'[p] = r /\ \A q \in Process : q # p => req'[q] = req[q]
  BY GoesTyped
<1>2. ASSUME NEW s \in Session, s \notin minted
      PROVE  Unborn(s)'
  <2>1. s # req[p].s /\ stage[s] = "none" /\ row[s] = Null /\ filed[s] = 0 /\ \A q \in Process : req[q].s # s
    BY <1>2 DEF Born, Unborn
  <2>2. s # r.s
    BY <2>1, UploadsAssumption
  <2>. QED  BY <1>1, <2>1, <2>2 DEF Apart, Unborn
<1>3. ASSUME NEW q \in Process, req'[q].at \in Early
      PROVE  Opening(q)'
  <2>1. CASE q = p
    <3>1. Opening(p) /\ req[p].at \in Early /\ r.s = req[p].s /\ UNCHANGED <<row, stage, filed>>
      BY <1>1, <1>3, <2>1 DEF Born
    <3>. QED  BY <1>1, <2>1, <3>1 DEF Opening
  <2>2. CASE q # p
    <3>1. Opening(q) /\ req'[q] = req[q]
      BY <1>1, <2>2 DEF Born
    <3> DEFINE s == req[q].s
    <3>2. /\ s \in minted /\ stage[s] = "none" /\ row[s] = Null /\ filed[s] = 0 /\ s \in Session /\ s # Null
          /\ \A o \in Process \ {q} : req[o].s # s
      BY <1>3, <3>1, UploadsAssumption DEF Opening, Typed
    <3>3. s # req[p].s /\ s # r.s
      BY <2>2, <3>2
    <3>4. stage'[s] = "none" /\ row'[s] = Null /\ filed'[s] = 0
      BY <3>2, <3>3 DEF Apart
    <3>. QED  BY <1>1, <3>1, <3>2, <3>3, <3>4 DEF Opening
  <2>. QED  BY <2>1, <2>2
<1>. QED  BY <1>2, <1>3 DEF Born, Unborn, Opening

(* Every step leaves at most one request opening a session.                 *)
LEMMA BornStep ==
  ASSUME Typed, Born, [Next]_vars, \A p \in Process : req[p].at # "idle" => req[p].s \in Session
  PROVE  Born'
<1> USE DEF Apart
<1>n. "idle" \notin Early /\ Null \notin Session
  BY UploadsAssumption DEF Early
<1>1. CASE UNCHANGED vars
  BY <1>1 DEF vars, Born, Opening, Unborn
<1>2. ASSUME NEW h \in Process, NEW s \in Session, BeginInit(h, s) PROVE Born'
  <2>1. PICK r : Goes(h, r) /\ r.at = "reserve" /\ r.s = s
    <3>1. "reserve" \in Point /\ Begin(h, "reserve", s)
      BY <1>2 DEF BeginInit, Point
    <3>. QED  BY <3>1, BeginGoes
  <2>2. req'[h] = r /\ \A q \in Process : q # h => req'[q] = req[q]
    BY <2>1, GoesTyped
  <2>3. /\ s \notin minted /\ minted' = minted \cup {s} /\ UNCHANGED <<row, stage, filed>>
        /\ stage[s] = "none" /\ row[s] = Null /\ filed[s] = 0 /\ \A q \in Process : req[q].s # s
    BY <1>2 DEF BeginInit, Born, Unborn
  <2>4. \A q \in Process : Opening(q)'
    BY <2>1, <2>2, <2>3 DEF Born, Opening
  <2>5. \A x \in Session : Unborn(x)'
    BY <2>1, <2>2, <2>3 DEF Born, Unborn
  <2>. QED  BY <2>4, <2>5 DEF Born
<1>3. ASSUME NEW h \in Process, ReadReserved(h) PROVE Born'
  <2>1. PICK r : Goes(h, r) /\ r.at = "room" /\ Still(h, r)
    BY <1>3, ReservedGoes
  <2>. QED  BY <1>3, <2>1, BornKept DEF ReadReserved, Is, Still, Early
<1>4. ASSUME NEW h \in Process, NEW at \in Point, GoTo(h, at), minted' = minted,
             \A s \in Session : s # req[h].s => row'[s] = row[s] /\ stage'[s] = stage[s] /\ filed'[s] = filed[s],
             at \in Early => req[h].at \in Early /\ UNCHANGED <<row, stage, filed>>
      PROVE  Born'
  <2>1. PICK r : Goes(h, r) /\ r.at = at /\ Still(h, r)
    BY <1>4, GoToGoes
  <2>. QED  BY <1>4, <2>1, BornKept DEF Still
<1>5. ASSUME NEW h \in Process, Answer(h), minted' = minted,
             \A s \in Session : s # req[h].s => row'[s] = row[s] /\ stage'[s] = stage[s] /\ filed'[s] = filed[s]
      PROVE  Born'
  BY <1>n, <1>5, AnswerGoes, BornKept
<1>6. ASSUME NEW h \in Process, CheckRoom(h) PROVE Born'
  BY <1>4, <1>5, <1>6 DEF CheckRoom, Is, Early, Point
<1>7. ASSUME NEW h \in Process, OpenStage(h) PROVE Born'
  BY <1>4, <1>7 DEF OpenStage, InitiateMultipart, Typed, Early, Point
<1>8. ASSUME NEW h \in Process, InsertSession(h) PROVE Born'
  BY <1>5, <1>8 DEF InsertSession, Typed
<1>9. ASSUME NEW h \in Process, NEW s \in Session, NEW at \in Point, Begin(h, at, s), at \notin Early,
             row[s] # Null, minted' = minted, UNCHANGED <<row, stage, filed>>
      PROVE  Born'
  <2>1. PICK r : Goes(h, r) /\ r.at = at /\ r.s = s
    BY <1>9, BeginGoes
  <2>. QED  BY <1>9, <2>1, BornKept
<1>10. ASSUME NEW h \in Process, NEW s \in Session, NEW c \in 1..Pieces[s], NEW n \in Nat \cup {Null},
              BeginChunk(h, s, c, n)
       PROVE  Born'
  <2>1. PICK r : Goes(h, r) /\ r.at = "store" /\ r.s = s
    BY <1>10, ChunkGoes
  <2>2. row[s] # Null /\ minted' = minted /\ UNCHANGED <<row, stage, filed>>
    BY <1>10 DEF BeginChunk, Active
  <2>. QED  BY <2>1, <2>2, BornKept DEF Early
<1>11. ASSUME NEW h \in Process, StorePart(h) PROVE Born'
  BY <1>4, <1>11 DEF StorePart, Early, Point
<1>12. ASSUME NEW h \in Process, SaveCursor(h) PROVE Born'
  BY <1>5, <1>12 DEF SaveCursor, Typed
<1>13. ASSUME NEW h \in Process, NEW s \in Session, BeginFinalize(h, s) PROVE Born'
  BY <1>9, <1>13 DEF BeginFinalize, Active, Early, Point
<1>14. ASSUME NEW h \in Process, NEW s \in Session, BeginRevoked(h, s) \/ BeginAbort(h, s) PROVE Born'
  BY <1>9, <1>14 DEF BeginRevoked, BeginAbort, Active, Early, Point
<1>15. ASSUME NEW h \in Process, CompleteMultipart(h) PROVE Born'
  BY <1>4, <1>15 DEF CompleteMultipart, Typed, Early, Point
<1>16. ASSUME NEW h \in Process, FetchPart(h) PROVE Born'
  <2>1. req[h].s \in Session
    BY <1>16 DEF FetchPart, Is
  <2>2. PICK r : Goes(h, r) /\ r.at = "fetch" /\ r.s = req[h].s
    BY <1>16, <2>1, FetchGoes
  <2>. QED  BY <1>16, <2>2, BornKept DEF FetchPart, Early
<1>17. ASSUME NEW h \in Process, PutMerged(h) \/ DropFails(h) PROVE Born'
  BY <1>4, <1>17 DEF PutMerged, DropFails, Early, Point
<1>18. ASSUME NEW h \in Process, DropParts(h) \/ DropStaged(h) PROVE Born'
  <2>1. GoTo(h, "file") \/ GoTo(h, "close")
    BY <1>18 DEF DropParts, DropStaged
  <2>2. minted' = minted /\ UNCHANGED <<row, filed>> /\ stage' = [stage EXCEPT ![req[h].s] = "closed"]
    BY <1>18 DEF DropParts, DropStaged
  <2>. QED  BY <1>4, <2>1, <2>2 DEF Typed, Early, Point
<1>19. ASSUME NEW h \in Process, File(h) \/ Refuse(h) PROVE Born'
  <2>1. /\ minted' = minted /\ UNCHANGED <<row, stage>> /\ GoTo(h, "close")
        /\ \A s \in Session : s # req[h].s => filed'[s] = filed[s]
    BY <1>19 DEF File, Refuse, Typed
  <2>. QED  BY <1>4, <2>1 DEF Early, Point
<1>20. ASSUME NEW h \in Process, CloseSession(h) \/ Interrupt(h) PROVE Born'
  <2>1. Answer(h) /\ minted' = minted /\ UNCHANGED <<stage, filed>>
        /\ \A s \in Session : s # req[h].s => row'[s] = row[s]
    BY <1>20 DEF CloseSession, Interrupt, Typed
  <2>. QED  BY <1>5, <2>1
<1>21. ASSUME NEW s \in Session, BeginSweep(s) PROVE Born'
  BY <1>9, <1>21 DEF BeginSweep, Process, Early, Point
<1>22. ASSUME NEW s \in Session, Expire(s) PROVE Born'
  <2>1. row[s] # Null /\ UNCHANGED <<minted, stage, filed, req>> /\ \A x \in Session : x # s => row'[x] = row[x]
    BY <1>22 DEF Expire, Active, Typed
  <2>2. \A q \in Process : Opening(q)'
    BY <2>1 DEF Born, Opening, Typed
  <2>3. \A x \in Session : Unborn(x)'
    BY <2>1 DEF Born, Unborn
  <2>. QED  BY <2>2, <2>3 DEF Born
<1>23. \A s \in Session : \A c \in 1..Pieces[s] : (IF numbered THEN c ELSE Null) \in Nat \cup {Null}
  BY PieceOf
<1>. QED
  BY <1>1, <1>2, <1>3, <1>6, <1>7, <1>8, <1>10, <1>11, <1>12, <1>13, <1>14, <1>15, <1>16, <1>17, <1>18,
     <1>19, <1>20, <1>21, <1>22, <1>23
  DEF Next, Continue, Arrive, Purge, Process

(* A map of parts that pieces of the file were taken for: each as long as   *)
(* the part, and the part itself if the client numbers its chunks.          *)
Suits(s, named, f) ==
  /\ f \in PartMap
  /\ \A i \in DOMAIN f : /\ i \in 1..Pieces[s] /\ f[i] \in 1..Pieces[s]
                         /\ Length(s, f[i]) = Length(s, i)
                         /\ named => f[i] = i

(* Where the n-th piece of a file ends.                                     *)
EndOf(s, n) == IF n = Pieces[s] THEN Total(s) ELSE n * ChunkSize

(* A row counts its parts, and over S3 lists them.                          *)
RowFits(s, named, over, r) ==
  /\ r \in Row /\ r.received \in 0..Pieces[s] /\ r.offset = EndOf(s, r.received)
  /\ Suits(s, named, r.etags)
  /\ over = "s3" => DOMAIN r.etags = 1..r.received

Staged(s, n) == stage[s] = "open" => 1..n \subseteq DOMAIN parts[s]

SessionFits(s) ==
  /\ Suits(s, numbered, parts[s])
  /\ row[s] # Null => RowFits(s, numbered, driver, row[s]) /\ Staged(s, row[s].received)
  /\ blob[s] # Null => Suits(s, numbered, blob[s]) /\ DOMAIN blob[s] = 1..Pieces[s]

(* What a request holds agrees with its session's file, and the parts it    *)
(* counts on are staged until somebody begins to drop them.                 *)
Holds(r) ==
  /\ r.at # "idle" => r.s \in Session
  /\ r.at \in {"store", "save"} =>
       /\ RowFits(r.s, numbered, driver, r.row)
       /\ r.part = r.row.received + 1 /\ r.part \in 1..Pieces[r.s] /\ r.piece \in 1..Pieces[r.s]
       /\ Length(r.s, r.piece) = Length(r.s, r.part)
       /\ numbered => r.piece = r.part
       /\ r.at = "store" => Staged(r.s, r.row.received)
       /\ r.at = "save" => Staged(r.s, r.part)
  /\ r.at \in {"complete", "fetch"} =>
       /\ RowFits(r.s, numbered, driver, r.row) /\ r.row.received = Pieces[r.s]
       /\ driver = IF r.at = "complete" THEN "s3" ELSE "local"
  /\ r.at = "drop parts" => driver = "local"
  /\ r.at = "fetch" =>
       Suits(r.s, numbered, r.got) /\ \E k \in 0..Pieces[r.s] : DOMAIN r.got = 1..k

Fitting ==
  /\ Typed
  /\ \A s \in Session : SessionFits(s)
  /\ \A p \in Process : Holds(req[p])

(* At the start there is no session.                                        *)
LEMMA FittingInit == Init => Fitting /\ Born
<1> SUFFICES ASSUME Init PROVE Fitting /\ Born
  OBVIOUS
<1>1. Typed
  BY EmptyIsMap, IdleTyped DEF Init, Typed
<1>2. \A s \in Session : SessionFits(s)
  BY EmptyIsMap DEF Init, SessionFits, Suits
<1>3. \A p \in Process : req[p].at = "idle" /\ req[p].s = Null
  BY IdleTyped DEF Init
<1>4. \A p \in Process : Holds(req[p])
  BY <1>3 DEF Holds
<1>5. Born
  BY <1>3, UploadsAssumption DEF Init, Born, Opening, Unborn, Early
<1>. QED  BY <1>1, <1>2, <1>4, <1>5 DEF Fitting

(* A piece may be put for a part it is as long as.                          *)
LEMMA PutSuits ==
  ASSUME NEW s \in Session, NEW f, Suits(s, numbered, f), NEW i \in 1..Pieces[s], NEW x \in 1..Pieces[s],
         Length(s, x) = Length(s, i), numbered => x = i
  PROVE  Suits(s, numbered, Put(f, i, x))
<1>1. i \in Piece /\ x \in Piece /\ f \in PartMap
  BY PieceOf DEF Suits
<1>2. /\ Put(f, i, x) \in PartMap /\ DOMAIN Put(f, i, x) = DOMAIN f \cup {i}
      /\ Put(f, i, x)[i] = x
      /\ \A j \in DOMAIN f : j # i => Put(f, i, x)[j] = f[j]
  BY <1>1, PutMap
<1> DEFINE g == Put(f, i, x)
<1> HIDE DEF g
<1>3. ASSUME NEW j \in DOMAIN g
      PROVE  /\ j \in 1..Pieces[s] /\ g[j] \in 1..Pieces[s]
             /\ Length(s, g[j]) = Length(s, j) /\ (numbered => g[j] = j)
  <2>1. CASE j = i
    BY <1>2, <2>1 DEF g
  <2>2. CASE j # i
    <3>1. j \in DOMAIN f /\ g[j] = f[j]
      BY <1>2, <1>3, <2>2 DEF g
    <3>. QED  BY <3>1 DEF Suits
  <2>. QED  BY <2>1, <2>2
<1>. QED  BY <1>2, <1>3 DEF Suits, g

(* And is the only one that may be new there.                               *)
LEMMA PutDomain == \A f, i, x : DOMAIN Put(f, i, x) = DOMAIN f \cup {i}
BY DEF Put

(* What is beyond the n-th part, and nothing, suits as well.                *)
LEMMA BeyondSuits ==
  ASSUME NEW s \in Session, NEW named, NEW f, Suits(s, named, f), NEW n
  PROVE  Suits(s, named, Beyond(f, n)) /\ Suits(s, named, Empty)
<1>1. f \in PartMap
  BY DEF Suits
<1>2. Suits(s, named, Empty)
  BY EmptyIsMap DEF Suits
<1> DEFINE g == Beyond(f, n)
<1>3. g \in PartMap /\ DOMAIN g \subseteq DOMAIN f /\ \A j \in DOMAIN g : g[j] = f[j]
  BY <1>1, BeyondMap
<1> HIDE DEF g
<1>4. Suits(s, named, g)
  BY <1>3 DEF Suits
<1>. QED  BY <1>2, <1>4 DEF g

(* Pieces have lengths, and n of them before the last end at a multiple.    *)
LEMMA Lengths ==
  ASSUME NEW s \in Session
  PROVE  /\ Pieces[s] \in Nat \ {0} /\ LastPiece[s] \in 1..ChunkSize /\ ChunkSize \in Nat \ {0}
         /\ Total(s) = (Pieces[s] - 1) * ChunkSize + LastPiece[s]
         /\ \A c \in 1..Pieces[s] : Length(s, c) \in 1..ChunkSize
         /\ Length(s, Pieces[s]) = LastPiece[s]
         /\ \A c \in 1..Pieces[s] : c # Pieces[s] => Length(s, c) = ChunkSize
BY UploadsAssumption DEF Total, Length

(* A chunk that the handler accepts is as long as the part it is taken for, *)
(* and ends where that part does.                                           *)
LEMMA ChunkFits ==
  ASSUME NEW s \in Session, NEW n \in 0..Pieces[s], NEW c \in 1..Pieces[s],
         EndOf(s, n) + Length(s, c) <= Total(s),
         EndOf(s, n) + Length(s, c) < Total(s) => Length(s, c) = ChunkSize
  PROVE  /\ n + 1 \in 1..Pieces[s] /\ Length(s, c) = Length(s, n + 1)
         /\ EndOf(s, n) + Length(s, c) = EndOf(s, n + 1)
<1>1. PICK P \in Nat \ {0}, C \in Nat \ {0}, L \in Nat \ {0} :
        /\ P = Pieces[s] /\ C = ChunkSize /\ L = LastPiece[s] /\ L <= C
        /\ Total(s) = (P - 1) * C + L
  BY Lengths
<1>2. PICK l \in Nat \ {0} : l = Length(s, c) /\ l <= C
  BY <1>1, Lengths
<1>3. n # P
  BY <1>1, <1>2 DEF EndOf
<1>4. n \in Nat /\ n < P /\ EndOf(s, n) = n * C /\ n * C \in Nat /\ (P - 1) * C \in Nat
  BY <1>1, <1>3 DEF EndOf
<1>5. n * C + l <= (P - 1) * C + L /\ (n * C + l < (P - 1) * C + L => l = C)
  BY <1>1, <1>2, <1>4
<1>6. CASE n + 1 = P
  <2>1. n = P - 1 /\ n * C = (P - 1) * C
    BY <1>4, <1>6
  <2>2. l = L
    BY <1>1, <1>2, <1>4, <1>5, <2>1
  <2>3. Length(s, n + 1) = L /\ EndOf(s, n + 1) = (P - 1) * C + L
    BY <1>1, <1>6, Lengths DEF EndOf
  <2>. QED  BY <1>1, <1>2, <1>4, <1>6, <2>1, <2>2, <2>3
<1>7. CASE n + 1 # P
  <2>1. n + 1 \in 1..P /\ n + 2 <= P /\ (n + 1) * C = n * C + C
    BY <1>4, <1>7
  <2>2. PICK m \in Nat : P - 1 = (n + 1) + m
    BY <2>1, <1>4
  <2>3. (P - 1) * C = (n + 1) * C + m * C /\ m * C \in Nat
    BY <1>4, <2>2
  <2>4. l = C
    BY <1>2, <1>4, <1>5, <2>1, <2>3
  <2>5. Length(s, n + 1) = C /\ EndOf(s, n + 1) = (n + 1) * C
    BY <1>1, <1>7, <2>1, Lengths DEF EndOf
  <2>. QED  BY <1>1, <1>2, <1>4, <2>1, <2>4, <2>5
<1>. QED  BY <1>6, <1>7

(* A row whose bytes are all there counts all the parts.                    *)
LEMMA AllReceived ==
  ASSUME NEW s \in Session, NEW n \in 0..Pieces[s], EndOf(s, n) >= Total(s)
  PROVE  n = Pieces[s]
<1>0. /\ Pieces[s] \in Nat \ {0} /\ LastPiece[s] \in 1..ChunkSize /\ ChunkSize \in Nat \ {0}
      /\ Total(s) = (Pieces[s] - 1) * ChunkSize + LastPiece[s]
  BY Lengths
<1>1. PICK P \in Nat \ {0}, C \in Nat \ {0}, L \in Nat \ {0} :
        P = Pieces[s] /\ C = ChunkSize /\ L = LastPiece[s] /\ L <= C
        /\ Total(s) = (P - 1) * C + L
  BY <1>0
<1>2. CASE n # P
  <2>1. n \in Nat /\ n < P /\ EndOf(s, n) = n * C
    BY <1>1, <1>2 DEF EndOf
  <2>2. PICK m \in Nat : P - 1 = n + m
    BY <2>1
  <2>3. (P - 1) * C = n * C + m * C /\ m * C \in Nat /\ n * C \in Nat
    BY <1>1, <2>1, <2>2
  <2>4. PICK a \in Nat, b \in Nat : a = n * C /\ b = m * C
    BY <2>3
  <2>5. a >= a + b + L
    BY <1>1, <2>1, <2>3, <2>4
  <2>. QED  BY <2>5
<1>. QED  BY <1>1, <1>2

(* What the other requests hold stays so when they stay where they are and  *)
(* no part goes away under an open upload.                                  *)
LEMMA OthersHold ==
  ASSUME Fitting, NEW p \in Process, NEW r, Goes(p, r), UNCHANGED <<driver, numbered>>,
         \A q \in Process : q # p /\ req[q].s \in Session =>
           LET s == req[q].s IN
           stage'[s] = "open" => stage[s] = "open" /\ DOMAIN parts[s] \subseteq DOMAIN parts'[s]
  PROVE  \A q \in Process : q # p => Holds(req[q])'
<1> SUFFICES ASSUME NEW q \in Process, q # p PROVE Holds(req[q])'
  OBVIOUS
<1>1. req'[q] = req[q] /\ Holds(req[q])
  BY GoesTyped DEF Fitting
<1>2. PICK v : v = req[q]
  OBVIOUS
<1>3. \A n : v.at # "idle" => (Staged(v.s, n) => Staged(v.s, n)')
  BY <1>1, <1>2 DEF Staged, Holds
<1>4. Holds(v)'
  <2>1. Holds(v)
    BY <1>1, <1>2
  <2>. QED  BY <1>3, <2>1 DEF Holds
<1>. QED  BY <1>1, <1>2, <1>4

(* The tables are typed if the one session that changes is.                 *)
TablesTyped ==
  /\ minted \subseteq Session
  /\ row \in [Session -> Row \cup {Null}]
  /\ stage \in [Session -> {"none", "open", "closed"}]
  /\ parts \in [Session -> PartMap]
  /\ blob \in [Session -> PartMap \cup {Null}]
  /\ filed \in [Session -> Nat]

(* The invariant lasts if the request's own session and values fit.         *)
LEMMA FittingKept ==
  ASSUME Fitting, NEW p \in Process, NEW r, Goes(p, r), UNCHANGED <<driver, numbered>>,
         TablesTyped', \A s \in Session : s = req[p].s => SessionFits(s)',
         \A s \in Session : s # req[p].s =>
           row'[s] = row[s] /\ stage'[s] = stage[s] /\ parts'[s] = parts[s] /\ blob'[s] = blob[s],
         \A q \in Process : q # p /\ req[q].s = req[p].s /\ req[p].s \in Session =>
           LET s == req[p].s IN
           stage'[s] = "open" => stage[s] = "open" /\ DOMAIN parts[s] \subseteq DOMAIN parts'[s],
         Holds(r)'
  PROVE  Fitting'
<1>1. Typed'
  BY GoesTyped DEF Fitting, Typed, TablesTyped
<1>2. ASSUME NEW s \in Session PROVE SessionFits(s)'
  <2>1. CASE s # req[p].s
    BY <2>1 DEF Fitting, SessionFits, Staged
  <2>. QED  BY <2>1
<1>3. \A q \in Process : q # p => Holds(req[q])'
  BY OthersHold
<1>4. Holds(req[p])'
  BY GoesTyped DEF Fitting
<1>. QED  BY <1>1, <1>2, <1>3, <1>4 DEF Fitting

(* ... and if it only goes on.                                              *)
LEMMA FittingGoes ==
  ASSUME Fitting, NEW p \in Process, NEW r, Goes(p, r), Holds(r),
         UNCHANGED <<driver, numbered, row, stage, parts, blob, filed>>, minted' \subseteq Session
  PROVE  Fitting'
<1>1. TablesTyped'
  BY DEF Fitting, Typed, TablesTyped
<1>2. \A s \in Session : SessionFits(s)'
  BY DEF Fitting, SessionFits, Staged
<1>3. Holds(r)'
  BY DEF Holds, Staged
<1>. QED  BY <1>1, <1>2, <1>3, FittingKept

(* A session whose row goes, or whose parts go with the upload, fits.       *)
LEMMA Dropped ==
  ASSUME Fitting, NEW p \in Process, NEW r, Goes(p, r), UNCHANGED <<driver, numbered, minted, filed>>,
         NEW s \in Session, req[p].s = s, Holds(r)',
         row' = row \/ row' = [row EXCEPT ![s] = Null],
         \/ UNCHANGED <<stage, parts>>
         \/ /\ stage' = [stage EXCEPT ![s] = "closed"]
            /\ parts' = [parts EXCEPT ![s] = Empty] \/ \E n : parts' = [parts EXCEPT ![s] = Beyond(@, n)],
         NEW b, blob' = blob \/ blob' = [blob EXCEPT ![s] = b],
         b = Null \/ (Suits(s, numbered, b) /\ DOMAIN b = 1..Pieces[s])
  PROVE  Fitting'
<1>t. /\ row \in [Session -> Row \cup {Null}] /\ stage \in [Session -> {"none", "open", "closed"}]
      /\ parts \in [Session -> PartMap] /\ blob \in [Session -> PartMap \cup {Null}] /\ minted \subseteq Session
      /\ filed \in [Session -> Nat]
  BY DEF Fitting, Typed
<1>s. SessionFits(s)
  BY DEF Fitting
<1>1. parts' \in [Session -> PartMap] /\ Suits(s, numbered, parts'[s])
      /\ \A x \in Session : x # s => parts'[x] = parts[x]
  <2>1. CASE parts' = parts
    BY <1>t, <1>s, <2>1 DEF SessionFits
  <2>2. CASE parts' = [parts EXCEPT ![s] = Empty]
    BY <1>t, <1>s, <2>2, BeyondSuits, EmptyIsMap DEF SessionFits
  <2>3. ASSUME NEW n, parts' = [parts EXCEPT ![s] = Beyond(@, n)]
        PROVE  parts' \in [Session -> PartMap] /\ Suits(s, numbered, parts'[s])
               /\ \A x \in Session : x # s => parts'[x] = parts[x]
    <3>1. Suits(s, numbered, Beyond(parts[s], n)) /\ Beyond(parts[s], n) \in PartMap
      <4>1. Suits(s, numbered, parts[s])
        BY <1>s DEF SessionFits
      <4>2. Suits(s, numbered, Beyond(parts[s], n))
        BY <4>1, BeyondSuits
      <4>. QED  BY <4>2 DEF Suits
    <3>. QED  BY <1>t, <2>3, <3>1
  <2>. QED  BY <2>1, <2>2, <2>3
<1>2. /\ row' \in [Session -> Row \cup {Null}] /\ (row'[s] = row[s] \/ row'[s] = Null)
      /\ \A x \in Session : x # s => row'[x] = row[x]
  BY <1>t
<1>3. /\ stage' \in [Session -> {"none", "open", "closed"}]
      /\ \A x \in Session : x # s => stage'[x] = stage[x]
      /\ stage'[s] = "open" => stage[s] = "open" /\ parts' = parts
  BY <1>t
<1>4. /\ blob' \in [Session -> PartMap \cup {Null}] /\ \A x \in Session : x # s => blob'[x] = blob[x]
      /\ blob'[s] # Null => Suits(s, numbered, blob'[s]) /\ DOMAIN blob'[s] = 1..Pieces[s]
  <2>1. CASE blob' = blob
    BY <1>t, <1>s, <2>1 DEF SessionFits
  <2>2. CASE blob' = [blob EXCEPT ![s] = b]
    <3>1. b \in PartMap \cup {Null}
      BY DEF Suits
    <3>. QED  BY <1>t, <2>2, <3>1
  <2>. QED  BY <2>1, <2>2
<1>5. SessionFits(s)'
  BY <1>s, <1>1, <1>2, <1>3, <1>4 DEF SessionFits, Staged
<1>6. TablesTyped'
  BY <1>t, <1>1, <1>2, <1>3, <1>4 DEF TablesTyped
<1>. QED  BY <1>1, <1>2, <1>3, <1>4, <1>5, <1>6, FittingKept

(* The part after the n-th ends where the next piece does.                  *)
LEMMA NextEnd ==
  ASSUME NEW s \in Session, NEW n \in Nat, n + 1 \in 1..Pieces[s]
  PROVE  EndOf(s, n) + Length(s, n + 1) = EndOf(s, n + 1) /\ EndOf(s, n + 1) \in Nat
<1>0. /\ Pieces[s] \in Nat \ {0} /\ LastPiece[s] \in 1..ChunkSize /\ ChunkSize \in Nat \ {0}
      /\ Total(s) = (Pieces[s] - 1) * ChunkSize + LastPiece[s]
      /\ Length(s, Pieces[s]) = LastPiece[s]
      /\ \A c \in 1..Pieces[s] : c # Pieces[s] => Length(s, c) = ChunkSize
  BY Lengths
<1>1. n # Pieces[s] /\ EndOf(s, n) = n * ChunkSize /\ n * ChunkSize \in Nat
  BY <1>0 DEF EndOf
<1>2. CASE n + 1 = Pieces[s]
  <2>1. PICK m \in Nat : m = Pieces[s] /\ n = m - 1
    BY <1>0, <1>2
  <2>2. n * ChunkSize = (Pieces[s] - 1) * ChunkSize
    BY <2>1
  <2>. QED  BY <1>0, <1>1, <1>2, <2>2 DEF EndOf
<1>3. CASE n + 1 # Pieces[s]
  <2>1. (n + 1) * ChunkSize = n * ChunkSize + ChunkSize
    BY <1>0
  <2>. QED  BY <1>0, <1>1, <1>3, <2>1 DEF EndOf
<1>. QED  BY <1>2, <1>3

(* Every step of a request keeps what is staged, counted and assembled fit. *)
LEMMA FittingStep ==
  ASSUME Fitting, Born, [Next]_vars
  PROVE  Fitting'
<1>t. /\ Typed /\ row \in [Session -> Row \cup {Null}] /\ stage \in [Session -> {"none", "open", "closed"}]
      /\ parts \in [Session -> PartMap] /\ blob \in [Session -> PartMap \cup {Null}] /\ minted \subseteq Session
      /\ filed \in [Session -> Nat] /\ driver \in {"s3", "local"}
  BY DEF Fitting, Typed
<1>n. Null \notin Session /\ Null \notin Row /\ Null \notin PartMap
  BY UploadsAssumption, NullIsNoValue
<1>h. /\ \A s \in Session : SessionFits(s)
      /\ \A p \in Process : Holds(req[p]) /\ (req[p].at # "idle" => req[p].s \in Session)
  BY DEF Fitting, Holds
<1>1. CASE UNCHANGED vars
  <2>1. \A s \in Session : SessionFits(s)'
    BY <1>1, <1>h DEF vars, SessionFits, Staged
  <2>2. \A p \in Process : Holds(req[p])'
    BY <1>1, <1>h DEF vars, Holds, Staged
  <2>3. Typed'
    BY <1>t, <1>1 DEF vars, Typed
  <2>. QED  BY <2>1, <2>2, <2>3 DEF Fitting
<1>2. ASSUME NEW h \in Process, NEW r, Goes(h, r), r.at = "idle" \/ r.s \in Session,
             r.at \notin {"store", "save", "complete", "fetch", "drop parts"},
             UNCHANGED <<driver, numbered, row, stage, parts, blob, filed>>, minted' \subseteq Session
      PROVE  Fitting'
  BY <1>2, FittingGoes DEF Holds
<1>3. ASSUME NEW h \in Process, NEW s \in Session, BeginInit(h, s) PROVE Fitting'
  <2>1. "reserve" \in Point /\ Begin(h, "reserve", s)
    BY <1>3 DEF BeginInit, Point
  <2>2. PICK r : Goes(h, r) /\ r.at = "reserve" /\ r.s = s
    BY <1>t, <2>1, BeginGoes
  <2>. QED  BY <1>2, <1>3, <1>t, <2>2 DEF BeginInit
<1>4. ASSUME NEW h \in Process, ReadReserved(h) PROVE Fitting'
  <2>1. PICK r : Goes(h, r) /\ r.at = "room" /\ Still(h, r)
    BY <1>4, <1>t, ReservedGoes
  <2>. QED  BY <1>2, <1>4, <1>t, <1>h, <2>1 DEF ReadReserved, Is, Still
<1>5. ASSUME NEW h \in Process, req[h].at # "idle", NEW at \in Point, GoTo(h, at),
             at \notin {"store", "save", "complete", "fetch", "drop parts"},
             UNCHANGED <<driver, numbered, row, stage, parts, blob, filed, minted>>
      PROVE  Fitting'
  <2>1. PICK r : Goes(h, r) /\ r.at = at /\ Still(h, r)
    BY <1>5, <1>t, GoToGoes
  <2>. QED  BY <1>2, <1>5, <1>t, <1>h, <2>1 DEF Still
<1>6. ASSUME NEW h \in Process, Answer(h),
             UNCHANGED <<driver, numbered, row, stage, parts, blob, filed, minted>>
      PROVE  Fitting'
  BY <1>2, <1>6, <1>t, AnswerGoes
<1>7. ASSUME NEW h \in Process, CheckRoom(h) PROVE Fitting'
  BY <1>5, <1>6, <1>7 DEF CheckRoom, Is, Point
<1>8. ASSUME NEW h \in Process, OpenStage(h) PROVE Fitting'
  <2>s. PICK s \in Session : s = req[h].s
    BY <1>h, <1>8 DEF OpenStage, Is
  <2>1. /\ req[h].at = "open" /\ s \in Session /\ stage[s] = "none" /\ row[s] = Null
        /\ \A q \in Process : q # h => req[q].s # s
    BY <2>s, <1>8, <1>h DEF OpenStage, Is, Born, Opening, Early
  <2>2. PICK r : Goes(h, r) /\ r.at = "insert" /\ r.s = s
    <3>1. "insert" \in Point /\ GoTo(h, "insert")
      BY <2>s, <1>8 DEF OpenStage, Point
    <3>. QED  BY <2>s, <1>t, <3>1, GoToGoes DEF Still
  <2>3. stage' = [stage EXCEPT ![s] = "open"] /\ UNCHANGED <<driver, numbered, minted, row, parts, blob, filed>>
    BY <2>s, <1>8 DEF OpenStage, InitiateMultipart
  <2>4. TablesTyped' /\ Holds(r)' /\ SessionFits(s)'
    BY <2>s, <1>t, <1>h, <2>1, <2>2, <2>3 DEF TablesTyped, Holds, SessionFits
  <2>. QED  BY <2>s, <1>t, <2>1, <2>2, <2>3, <2>4, FittingKept
<1>9. ASSUME NEW h \in Process, InsertSession(h) PROVE Fitting'
  <2>s. PICK s \in Session : s = req[h].s
    BY <1>h, <1>9 DEF InsertSession, Is
  <2> DEFINE v == [received |-> 0, offset |-> 0, etags |-> Empty, expired |-> FALSE]
  <2>1. /\ s \in Session /\ Goes(h, Idle) /\ row' = [row EXCEPT ![s] = v]
        /\ UNCHANGED <<driver, numbered, minted, stage, parts, blob, filed>>
    BY <2>s, <1>9, <1>h, <1>t, AnswerGoes DEF InsertSession, Is
  <2>2. RowFits(s, numbered, driver, v) /\ v \in Row /\ v.received = 0
    <3>1. Suits(s, numbered, Empty)
      BY <2>s, <1>h, <2>1, BeyondSuits DEF SessionFits
    <3>2. EndOf(s, 0) = 0 /\ 0 \in 0..Pieces[s]
      BY <2>s, <2>1, Lengths DEF EndOf
    <3>. QED  BY <2>s, <3>1, <3>2, EmptyIsMap DEF RowFits, Row
  <2> HIDE DEF v
  <2>3. SessionFits(s)'
    <3>1. row'[s] = v /\ stage'[s] = stage[s] /\ parts'[s] = parts[s] /\ blob'[s] = blob[s]
      BY <2>s, <1>t, <2>1
    <3>2. Staged(s, 0)'
      BY <2>s, <2>1 DEF Staged
    <3>. QED  BY <2>s, <1>h, <2>1, <2>2, <3>1, <3>2 DEF SessionFits
  <2>4. TablesTyped' /\ Holds(Idle)'
    BY <2>s, <1>t, <2>1, <2>2, IdleTyped DEF TablesTyped, Holds
  <2>. QED  BY <2>s, <1>t, <2>1, <2>3, <2>4, FittingKept
<1>10. ASSUME NEW h \in Process, NEW s \in Session, NEW c \in 1..Pieces[s],
              BeginChunk(h, s, c, IF numbered THEN c ELSE Null)
       PROVE  Fitting'
  <2> DEFINE n == IF numbered THEN c ELSE Null
  <2>0. n \in Nat \cup {Null} /\ BeginChunk(h, s, c, n)
    BY <1>10, PieceOf
  <2> HIDE DEF n
  <2>1. PICK r : /\ Goes(h, r) /\ r.at = "store" /\ r.s = s /\ r.row = row[s]
                 /\ r.part = row[s].received + 1 /\ r.piece = c
    BY <1>t, <2>0, ChunkGoes
  <2>2. /\ row[s] # Null /\ Part(s, n) = row[s].received + 1
        /\ row[s].offset + Length(s, c) <= Total(s)
        /\ row[s].offset + Length(s, c) < Total(s) => Length(s, c) = ChunkSize
        /\ UNCHANGED <<driver, numbered, minted, row, stage, parts, blob, filed>>
    BY <2>0 DEF BeginChunk, Active
  <2>3. RowFits(s, numbered, driver, row[s]) /\ Staged(s, row[s].received)
    BY <1>h, <2>2 DEF SessionFits
  <2>4. row[s].received + 1 \in 1..Pieces[s] /\ Length(s, c) = Length(s, row[s].received + 1)
    BY <2>2, <2>3, ChunkFits DEF RowFits
  <2>5. numbered => c = row[s].received + 1
    BY <1>n, <2>2, PieceOf, UploadsAssumption DEF Part, n
  <2>6. Holds(r)
    BY <2>1, <2>3, <2>4, <2>5 DEF Holds
  <2>. QED  BY <1>t, <2>1, <2>2, <2>6, FittingGoes
<1>11. ASSUME NEW h \in Process, StorePart(h) PROVE Fitting'
  <2>s. PICK s \in Session : s = req[h].s
    BY <1>h, <1>11 DEF StorePart, Is
  <2>1. PICK i \in 1..Pieces[s], c \in 1..Pieces[s] :
             /\ i = req[h].part /\ c = req[h].piece
             /\ RowFits(s, numbered, driver, req[h].row) /\ i = req[h].row.received + 1
             /\ Length(s, c) = Length(s, i) /\ (numbered => c = i)
             /\ Staged(s, req[h].row.received) /\ req[h].at = "store"
    BY <2>s, <1>11, <1>h DEF StorePart, Is, Holds
  <2>2. parts' = [parts EXCEPT ![s] = Put(parts[s], i, c)]
        /\ UNCHANGED <<driver, numbered, minted, row, stage, blob, filed>>
    BY <2>s, <2>1, <1>11 DEF StorePart, UploadPart
  <2>3. Suits(s, numbered, Put(parts[s], i, c)) /\ DOMAIN Put(parts[s], i, c) = DOMAIN parts[s] \cup {i}
    <3>1. Suits(s, numbered, parts[s])
      BY <1>h DEF SessionFits
    <3>2. Suits(s, numbered, Put(parts[s], i, c))
      BY <2>1, <3>1, PutSuits, Zenon
    <3>. QED  BY <3>2, PutDomain
  <2>4. PICK r : Goes(h, r) /\ r.at = "save" /\ Still(h, r)
    <3>1. "save" \in Point /\ GoTo(h, "save")
      BY <2>s, <1>11 DEF StorePart, Point
    <3>. QED  BY <2>s, <1>t, <3>1, GoToGoes
  <2>5. Put(parts[s], i, c) \in PartMap
    BY <2>s, <2>3 DEF Suits
  <2>6. /\ parts'[s] = Put(parts[s], i, c) /\ DOMAIN parts[s] \subseteq DOMAIN parts'[s]
        /\ parts' \in [Session -> PartMap] /\ \A x \in Session : x # s => parts'[x] = parts[x]
    BY <2>s, <1>t, <2>1, <2>2, <2>3, <2>5
  <2>7. Staged(s, i)'
    <3>1. 1..i \subseteq (1..req[h].row.received) \cup {i}
      BY <2>s, <2>1 DEF RowFits, Row
    <3>. QED  BY <2>s, <2>1, <2>2, <2>3, <2>6, <3>1 DEF Staged
  <2>8. Holds(r)'
    BY <2>s, <2>1, <2>2, <2>4, <2>7 DEF Holds, Still
  <2>9. SessionFits(s)'
    BY <2>s, <1>h, <2>1, <2>2, <2>3, <2>6 DEF SessionFits, Staged
  <2>10. TablesTyped'
    BY <2>s, <1>t, <2>2, <2>6 DEF TablesTyped
  <2>. QED  BY <2>s, <2>2, <2>4, <2>6, <2>8, <2>9, <2>10, FittingKept
<1>12. ASSUME NEW h \in Process, SaveCursor(h) PROVE Fitting'
  <2>s. PICK s \in Session : s = req[h].s
    BY <1>h, <1>12 DEF SaveCursor, Is
  <2>1. PICK i \in 1..Pieces[s], c \in 1..Pieces[s], old \in Row :
             /\ i = req[h].part /\ c = req[h].piece /\ old = req[h].row
             /\ RowFits(s, numbered, driver, old) /\ i = old.received + 1
             /\ Length(s, c) = Length(s, i) /\ (numbered => c = i) /\ Staged(s, i)
    BY <2>s, <1>12, <1>h DEF SaveCursor, Is, Holds, RowFits
  <2>2. /\ Goes(h, Idle) /\ UNCHANGED <<driver, numbered, minted, stage, parts, blob, filed>>
        /\ row' = [row EXCEPT ![s] = IF @ = Null THEN Null ELSE Saved(h, @)]
    BY <2>s, <1>12, <1>t, AnswerGoes DEF SaveCursor
  <2>3. CASE row[s] = Null
    <3>1. row' = row
      BY <2>s, <1>t, <2>2, <2>3
    <3>. QED  BY <2>s, <1>2, <1>t, <2>2, <3>1, IdleTyped
  <2>4. CASE row[s] # Null
    <3>1. PICK v \in Row : v = row[s]
      BY <2>s, <1>t, <2>1, <2>4
    <3>2. PICK e \in PartMap : e = Etags(h) /\ Suits(s, numbered, e) /\ (driver = "s3" => DOMAIN e = 1..i)
      <4>1. CASE driver = "s3"
        <5>1. Suits(s, numbered, Put(old.etags, i, c)) /\ DOMAIN Put(old.etags, i, c) = (1..old.received) \cup {i}
          <6>1. Suits(s, numbered, old.etags) /\ DOMAIN old.etags = 1..old.received
            BY <2>1, <4>1 DEF RowFits
          <6>2. PICK f : f = old.etags
            OBVIOUS
          <6>3. Suits(s, numbered, f) /\ DOMAIN f = 1..old.received
            BY <6>1, <6>2
          <6>4. Suits(s, numbered, Put(f, i, c)) /\ DOMAIN Put(f, i, c) = DOMAIN f \cup {i}
            <7>1. Suits(s, numbered, Put(f, i, c))
              BY <2>1, <6>3, PutSuits, Zenon
            <7>. QED  BY <7>1, PutDomain
          <6>. QED  BY <6>2, <6>3, <6>4
        <5>2. 1..i = (1..old.received) \cup {i}
          BY <2>s, <2>1 DEF RowFits, Row
        <5>3. Put(old.etags, i, c) \in PartMap
          BY <2>s, <5>1 DEF Suits
        <5>. QED  BY <2>s, <2>1, <4>1, <5>1, <5>2, <5>3 DEF Etags
      <4>2. CASE driver # "s3"
        BY <2>s, <2>1, <4>2 DEF Etags, RowFits, Suits
      <4>. QED  BY <2>s, <4>1, <4>2
    <3>3. PICK m \in Nat, o \in Nat : m = i /\ o = old.offset + Length(s, c) /\ o = EndOf(s, i)
      BY <2>s, <2>1, NextEnd DEF RowFits, Row
    <3> DEFINE w == [v EXCEPT !.received = m, !.offset = o, !.etags = e]
    <3>4. w \in Row /\ w.received = m /\ w.offset = o /\ w.etags = e
      BY <2>s DEF Row
    <3>5. row' = [row EXCEPT ![s] = w]
      BY <2>s, <1>n, <2>1, <2>2, <2>4, <3>1, <3>2, <3>3 DEF Saved
    <3> HIDE DEF w
    <3>6. RowFits(s, numbered, driver, w)
      BY <2>s, <2>1, <3>2, <3>3, <3>4 DEF RowFits
    <3>7. row'[s] = w /\ TablesTyped' /\ \A x \in Session : x # s => row'[x] = row[x]
      BY <2>s, <1>t, <2>1, <2>2, <3>4, <3>5 DEF TablesTyped
    <3>8. SessionFits(s)'
      BY <2>s, <1>h, <2>1, <2>2, <3>3, <3>4, <3>6, <3>7 DEF SessionFits, Staged
    <3>9. Holds(Idle)'
      BY <2>s, IdleTyped DEF Holds
    <3>. QED  BY <2>s, <2>1, <2>2, <3>7, <3>8, <3>9, FittingKept
  <2>. QED  BY <2>s, <2>3, <2>4
<1>13. ASSUME NEW h \in Process, NEW s \in Session, BeginFinalize(h, s) PROVE Fitting'
  <2> DEFINE at == IF driver = "s3" THEN "complete" ELSE "fetch"
  <2>1. at \in Point /\ Begin(h, at, s) /\ row[s] # Null /\ row[s].offset >= Total(s)
        /\ UNCHANGED <<driver, numbered, minted, row, stage, parts, blob, filed>>
    BY <1>13 DEF BeginFinalize, Active, Complete, Point
  <2>2. PICK r : Goes(h, r) /\ r.at = at /\ r.s = s /\ r.row = row[s] /\ r.got = Empty
    BY <1>t, <2>1, BeginGoes
  <2>3. RowFits(s, numbered, driver, row[s]) /\ Suits(s, numbered, Empty)
    BY <1>h, <2>1, BeyondSuits DEF SessionFits
  <2>4. row[s].received = Pieces[s]
    BY <2>1, <2>3, AllReceived DEF RowFits
  <2>5. DOMAIN Empty = 1..0 /\ 0 \in 0..Pieces[s]
    BY EmptyIsMap, PieceOf
  <2>6. Holds(r)
    BY <1>t, <2>2, <2>3, <2>4, <2>5 DEF Holds
  <2>. QED  BY <1>t, <2>1, <2>2, <2>6, FittingGoes
<1>14. ASSUME NEW h \in Process, NEW s \in Session, Begin(h, "purge", s),
              UNCHANGED <<driver, numbered, minted, row, stage, parts, blob, filed>>
       PROVE  Fitting'
  <2>1. "purge" \in Point
    BY DEF Point
  <2>2. PICK r : Goes(h, r) /\ r.at = "purge" /\ r.s = s
    BY <1>14, <1>t, <2>1, BeginGoes
  <2>. QED  BY <1>2, <1>14, <1>t, <2>2
<1>15. ASSUME NEW h \in Process, req[h].at # "idle", NEW at \in {"file", "close", "drop parts"}, GoTo(h, at),
              at = "drop parts" => driver = "local"
       PROVE  \E r : Goes(h, r) /\ r.s = req[h].s /\ (UNCHANGED <<driver, numbered>> => Holds(r)')
  <2>1. at \in Point
    BY DEF Point
  <2>2. PICK r : Goes(h, r) /\ r.at = at /\ Still(h, r)
    BY <1>15, <1>t, <2>1, GoToGoes
  <2>3. UNCHANGED <<driver, numbered>> => Holds(r)'
    BY <1>h, <1>15, <2>2 DEF Holds, Still
  <2>. QED  BY <2>2, <2>3 DEF Still
<1>16. ASSUME NEW h \in Process, CompleteMultipart(h) PROVE Fitting'
  <2>s. PICK s \in Session : s = req[h].s
    BY <1>h, <1>16 DEF CompleteMultipart, Is
  <2> DEFINE b == Listed(h)
  <2>1. /\ s \in Session /\ Suits(s, numbered, b) /\ DOMAIN b = 1..Pieces[s]
        /\ req[h].at = "complete" /\ GoTo(h, "file")
    BY <2>s, <1>16, <1>h DEF CompleteMultipart, Is, Holds, RowFits, Listed
  <2>2. PICK r : Goes(h, r) /\ r.s = s /\ (UNCHANGED <<driver, numbered>> => Holds(r)')
    BY <2>s, <1>15, <2>1
  <2>3. /\ UNCHANGED <<driver, numbered, minted, filed, row>> /\ stage' = [stage EXCEPT ![s] = "closed"]
        /\ parts' = [parts EXCEPT ![s] = Empty] /\ blob' = [blob EXCEPT ![s] = b]
    BY <2>s, <1>16 DEF CompleteMultipart
  <2> HIDE DEF b
  <2>. QED  BY <2>s, <2>1, <2>2, <2>3, Dropped
<1>k. ASSUME NEW h \in Process, req[h].at = "fetch"
      PROVE  /\ req[h].s \in Session /\ Suits(req[h].s, numbered, req[h].got)
             /\ \E k \in 0..Pieces[req[h].s] : DOMAIN req[h].got = 1..k /\ Fetched(h) = k
             /\ req[h].row.received = Pieces[req[h].s] /\ driver = "local"
             /\ RowFits(req[h].s, numbered, driver, req[h].row)
  <2>1. /\ req[h].s \in Session /\ Suits(req[h].s, numbered, req[h].got)
        /\ req[h].row.received = Pieces[req[h].s] /\ driver = "local"
        /\ RowFits(req[h].s, numbered, driver, req[h].row)
    BY <1>h, <1>k DEF Holds
  <2>2. PICK k \in 0..Pieces[req[h].s] : DOMAIN req[h].got = 1..k
    BY <1>h, <1>k DEF Holds
  <2>3. k \in Nat /\ Cardinality(1..k) = k
    BY <2>1, <2>2, PieceOf, FS_Interval
  <2>. QED  BY <2>1, <2>2, <2>3 DEF Fetched
<1>17. ASSUME NEW h \in Process, FetchPart(h) PROVE Fitting'
  <2>s. PICK s \in Session : s = req[h].s
    BY <1>h, <1>17 DEF FetchPart, Is
  <2> DEFINE i == Fetched(h) + 1
  <2>1. req[h].at = "fetch" /\ i <= req[h].row.received
        /\ UNCHANGED <<driver, numbered, minted, row, stage, parts, blob, filed>>
    BY <2>s, <1>17 DEF FetchPart, Is
  <2>2. /\ s \in Session /\ Suits(s, numbered, req[h].got) /\ req[h].row.received = Pieces[s]
        /\ driver = "local" /\ RowFits(s, numbered, driver, req[h].row)
    BY <2>s, <1>k, <2>1
  <2>3. PICK k \in 0..Pieces[s] : DOMAIN req[h].got = 1..k /\ i = k + 1
    BY <2>s, <1>k, <2>1
  <2>4. PICK r : /\ Goes(h, r) /\ r.at = "fetch" /\ r.s = s /\ r.row = req[h].row
                 /\ r.got = Put(req[h].got, i, parts[s][i]) /\ i \in DOMAIN parts[s]
    BY <2>s, <1>17, <1>t, <2>2, FetchGoes
  <2>5. Suits(s, numbered, r.got) /\ DOMAIN r.got = 1..(k + 1) /\ k + 1 \in 0..Pieces[s]
    <3>1. i \in 1..Pieces[s] /\ k + 1 \in 0..Pieces[s] /\ (1..k) \cup {i} = 1..(k + 1)
      BY <2>s, <2>1, <2>2, <2>3, PieceOf
    <3>2. /\ parts[s][i] \in 1..Pieces[s] /\ Length(s, parts[s][i]) = Length(s, i)
          /\ numbered => parts[s][i] = i
      BY <2>s, <1>h, <2>2, <2>4 DEF SessionFits, Suits
    <3>3. /\ Suits(s, numbered, Put(req[h].got, i, parts[s][i]))
          /\ DOMAIN Put(req[h].got, i, parts[s][i]) = DOMAIN req[h].got \cup {i}
      <4>1. PICK x \in 1..Pieces[s] : x = parts[s][i]
        BY <3>2
      <4>2. Length(s, x) = Length(s, i) /\ (numbered => x = i)
        BY <3>2, <4>1
      <4>3. PICK f : f = req[h].got
        OBVIOUS
      <4>4. PICK j \in 1..Pieces[s] : j = i
        BY <3>1
      <4>5. Suits(s, numbered, f) /\ Length(s, x) = Length(s, j) /\ (numbered => x = j)
        BY <2>2, <4>2, <4>3, <4>4
      <4>6. Suits(s, numbered, Put(f, j, x)) /\ DOMAIN Put(f, j, x) = DOMAIN f \cup {j}
        <5>1. Suits(s, numbered, Put(f, j, x))
          BY <4>5, PutSuits, Zenon
        <5>. QED  BY <5>1, PutDomain
      <4>. QED  BY <4>1, <4>3, <4>4, <4>6
    <3>. QED  BY <2>s, <2>3, <2>4, <3>1, <3>3
  <2>6. Holds(r)
    BY <2>s, <2>2, <2>4, <2>5 DEF Holds
  <2>. QED  BY <2>s, <1>t, <2>1, <2>4, <2>6, FittingGoes
<1>18. ASSUME NEW h \in Process, PutMerged(h) PROVE Fitting'
  <2>s. PICK s \in Session : s = req[h].s
    BY <1>h, <1>18 DEF PutMerged, Is
  <2> DEFINE b == req[h].got
  <2>1. /\ req[h].at = "fetch" /\ Fetched(h) = req[h].row.received /\ GoTo(h, "drop parts")
        /\ UNCHANGED <<driver, numbered, minted, row, stage, parts, filed>> /\ blob' = [blob EXCEPT ![s] = b]
    BY <2>s, <1>18 DEF PutMerged, Is
  <2>2. s \in Session /\ Suits(s, numbered, b) /\ DOMAIN b = 1..Pieces[s] /\ driver = "local"
    BY <2>s, <1>k, <2>1
  <2>3. PICK r : Goes(h, r) /\ r.s = s /\ (UNCHANGED <<driver, numbered>> => Holds(r)')
    BY <2>s, <1>15, <2>1, <2>2
  <2>. QED  BY <2>s, <2>1, <2>2, <2>3, Dropped
<1>19. ASSUME NEW h \in Process, DropParts(h) \/ DropStaged(h) PROVE Fitting'
  <2>s. PICK s \in Session : s = req[h].s
    BY <1>h, <1>19 DEF DropParts, DropStaged, Is
  <2>1. req[h].at # "idle" /\ s \in Session /\ (GoTo(h, "file") \/ GoTo(h, "close"))
    BY <2>s, <1>19, <1>h DEF DropParts, DropStaged, Is
  <2>2. PICK r : Goes(h, r) /\ r.s = s /\ (UNCHANGED <<driver, numbered>> => Holds(r)')
    BY <2>s, <1>15, <2>1
  <2>3. /\ UNCHANGED <<driver, numbered, minted, row, blob, filed>> /\ stage' = [stage EXCEPT ![s] = "closed"]
        /\ parts' = [parts EXCEPT ![s] = Empty] \/ \E n : parts' = [parts EXCEPT ![s] = Beyond(@, n)]
    BY <2>s, <1>19 DEF DropParts, DropStaged, AbortMultipart
  <2>. QED  BY <2>s, <2>1, <2>2, <2>3, Dropped
<1>20. ASSUME NEW h \in Process, File(h) PROVE Fitting'
  <2>s. PICK s \in Session : s = req[h].s
    BY <1>h, <1>20 DEF File, Is
  <2>1. /\ req[h].at = "file" /\ s \in Session /\ GoTo(h, "close") /\ filed' = [filed EXCEPT ![s] = @ + 1]
        /\ UNCHANGED <<driver, numbered, minted, row, stage, parts, blob>>
    BY <2>s, <1>20, <1>h DEF File, Is
  <2>2. PICK r : Goes(h, r) /\ r.s = s /\ (UNCHANGED <<driver, numbered>> => Holds(r)')
    BY <2>s, <1>15, <2>1
  <2>3. TablesTyped' /\ SessionFits(s)'
    BY <2>s, <1>t, <1>h, <2>1 DEF TablesTyped, SessionFits, Staged
  <2>. QED  BY <2>s, <2>1, <2>2, <2>3, FittingKept
<1>21. ASSUME NEW h \in Process, Refuse(h) PROVE Fitting'
  <2>s. PICK s \in Session : s = req[h].s
    BY <1>h, <1>21 DEF Refuse, Is
  <2>1. /\ req[h].at = "file" /\ s \in Session /\ GoTo(h, "close") /\ blob' = [blob EXCEPT ![s] = Null]
        /\ UNCHANGED <<driver, numbered, minted, row, stage, parts, filed>>
    BY <2>s, <1>21, <1>h DEF Refuse, Is
  <2>2. PICK r : Goes(h, r) /\ r.s = s /\ (UNCHANGED <<driver, numbered>> => Holds(r)')
    BY <2>s, <1>15, <2>1
  <2>. QED  BY <2>s, <2>1, <2>2, Dropped
<1>22. ASSUME NEW h \in Process, CloseSession(h) PROVE Fitting'
  <2>s. PICK s \in Session : s = req[h].s
    BY <1>h, <1>22 DEF CloseSession, Is
  <2>1. /\ s \in Session /\ row' = [row EXCEPT ![s] = Null] /\ Goes(h, Idle)
        /\ UNCHANGED <<driver, numbered, minted, stage, parts, blob, filed>>
    BY <2>s, <1>22, <1>h, <1>t, AnswerGoes DEF CloseSession, Is
  <2>2. Holds(Idle)'
    BY <2>s, IdleTyped DEF Holds
  <2>. QED  BY <2>s, <2>1, <2>2, Dropped
<1>23. ASSUME NEW h \in Process, DropFails(h) PROVE Fitting'
  BY <1>5, <1>23 DEF DropFails, Is, Point
<1>24. ASSUME NEW s \in Session, Expire(s) PROVE Fitting'
  <2>1. row[s] # Null /\ row' = [row EXCEPT ![s].expired = TRUE]
        /\ UNCHANGED <<driver, numbered, minted, stage, parts, blob, filed, req>>
    BY <1>24 DEF Expire, Active
  <2>2. PICK v \in Row : v = row[s]
    BY <1>t, <2>1
  <2> DEFINE w == [v EXCEPT !.expired = TRUE]
  <2>3. w \in Row /\ w.received = v.received /\ w.offset = v.offset /\ w.etags = v.etags
    BY DEF Row
  <2>4. row' = [row EXCEPT ![s] = w]
    BY <2>1, <2>2
  <2> HIDE DEF w
  <2>5. row'[s] = w /\ \A x \in Session : x # s => row'[x] = row[x]
    BY <1>t, <2>4
  <2>6. SessionFits(s)'
    BY <1>h, <2>1, <2>2, <2>3, <2>5 DEF SessionFits, Staged, RowFits
  <2>7. \A x \in Session : SessionFits(x)'
    BY <1>h, <2>1, <2>5, <2>6 DEF SessionFits, Staged
  <2>8. \A p \in Process : Holds(req[p])'
    BY <1>h, <2>1 DEF Holds, Staged
  <2>9. Typed'
    BY <1>t, <2>1, <2>3, <2>4 DEF Typed
  <2>. QED  BY <2>7, <2>8, <2>9 DEF Fitting
<1>25. ASSUME NEW h \in Process, Interrupt(h) PROVE Fitting'
  BY <1>6, <1>25 DEF Interrupt
<1>26. ASSUME NEW h \in Process, NEW s \in Session, BeginRevoked(h, s) \/ BeginAbort(h, s) PROVE Fitting'
  BY <1>14, <1>26 DEF BeginRevoked, BeginAbort
<1>27. ASSUME NEW s \in Session, BeginSweep(s) PROVE Fitting'
  BY <1>14, <1>27 DEF BeginSweep, Process
<1>. QED
  BY <1>1, <1>3, <1>4, <1>7, <1>8, <1>9, <1>10, <1>11, <1>12, <1>13, <1>16, <1>17, <1>18, <1>19, <1>20,
     <1>21, <1>22, <1>23, <1>24, <1>25, <1>26, <1>27
  DEF Next, Continue, Arrive, Purge, Process

Filing(p, s) == req[p].at = "file" /\ req[p].s = s

(* A session is filed once, by the one request that completed its upload    *)
(* and only after it did; and then its object is there.                     *)
Once(s) ==
  /\ filed[s] = 0 \/ (filed[s] = 1 /\ blob[s] # Null /\ stage[s] = "closed")
  /\ \A p \in Process : Filing(p, s) =>
       /\ filed[s] = 0 /\ blob[s] # Null /\ stage[s] = "closed"
       /\ \A q \in Process : Filing(q, s) => q = p

OnceInv == driver = "s3" => \A s \in Session : Once(s)

(* It stays so while nobody begins to file, the objects stay and no upload  *)
(* that was closed is opened.                                               *)
LEMMA OnceKept ==
  ASSUME Typed, OnceInv, NEW p \in Process, NEW r, Goes(p, r), r.at # "file", UNCHANGED <<driver, blob, filed>>,
         \A s \in Session : stage[s] = "closed" => stage'[s] = "closed"
  PROVE  OnceInv'
<1>1. req'[p] = r /\ \A q \in Process : q # p => req'[q] = req[q]
  BY GoesTyped
<1>2. \A q \in Process, s \in Session : Filing(q, s)' => Filing(q, s)
  BY <1>1 DEF Filing
<1>. QED  BY <1>2 DEF OnceInv, Once

(* Every step of a request keeps it so.                                     *)
LEMMA OnceStep ==
  ASSUME Fitting, Born, OnceInv, [Next]_vars
  PROVE  OnceInv'
<1>t. /\ Typed /\ stage \in [Session -> {"none", "open", "closed"}] /\ filed \in [Session -> Nat]
      /\ blob \in [Session -> PartMap \cup {Null}] /\ Null \notin PartMap
      /\ \A p \in Process : req[p].at # "idle" => req[p].s \in Session
  BY NullIsNoValue DEF Fitting, Typed, Holds
<1>1. CASE UNCHANGED vars
  BY <1>1 DEF vars, OnceInv, Once, Filing
<1>2. ASSUME NEW h \in Process, NEW at \in Point, GoTo(h, at), at # "file", UNCHANGED <<driver, blob, filed>>,
             \A s \in Session : stage[s] = "closed" => stage'[s] = "closed"
      PROVE  OnceInv'
  <2>1. PICK r : Goes(h, r) /\ r.at = at
    BY <1>2, <1>t, GoToGoes
  <2>. QED  BY <1>2, <1>t, <2>1, OnceKept
<1>3. ASSUME NEW h \in Process, Answer(h), UNCHANGED <<driver, blob, filed, stage>>
      PROVE  OnceInv'
  BY <1>3, <1>t, AnswerGoes, OnceKept
<1>4. ASSUME NEW h \in Process, NEW s \in Session, NEW at \in Point, Begin(h, at, s), at # "file",
             UNCHANGED <<driver, blob, filed, stage>>
      PROVE  OnceInv'
  <2>1. PICK r : Goes(h, r) /\ r.at = at
    BY <1>4, <1>t, BeginGoes
  <2>. QED  BY <1>4, <1>t, <2>1, OnceKept
<1>5. ASSUME NEW h \in Process, NEW s \in Session,
             BeginInit(h, s) \/ BeginFinalize(h, s) \/ BeginRevoked(h, s) \/ BeginAbort(h, s)
      PROVE  OnceInv'
  <2>1. \E at \in Point : Begin(h, at, s) /\ at # "file"
    BY <1>5 DEF BeginInit, BeginFinalize, BeginRevoked, BeginAbort, Point
  <2>. QED  BY <1>4, <1>5, <2>1 DEF BeginInit, BeginFinalize, BeginRevoked, BeginAbort
<1>6. ASSUME NEW h \in Process, NEW s \in Session, NEW c \in 1..Pieces[s],
             BeginChunk(h, s, c, IF numbered THEN c ELSE Null)
      PROVE  OnceInv'
  <2> DEFINE n == IF numbered THEN c ELSE Null
  <2>1. n \in Nat \cup {Null} /\ BeginChunk(h, s, c, n)
    BY <1>6, PieceOf
  <2> HIDE DEF n
  <2>2. PICK r : Goes(h, r) /\ r.at = "store"
    BY <1>t, <2>1, ChunkGoes
  <2>3. UNCHANGED <<driver, blob, filed, stage>>
    BY <2>1 DEF BeginChunk
  <2>. QED  BY <1>t, <2>2, <2>3, OnceKept
<1>7. ASSUME NEW h \in Process, ReadReserved(h) PROVE OnceInv'
  <2>1. PICK r : Goes(h, r) /\ r.at = "room"
    BY <1>7, <1>t, ReservedGoes
  <2>. QED  BY <1>7, <1>t, <2>1, OnceKept DEF ReadReserved
<1>8. ASSUME NEW h \in Process, CheckRoom(h) PROVE OnceInv'
  BY <1>2, <1>3, <1>8 DEF CheckRoom, Point
<1>9. ASSUME NEW h \in Process, OpenStage(h) PROVE OnceInv'
  <2>1. PICK s \in Session : s = req[h].s /\ stage[s] = "none"
    BY <1>9, <1>t DEF OpenStage, Is, Born, Opening, Early
  <2>2. /\ stage' = [stage EXCEPT ![s] = "open"] /\ UNCHANGED <<driver, blob, filed>>
        /\ GoTo(h, "insert") /\ "insert" \in Point
    BY <1>9, <2>1 DEF OpenStage, InitiateMultipart, Point
  <2>3. \A x \in Session : stage[x] = "closed" => stage'[x] = "closed"
    BY <1>t, <2>1, <2>2
  <2>. QED  BY <1>2, <2>2, <2>3
<1>10. ASSUME NEW h \in Process, InsertSession(h) \/ SaveCursor(h) \/ CloseSession(h) \/ Interrupt(h) PROVE OnceInv'
  BY <1>3, <1>10 DEF InsertSession, SaveCursor, CloseSession, Interrupt
<1>11. ASSUME NEW h \in Process, StorePart(h) PROVE OnceInv'
  BY <1>2, <1>11 DEF StorePart, Point
<1>12. ASSUME NEW h \in Process, CompleteMultipart(h), driver = "s3" PROVE OnceInv'
  <2>1. PICK s \in Session : s = req[h].s
    BY <1>12, <1>t DEF CompleteMultipart, Is
  <2>2. PICK r : Goes(h, r) /\ r.at = "file" /\ r.s = s
    <3>1. "file" \in Point /\ GoTo(h, "file")
      BY <1>12 DEF CompleteMultipart, Point
    <3>. QED  BY <1>t, <2>1, <3>1, GoToGoes DEF Still
  <2>3. req'[h] = r /\ \A q \in Process : q # h => req'[q] = req[q]
    BY <1>t, <2>2, GoesTyped
  <2>4. /\ stage[s] = "open" /\ UNCHANGED <<driver, filed>> /\ blob' = [blob EXCEPT ![s] = Listed(h)]
        /\ stage' = [stage EXCEPT ![s] = "closed"] /\ req[h].at = "complete"
    BY <1>12, <2>1 DEF CompleteMultipart, Is
  <2>5. Listed(h) \in PartMap
    BY <2>1, <2>4 DEF Fitting, Holds, RowFits, Suits, Listed
  <2>6. filed[s] = 0 /\ \A q \in Process : ~Filing(q, s)
    BY <1>12, <2>4 DEF OnceInv, Once
  <2>7. \A q \in Process, x \in Session : Filing(q, x)' => (q = h /\ x = s) \/ (Filing(q, x) /\ x # s)
    BY <2>2, <2>3, <2>6 DEF Filing
  <2>8. Once(s)'
    BY <1>t, <2>4, <2>5, <2>6, <2>7 DEF Once
  <2>9. ASSUME NEW x \in Session, x # s PROVE Once(x)'
    <3>1. Once(x) /\ filed'[x] = filed[x] /\ blob'[x] = blob[x] /\ stage'[x] = stage[x]
      BY <1>t, <1>12, <2>4, <2>9 DEF OnceInv
    <3>. QED  BY <2>7, <2>9, <3>1 DEF Once
  <2>. QED  BY <2>8, <2>9 DEF OnceInv
<1>13. ASSUME NEW h \in Process, FetchPart(h) PROVE OnceInv'
  <2>1. req[h].s \in Session
    BY <1>13, <1>t DEF FetchPart, Is
  <2>2. PICK r : Goes(h, r) /\ r.at = "fetch"
    BY <1>13, <1>t, <2>1, FetchGoes
  <2>. QED  BY <1>13, <1>t, <2>2, OnceKept DEF FetchPart
<1>14. ASSUME NEW h \in Process, PutMerged(h) \/ DropParts(h) PROVE OnceInv'
  <2>1. driver = "local" /\ driver' = driver
    BY <1>14 DEF PutMerged, DropParts, Is, Fitting, Holds
  <2>. QED  BY <2>1 DEF OnceInv
<1>15. ASSUME NEW h \in Process, DropStaged(h) \/ DropFails(h) PROVE OnceInv'
  <2>1. \A s \in Session : stage[s] = "closed" => stage'[s] = "closed"
    BY <1>15, <1>t DEF DropStaged, DropFails
  <2>. QED  BY <1>2, <1>15, <2>1 DEF DropStaged, DropFails, Point
<1>16. ASSUME NEW h \in Process, File(h) \/ Refuse(h), driver = "s3" PROVE OnceInv'
  <2>1. PICK s \in Session : s = req[h].s
    BY <1>16, <1>t DEF File, Refuse, Is
  <2>2. PICK r : Goes(h, r) /\ r.at = "close"
    <3>1. "close" \in Point /\ GoTo(h, "close")
      BY <1>16 DEF File, Refuse, Point
    <3>. QED  BY <1>t, <3>1, GoToGoes
  <2>3. req'[h] = r /\ \A q \in Process : q # h => req'[q] = req[q]
    BY <1>t, <2>2, GoesTyped
  <2>4. /\ Filing(h, s) /\ UNCHANGED <<driver, stage>>
        /\ \/ filed' = [filed EXCEPT ![s] = @ + 1] /\ blob' = blob
           \/ blob' = [blob EXCEPT ![s] = Null] /\ filed' = filed
    BY <1>16, <2>1 DEF File, Refuse, Is, Filing
  <2>5. /\ filed[s] = 0 /\ blob[s] # Null /\ stage[s] = "closed"
        /\ \A q \in Process : Filing(q, s) => q = h
    BY <1>16, <2>4 DEF OnceInv, Once
  <2>6. \A q \in Process, x \in Session : Filing(q, x)' => Filing(q, x) /\ x # s
    BY <2>2, <2>3, <2>5 DEF Filing
  <2>7. Once(s)'
    BY <1>t, <2>4, <2>5, <2>6 DEF Once
  <2>8. ASSUME NEW x \in Session, x # s PROVE Once(x)'
    <3>1. Once(x) /\ filed'[x] = filed[x] /\ blob'[x] = blob[x] /\ stage'[x] = stage[x]
      BY <1>t, <1>16, <2>4, <2>8 DEF OnceInv
    <3>. QED  BY <2>6, <2>8, <3>1 DEF Once
  <2>. QED  BY <2>7, <2>8 DEF OnceInv
<1>17. ASSUME NEW s \in Session, BeginSweep(s) PROVE OnceInv'
  BY <1>4, <1>17 DEF BeginSweep, Process, Point
<1>18. ASSUME NEW s \in Session, Expire(s) PROVE OnceInv'
  BY <1>18 DEF Expire, OnceInv, Once, Filing
<1>19. [Next]_vars => driver' = driver
  BY DEF Next, vars, Continue, Arrive, Purge, BeginInit, BeginFinalize, BeginRevoked, BeginAbort, BeginChunk,
         ReadReserved, CheckRoom, OpenStage, InsertSession, StorePart, SaveCursor, CompleteMultipart, FetchPart,
         PutMerged, DropParts, File, Refuse, Interrupt, DropStaged, DropFails, CloseSession, BeginSweep, Expire
<1>20. CASE driver # "s3"
  BY <1>19, <1>20 DEF OnceInv
<1>. QED
  BY <1>1, <1>5, <1>6, <1>7, <1>8, <1>9, <1>10, <1>11, <1>12, <1>13, <1>14, <1>15, <1>16, <1>17, <1>18, <1>20
  DEF Next, Continue, Arrive, Purge, Process

UploadInv == Fitting /\ Born /\ OnceInv

(* What the three invariants say together lasts.                            *)
THEOREM UploadsAreSound == Spec => []UploadInv
<1>1. Init => UploadInv
  <2>1. Init => \A p \in Process : req[p].at = "idle"
    BY IdleTyped DEF Init
  <2>2. Init => OnceInv
    BY <2>1 DEF Init, OnceInv, Once, Filing
  <2>. QED  BY <2>2, FittingInit DEF UploadInv
<1>2. UploadInv /\ [Next]_vars => UploadInv'
  <2> SUFFICES ASSUME UploadInv, [Next]_vars PROVE UploadInv'
    OBVIOUS
  <2>1. Typed /\ \A p \in Process : req[p].at # "idle" => req[p].s \in Session
    BY DEF UploadInv, Fitting, Holds
  <2>2. Born'
    BY <2>1, BornStep DEF UploadInv
  <2>3. Fitting' /\ OnceInv'
    BY FittingStep, OnceStep DEF UploadInv
  <2>. QED  BY <2>2, <2>3 DEF UploadInv
<1>. QED  BY <1>1, <1>2, PTL DEF Spec

(* Whatever is retried, delayed, aborted or cut short, for files of any     *)
(* length in chunks of any size: the object under a session's key is the    *)
(* client's file.                                                           *)
THEOREM FilesAreAssembled == Spec => []Assembled
<1>1. UploadInv => Assembled
  BY PieceOf DEF UploadInv, Fitting, SessionFits, Suits, Assembled, Fitted, InOrder
<1>. QED  BY <1>1, UploadsAreSound, PTL

(* The cursor promises no part that is not staged, until somebody begins to *)
(* drop the parts.                                                          *)
THEOREM CursorsAreBacked == Spec => []CursorBacked
<1>1. UploadInv => CursorBacked
  <2> SUFFICES ASSUME UploadInv, NEW s \in Session, row[s] # Null, stage[s] = "open", NEW i \in 1..row[s].received
               PROVE  /\ i \in DOMAIN parts[s] /\ Length(s, parts[s][i]) = Length(s, i)
                      /\ numbered => parts[s][i] = i
    BY DEF CursorBacked
  <2>1. SessionFits(s)
    BY DEF UploadInv, Fitting
  <2>2. i \in DOMAIN parts[s]
    BY <2>1 DEF SessionFits, Staged
  <2>. QED  BY <2>1, <2>2 DEF SessionFits, Suits
<1>. QED  BY <1>1, UploadsAreSound, PTL

(* Over S3 a session's object is filed once and stays, however many         *)
(* finalizes race.                                                          *)
THEOREM ObjectsAreFiledOnce == Spec => []FiledOnce
<1>1. UploadInv => FiledOnce
  BY DEF UploadInv, OnceInv, Once, FiledOnce
<1>. QED  BY <1>1, UploadsAreSound, PTL
=============================================================================
