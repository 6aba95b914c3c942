------------------------------ MODULE FileScan ------------------------------
(***************************************************************************)
(* The antivirus sweep  (scanning/index.ts).  The sweep selects rows, then *)
(* fetches and scans their bytes one by one; by the time a verdict is in,  *)
(* the row may hold other bytes, or the bytes may have been archived.      *)
(***************************************************************************)
EXTENDS FileStore

Unscanned == {"pending", "error", "skipped"}

(* An object the sweep still has to ask clamd about: what is larger than   *)
(* maxScanBytes it never selects.                                          *)
Selected(row) == row.scan \in Unscanned /\ row.key \notin Oversize

(* Mutant: the sweep looks at current bytes only, as it did before         *)
(* migration 61 gave versions a verdict of their own.                      *)
CurrentCandidates == {Archived(f) : f \in {g \in files : ~g.trashed /\ Selected(g)}}

(* Rows the sweep's two SELECTs return: current and archived bytes of      *)
(* files that are not in the trash.                                        *)
ScanCandidates ==
  {Archived(f) : f \in {g \in files : ~g.trashed /\ Selected(g)}}
    \cup {v \in versions : Selected(v) /\ \E f \in ById(v.file) : ~f.trashed}

(* server.ts runs the sweep through guardedSweep, which skips a run while  *)
(* the previous one has not returned.                                      *)
BeginScan(h, v) ==
  /\ At(h, "idle")
  /\ Scanning
  /\ \A g \in Handler : req[g].op # "scan"
  /\ v \in ScanCandidates
  /\ req' = [req EXCEPT ![h] = [NoRequest EXCEPT
               !.pc = "scan bytes", !.op = "scan", !.vers = {v}]]
  /\ UNCHANGED <<files, versions, blobs, thumbs, minted>>

(* scanFileRow: clamd answers, or the fetch or the scan fails and the      *)
(* verdict is error.  Bytes over the limit are skipped without a fetch.    *)
Verdicts(k) ==
  CASE k \in Oversize -> {"skipped"}
    [] k \notin Oversize \cup blobs -> {"error"}
    [] OTHER -> {"error", IF k \in Infected THEN "infected" ELSE "clean"}

ScanBytes(h) ==
  /\ At(h, "scan bytes")
  /\ \E v \in req[h].vers : \E s \in Verdicts(v.key) :
       req' = [req EXCEPT ![h].verdict = s, ![h].pc = "verdict on file"]
  /\ UNCHANGED <<files, versions, blobs, thumbs, minted>>

(* Mutant: the verdict is recorded by id alone. *)
MatchesFileById(f, v) == f.id = v.file

(* recordStatus: both updates are keyed by the id and the storage key.     *)
MatchesFile(f, v) == f.id = v.file /\ f.key = v.key
MatchesVersion(w, v) == w.file = v.file /\ w.key = v.key

VerdictOnFile(h) ==
  /\ At(h, "verdict on file")
  /\ \E v \in req[h].vers :
       files' = {IF MatchesFile(f, v) THEN [f EXCEPT !.scan = req[h].verdict] ELSE f : f \in files}
  /\ Goto(h, "verdict on version")
  /\ UNCHANGED <<versions, blobs, thumbs, minted>>

VerdictOnVersion(h) ==
  /\ At(h, "verdict on version")
  /\ \E v \in req[h].vers :
       versions' = {IF MatchesVersion(w, v) THEN [w EXCEPT !.scan = req[h].verdict] ELSE w : w \in versions}
  /\ Finish(h)
  /\ UNCHANGED <<files, blobs, thumbs, minted>>

Scan(h) ==
  \/ \E v \in ScanCandidates : BeginScan(h, v)
  \/ ScanBytes(h) \/ VerdictOnFile(h) \/ VerdictOnVersion(h)
=============================================================================
