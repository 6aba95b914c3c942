----------------------------- MODULE MCUploads -----------------------------
(* Small instances of Uploads. *)
EXTENDS Uploads

CONSTANTS s1, s2, h1, h2

(* Three pieces: two of one length, one of which can be taken for the      *)
(* other, and a shorter last one.                                           *)
MCPieces == [s \in Session |-> IF s = s1 THEN 3 ELSE 1]
MCLastPiece == [s \in Session |-> IF s = s1 THEN 1 ELSE ChunkSize]
=============================================================================
