------------------------------ MODULE MCFiles ------------------------------
(* Instances of Files small enough for TLC. *)
EXTENDS Files, TLC

CONSTANTS h1, h2, h3, k1, k2, k3, k4

(* The keys of a symmetry set are neither infected nor thumbnailed. *)
HandlersAndKeys == Permutations(Handler) \cup Permutations(Key)

(* Nothing is infected: keys differ by their thumbnails only.               *)
HandlersAndLikeKeys ==
  Permutations(Handler) \cup Permutations(Thumbable) \cup Permutations(Key \ Thumbable)
=============================================================================
