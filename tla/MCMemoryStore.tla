----------------------------- MODULE MCMemoryStore -----------------------------
(* Two runs of one product and one of another. *)
EXTENDS MemoryStore, TLC

CONSTANTS r1, r2, r3, p1, p2

Requested == (r1 :> p1) @@ (r2 :> p1) @@ (r3 :> p2)

Symmetry == Permutations({r1, r2}) \cup Permutations(Readers)

===============================================================================
