------------------------------- MODULE MCEngine -------------------------------
(* Small instances of Engine: two requests for one product and one for a       *)
(* product that is not in the catalogue, or up to three for one product.       *)
EXTENDS EngineInvariant, TLC

CONSTANTS r1, r2, r3, w1, w2, p1, p2

OneUnknown == (r1 :> p1) @@ (r2 :> p1) @@ (r3 :> p2)
OneProduct == (r1 :> p1) @@ (r2 :> p1) @@ (r3 :> p1)
TwoRuns == (r1 :> p1) @@ (r2 :> p1)

(* Workers are interchangeable; requests differ in their product. *)
WorkerSymmetry == Permutations(Workers)

===============================================================================
