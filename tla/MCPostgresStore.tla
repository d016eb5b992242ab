---------------------------- MODULE MCPostgresStore ----------------------------
(* Two runs of one product and one of another, with two, one and no claims, on *)
(* a pool of two connections.                                                  *)
EXTENDS PostgresStore, TLC

CONSTANTS r1, r2, r3, p1, p2

Requested == (r1 :> p1) @@ (r2 :> p1) @@ (r3 :> p2)

Found == (r1 :> 2) @@ (r2 :> 1) @@ (r3 :> 0)

TwoRequested == (r1 :> p1) @@ (r2 :> p1)

TwoFound == (r1 :> 1) @@ (r2 :> 1)

===============================================================================
