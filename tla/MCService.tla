------------------------------- MODULE MCService -------------------------------
(* The process around two runs of one product and one worker. *)
EXTENDS Service, TLC

CONSTANTS r1, r2, p1

TwoRuns == (r1 :> p1) @@ (r2 :> p1)

===============================================================================
