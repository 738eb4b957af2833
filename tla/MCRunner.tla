------------------------------ MODULE MCRunner ------------------------------
(* TLC instance of Runner: two commands of one process, a store of the     *)
(* environment by another.                                                 *)
EXTENDS Runner

CONSTANTS p1, p2, r1, r2, r3

TwoExecsAndEnv == (r1 :> "EXEC") @@ (r2 :> "EXEC") @@ (r3 :> "ENV")
OneApart == (r1 :> p1) @@ (r2 :> p1) @@ (r3 :> p2)
=============================================================================
