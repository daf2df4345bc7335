--------------------------- MODULE MCCadPipeline ---------------------------
(***************************************************************************)
(* Small instances of CadPipeline for TLC.                                 *)
(***************************************************************************)
EXTENDS CadPipeline, TLC

CONSTANTS u1, u2, s1, s2, p1, p2, w1, w2, b1, b2, r1, r2, r3

OwnSource == u1 :> s1
TwoSources == u1 :> s1 @@ u2 :> s2
SharedSource == u1 :> s1 @@ u2 :> s1

OneLine == 1..1
TwoLines == 1..2
FiveItems == 1..5

(* Processes of one kind are interchangeable.                              *)
Symmetric == Permutations({w1, w2}) \cup Permutations({b1, b2})
=============================================================================
