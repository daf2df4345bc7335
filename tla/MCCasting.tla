------------------------------ MODULE MCCasting ------------------------------
(***************************************************************************)
(* Two items for TLC: the first one's file is replaced, the second one has *)
(* the same bytes as the first one had.  The scenarios share one run: each *)
(* has the processes and requests that its faults need, and no more.       *)
(***************************************************************************)
EXTENDS Casting, TLC

CONSTANTS bracket, cover, f1, f2, f3, step, other, c1, c2, b1, b2, r1, r2, r3

Bytes == f1 :> step @@ f2 :> other @@ f3 :> step
Files == bracket :> f1 @@ cover :> f3
Replacements == bracket :> {f2} @@ cover :> {}

Scenario(f, b, a1, a2, a3, c, old) ==
  [faults |-> f, backends |-> b, asks |-> r1 :> a1 @@ r2 :> a2 @@ r3 :> a3, changing |-> c,
   aging |-> old]

Faulty == Scenario({"error", "crash"}, {b1}, {bracket}, Items, {}, {}, TRUE)
TwoBackends == Scenario({}, {b1, b2}, {bracket}, {cover}, {}, {}, FALSE)
Replaced == Scenario({}, {b1}, {bracket}, {cover}, {}, {bracket}, TRUE)
Outliving == Scenario({"outlive", "crash"}, {b1, b2}, {bracket}, {}, {}, {}, FALSE)
Doubled == Scenario({"double"}, {b1}, {bracket}, {bracket}, {bracket}, {}, FALSE)
Overlapping == Scenario({"overlap"}, {b1}, {bracket}, {bracket}, {}, {bracket}, TRUE)

All == {Faulty, TwoBackends, Replaced, Outliving, Doubled, Overlapping}
=============================================================================
