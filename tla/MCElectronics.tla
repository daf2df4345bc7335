---------------------------- MODULE MCElectronics ----------------------------
(***************************************************************************)
(* Instances of the electronics uploads for TLC.  The scenarios share one  *)
(* run: each has the processes and the requests its faults need.           *)
(***************************************************************************)
EXTENDS Electronics, TLC

CONSTANTS board, changed, b1, b2, r1, r2, r3

Scenario(f, b, a1, a2, a3) ==
  [faults |-> f, backends |-> b, asks |-> r1 :> a1 @@ r2 :> a2 @@ r3 :> a3]

Faulty == Scenario({"error", "crash"}, {b1}, {board}, {"reparse"}, {})
Lossy == Scenario({"lost"}, {b1}, {board}, {board, "reparse"}, {})
Outliving == Scenario({"outlive"}, {b1, b2}, {board}, {"reparse"}, {})
Stopping == Scenario({"stop"}, {b1, b2}, {board}, {"reparse"}, {})
Rereading == Scenario({}, {b1}, {board}, {"reparse"}, {"reparse"})
Deleting == Scenario({}, {b1}, {board}, {board, changed}, {"delete"})
Overlapping == Scenario({"overlap"}, {b1}, {board}, {board}, {"delete"})

StuckReading == {Faulty}

All == {Faulty, Lossy, Outliving, Stopping, Rereading, Deleting, Overlapping}
=============================================================================
