----------------------------- MODULE MCSignedIn -----------------------------
(***************************************************************************)
(* Small instances for TLC of what a signed-in user meets: the inactivity  *)
(* timeout of the session, and the uploads of electronics.  They share     *)
(* nothing but the run: one of them moves in each behaviour.               *)
(***************************************************************************)
EXTENDS MCElectronics, Sessions

CONSTANTS i1, i2, t1, t2

Scene(tabs, instances, flows, hitches, slow) ==
  [tabs |-> tabs, instances |-> instances, flows |-> flows, hitches |-> hitches, slow |-> slow]

Working == Scene({t1}, {i1}, TRUE, {}, {})
TwoTabs == Scene({t1, t2}, {i1}, FALSE, {}, {})
Offline == Scene({t1, t2}, {i1}, FALSE, {"lost"}, {})
Asleep == Scene({t1}, {i1}, FALSE, {"asleep"}, {})
LatePage == Scene({t1}, {i1, i2}, FALSE, {}, {t1} \X {"api"})
LateBeat == Scene({t1}, {i1}, FALSE, {"lost"}, {t1} \X {"user"})

SessionScenes == {Working, TwoTabs, Offline, Asleep, LatePage, LateBeat}

VARIABLE active

(* What is not active starts in one of its states and stays there.         *)
SignedInInit ==
  /\ active \in {"session", "electronics"}
  /\ SessionInit /\ ElectronicsInit
  /\ active # "session" => scene = Working
  /\ active # "electronics" => scenario = Faulty

SignedInNext ==
  /\ active' = active
  /\ IF active = "session" THEN SessionNext ELSE UNCHANGED sessionVars
  /\ IF active = "electronics" THEN ElectronicsNext ELSE UNCHANGED vars

Uploaded(A) == active = "electronics" /\ A

(* The electronics queue is as fair as in ElectronicsFair; nobody at a     *)
(* browser has to do anything.                                             *)
SignedInSpec ==
  /\ SignedInInit /\ [][SignedInNext]_<<active, sessionVars, vars>>
  /\ \A b \in Backends : WF_vars(Uploaded(b \in scenario.backends /\ Runs(b)))
  /\ SF_vars(Uploaded(\E b \in scenario.backends : Claim(b) /\ UNCHANGED <<tables, asked>>))
  /\ WF_vars(Uploaded(\E r \in Requests : RequestStep(r)))
  /\ WF_vars(Uploaded(/\ \E j \in Jobs : ComeDue(j) \/ (Attempts(j) = {} /\ GoStale(j))
                      /\ UNCHANGED <<tables, asked>>))
=============================================================================
