---------------------------- MODULE MCInProcess ----------------------------
(***************************************************************************)
(* Small instances for TLC of the parts that share nothing with each other *)
(* but the backend process: the AI budget, a circuit breaker, the scenario *)
(* of a BOM item, the heavy parses and the loops around the CAD runners.   *)
(* One of them moves in each behaviour, so none costs the product of their *)
(* states.                                                                 *)
(***************************************************************************)
EXTENDS AiBudget, Breaker, ScenarioApply, HeavyWork, CadTicks, TLC

CONSTANTS ann, bob, acme, bolt, q1, q2, q3, q4, i1, i2, e1, e2,
          h1, h2, h3, z1, z2, a1, a2

Payer == q1 :> ann @@ q2 :> ann @@ q3 :> ann @@ q4 :> bob
Company == q1 :> acme @@ q2 :> acme @@ q3 :> bolt @@ q4 :> acme
Limits == ann :> 2 @@ bob :> 1 @@ acme :> 2 @@ bolt :> 1 @@ Deployment :> 2

Stagings == [wants : {{"steel", "nylon"}}, mishap : {"none", "crash", "lost"}]
            \cup [wants : {{"nylon"}}, mishap : {"unconfirmed", "outlive"}]

Sender == h1 :> acme @@ h2 :> acme @@ h3 :> bolt

Home == a1 :> i1 @@ a2 :> i2

VARIABLE active

components == <<budgetVars, breakerVars, applyVars, heavyVars, tickVars>>

(* What is not active starts in one of its states and stays there.         *)
InProcessInit ==
  /\ active \in {"budget", "breaker", "apply", "parses", "ticks"}
  /\ Init /\ BreakerInit /\ ApplyInit /\ HeavyInit /\ TicksInit
  /\ active # "breaker" => up
  /\ active # "apply" => staging = CHOOSE s \in Stagings : TRUE

InProcessNext ==
  /\ active' = active
  /\ IF active = "budget" THEN Next ELSE UNCHANGED budgetVars
  /\ IF active = "breaker" THEN BreakerNext ELSE UNCHANGED breakerVars
  /\ IF active = "apply" THEN ApplyNext ELSE UNCHANGED applyVars
  /\ IF active = "parses" THEN HeavyNext ELSE UNCHANGED heavyVars
  /\ IF active = "ticks" THEN TicksNext ELSE UNCHANGED tickVars

Budget(A) == active = "budget" /\ A
Breaks(A) == active = "breaker" /\ A
ParsesGo(A) == active = "parses" /\ A

(* Requests to the language model end, as in FairSpec of AiBudget; calls   *)
(* of an engine end and keep coming, and time goes by; deadlines of parses *)
(* come, and their callers go on.                                          *)
InProcessSpec ==
  /\ InProcessInit /\ [][InProcessNext]_<<active, components>>
  /\ \A r \in AiRequests : WF_budgetVars(Budget(Step(r)))
  /\ \A p \in Parses : /\ WF_heavyVars(ParsesGo(Deadline(p)))
                        /\ WF_heavyVars(ParsesGo(GiveBack(p)))
  /\ \A c \in EngineCalls : WF_breakerVars(Breaks(Settles(c)))
  /\ WF_breakerVars(Breaks(\E c \in EngineCalls : Exec(c)))
  /\ WF_breakerVars(Breaks(Elapse))
=============================================================================
