--------------------------- MODULE ScenarioApply ---------------------------
(***************************************************************************)
(* Apply Scenario on one BOM item (backend/src/modules/bom-items/services/ *)
(* scenario-application.service.ts, migration 969): a saga of writes that  *)
(* other services own, behind a state kept on the item.  A scenario is     *)
(* what an engineer staged: grade, volume, location, route.  Every apply   *)
(* here names a grade.  Which operations, weights and prices the engines   *)
(* compute is abstracted to what they computed them from.                  *)
(***************************************************************************)
EXTENDS Naturals, FiniteSets

CONSTANTS
  Engineers,     \* each with at most one apply under way
  Scenarios,
  Molded,        \* the scenarios whose route needs a mold
  MaxRevision,   \* no apply begins at it: a bound
  ApplyStagings  \* what is asked for and what may go wrong, besides errors

(* "crash": the backend restarts.  "lost": a write takes effect, but its   *)
(* caller gets an error.  "unconfirmed": the last one does.  "outlive": an *)
(* apply runs past p_stale_after_seconds.                                  *)
ASSUME ApplyAssumption ==
  /\ Molded \subseteq Scenarios
  /\ MaxRevision \in Nat
  /\ ApplyStagings \subseteq
       [wants : SUBSET Scenarios, mishap : {"none", "crash", "lost", "unconfirmed", "outlive"}]

VARIABLES
  staging,   \* the scene of this behaviour: never changes
  applied,   \* scenario_overrides.appliedScenario
  fields,    \* the item's own columns, and the other scenario keys
  costs,     \* active cost records of the item, tools of the user left out
  apply      \* the applies under way

applyVars == <<staging, applied, fields, costs, apply>>

None == "none"
Staged == Scenarios \cup {None}

(* What a cost is computed from: the item, its overrides, the request.     *)
Basis == Staged \X Staged \X Scenarios

(* Records have an identity: two can be alike.                             *)
CostRecord == [id : Nat, basis : Basis]

ApplyPc == {"idle", "asked", "fields", "merge", "material", "retire", "create", "route",
            "swap", "tools", "remove", "mold", "machines", "finish", "failing"}

(* `expected` are the revisions it may begin at: the one its caller saw,   *)
(* or any, if the caller does not say; `rev` is that of begin; `records`   *)
(* those read and not yet retired, or removed; `basis` is that of the      *)
(* summary or comparison it holds.                                         *)
Apply == [pc : ApplyPc, want : Staged, expected : SUBSET (0..MaxRevision),
          rev : 0..MaxRevision, records : SUBSET CostRecord, basis : Basis \cup {<<>>}]

Idle == [pc |-> "idle", want |-> None, expected |-> {}, rev |-> 0,
         records |-> {}, basis |-> <<>>]

ApplyInit ==
  /\ staging \in ApplyStagings
  /\ applied = [rev |-> 0, status |-> "none", old |-> FALSE]
  /\ fields = [item |-> None, keys |-> None]
  /\ costs = [material |-> {}, route |-> <<>>, tools |-> {}]
  /\ apply = [a \in Engineers |-> Idle]

UnderWay(a) == apply[a].pc \notin {"idle", "asked"}

Fails(a) == apply' = [apply EXCEPT ![a].pc = "failing", ![a].records = {}, ![a].basis = <<>>]

(* a's apply goes on, or fails although what it wrote was written.         *)
Proceeds(a, pc) == \/ apply' = [apply EXCEPT ![a].pc = pc, ![a].basis = <<>>]
                   \/ staging.mishap = "lost" /\ Fails(a)

Computed(a) == <<fields.item, fields.keys, apply[a].want>>

NewRecord(records, basis) ==
  [id |-> CHOOSE i \in 1..Cardinality(records) + 1 : \A r \in records : r.id # i, basis |-> basis]

-----------------------------------------------------------------------------
(* The page asks for a scenario, at the revision it shows; the analysis is *)
(* made current first.                                                     *)
Ask(a) == /\ apply[a].pc = "idle"
          /\ \E s \in staging.wants, e \in {{applied.rev}, 0..MaxRevision} :
               apply' = [apply EXCEPT ![a] = [Idle EXCEPT !.pc = "asked", !.want = s, !.expected = e]]
          /\ UNCHANGED <<applied, fields, costs>>

Blocked == applied.status = "applying" /\ ~applied.old

BeginWithoutLock(a) ==   \* only the revision is compared
  /\ apply[a].pc = "asked"
  /\ applied.rev \in apply[a].expected
  /\ applied.rev < MaxRevision
  /\ applied' = [rev |-> applied.rev, status |-> "applying", old |-> FALSE]
  /\ apply' = [apply EXCEPT ![a].pc = "fields", ![a].rev = applied.rev]
  /\ UNCHANGED <<fields, costs>>

(* begin_scenario_application, under the row's lock.                       *)
Begin(a) ==
  /\ apply[a].pc = "asked"
  /\ applied.rev \in apply[a].expected /\ ~Blocked
  /\ applied.rev < MaxRevision
  /\ applied' = [rev |-> applied.rev, status |-> "applying", old |-> FALSE]
  /\ \/ apply' = [apply EXCEPT ![a].pc = "fields", ![a].rev = applied.rev]
     \/ staging.mishap = "lost" /\ apply' = [apply EXCEPT ![a] = Idle]
  /\ UNCHANGED <<fields, costs>>

(* Refused, or the analysis cannot be made ready: nothing is written.      *)
NotBegun(a) == /\ apply[a].pc = "asked"
               /\ apply' = [apply EXCEPT ![a] = Idle]
               /\ UNCHANGED <<applied, fields, costs>>

UpdateItem(a) == /\ apply[a].pc = "fields"
                 /\ fields' = [fields EXCEPT !.item = apply[a].want]
                 /\ Proceeds(a, "merge")
                 /\ UNCHANGED <<applied, costs>>

MergeOverrides(a) == /\ apply[a].pc = "merge"
                     /\ fields' = [fields EXCEPT !.keys = apply[a].want]
                     /\ Proceeds(a, "material")
                     /\ UNCHANGED <<applied, costs>>

KeepByGrade(a) ==   \* whatever the record was computed from
  /\ apply[a].pc = "material"
  /\ apply' = IF \E r \in costs.material : TRUE
              THEN [apply EXCEPT ![a].pc = "route"]
              ELSE [apply EXCEPT ![a].pc = "retire", ![a].records = costs.material,
                                   ![a].basis = Computed(a)]
  /\ UNCHANGED <<applied, fields, costs>>

(* MaterialCostSnapshotService.ensure(): a record still right is kept.     *)
ReadMaterial(a) ==
  /\ apply[a].pc = "material"
  /\ apply' = IF \E r \in costs.material : r.basis = Computed(a)
              THEN [apply EXCEPT ![a].pc = "route"]
              ELSE [apply EXCEPT ![a].pc = "retire", ![a].records = costs.material,
                                   ![a].basis = Computed(a)]
  /\ UNCHANGED <<applied, fields, costs>>

RetireTolerant(a) ==   \* one that cannot be retired is passed over
  /\ apply[a].pc = "retire"
  /\ IF apply[a].records = {}
     THEN costs' = costs /\ apply' = [apply EXCEPT ![a].pc = "create"]
     ELSE \E r \in apply[a].records :
            /\ costs' \in {costs, [costs EXCEPT !.material = @ \ {r}]}
            /\ apply' = [apply EXCEPT ![a].records = @ \ {r}]
  /\ UNCHANGED <<applied, fields>>

RetireMaterial(a) ==
  /\ apply[a].pc = "retire"
  /\ IF apply[a].records = {}
     THEN costs' = costs /\ apply' = [apply EXCEPT ![a].pc = "create"]
     ELSE \E r \in apply[a].records :
            /\ costs' = [costs EXCEPT !.material = @ \ {r}]
            /\ \/ apply' = [apply EXCEPT ![a].records = @ \ {r}]
               \/ staging.mishap = "lost" /\ Fails(a)
  /\ UNCHANGED <<applied, fields>>

CreateMaterial(a) ==
  /\ apply[a].pc = "create"
  /\ costs' = [costs EXCEPT !.material = @ \cup {NewRecord(@, apply[a].basis)}]
  /\ Proceeds(a, "route")
  /\ UNCHANGED <<applied, fields>>

(* RouteApplicationService: one transaction swaps the operations for those *)
(* of the comparison.                                                      *)
CompareRoutes(a) ==
  /\ apply[a].pc = "route"
  /\ apply' = [apply EXCEPT ![a].pc = "swap", ![a].basis = Computed(a)]
  /\ UNCHANGED <<applied, fields, costs>>

WriteRoute(a) == /\ apply[a].pc = "swap"
                 /\ costs' = [costs EXCEPT !.route = apply[a].basis]
                 /\ Proceeds(a, "tools")
                 /\ UNCHANGED <<applied, fields>>

NeedsMold(a) == apply[a].want \in Molded

(* ToolingCostSnapshotService.ensure(): the mold the route needs, if any.  *)
ReadTools(a) ==
  LET upToDate == IF NeedsMold(a) THEN {r.basis : r \in costs.tools} = {Computed(a)}
                                       /\ Cardinality(costs.tools) = 1
                  ELSE costs.tools = {}
  IN  /\ apply[a].pc = "tools"
      /\ apply' = IF upToDate THEN [apply EXCEPT ![a].pc = "machines"]
                  ELSE [apply EXCEPT ![a].pc = "remove", ![a].records = costs.tools,
                                   ![a].basis = Computed(a)]
      /\ UNCHANGED <<applied, fields, costs>>

RemoveTool(a) ==
  /\ apply[a].pc = "remove"
  /\ IF apply[a].records = {}
     THEN /\ costs' = costs
          /\ apply' = [apply EXCEPT ![a].pc = IF NeedsMold(a) THEN "mold" ELSE "machines",
                                    ![a].basis = IF NeedsMold(a) THEN @ ELSE <<>>]
     ELSE \E r \in apply[a].records :
            /\ costs' = [costs EXCEPT !.tools = @ \ {r}]
            /\ \/ apply' = [apply EXCEPT ![a].records = @ \ {r}]
               \/ staging.mishap = "lost" /\ Fails(a)
  /\ UNCHANGED <<applied, fields>>

CreateMold(a) ==
  /\ apply[a].pc = "mold"
  /\ costs' = [costs EXCEPT !.tools = @ \cup {NewRecord(@, apply[a].basis)}]
  /\ Proceeds(a, "machines")
  /\ UNCHANGED <<applied, fields>>

(* Machines picked by hand are saved apart; one that cannot be is only     *)
(* reported.                                                               *)
SaveMachines(a) == /\ apply[a].pc = "machines"
                   /\ apply' = [apply EXCEPT ![a].pc = "finish"]
                   /\ UNCHANGED <<applied, fields, costs>>

FinishApply(a) ==
  /\ apply[a].pc = "finish"
  /\ applied' = [rev |-> apply[a].rev + 1, status |-> "applied", old |-> FALSE]
  /\ \/ apply' = [apply EXCEPT ![a] = Idle]
     \/ staging.mishap = "unconfirmed" /\ Fails(a)
  /\ UNCHANGED <<fields, costs>>

(* A step throws: the engine is down, the analysis no longer current, the  *)
(* route infeasible, a write refused.                                      *)
StepFails(a) == /\ UnderWay(a) /\ apply[a].pc \notin {"failing", "machines"}
                /\ Fails(a)
                /\ UNCHANGED <<applied, fields, costs>>

(* fail(): what was written stays.  It may not be recorded either.         *)
FailApply(a) ==
  /\ apply[a].pc = "failing"
  /\ \/ applied' = [rev |-> apply[a].rev, status |-> "failed", old |-> FALSE]
     \/ applied' = applied
  /\ apply' = [apply EXCEPT ![a] = Idle]
  /\ UNCHANGED <<fields, costs>>

(* 900 seconds have gone by since startedAt.                               *)
GrowsOld == /\ Blocked
            /\ staging.mishap = "outlive" \/ \A a \in Engineers : ~UnderWay(a)
            /\ applied' = [applied EXCEPT !.old = TRUE]
            /\ UNCHANGED <<fields, costs, apply>>

BackendDies == /\ staging.mishap = "crash"
               /\ apply' = [a \in Engineers |-> Idle]
               /\ UNCHANGED <<applied, fields, costs>>

Applies(a) == \/ Ask(a) \/ Begin(a) \/ NotBegun(a)
              \/ UpdateItem(a) \/ MergeOverrides(a)
              \/ ReadMaterial(a) \/ RetireMaterial(a) \/ CreateMaterial(a)
              \/ CompareRoutes(a) \/ WriteRoute(a) \/ ReadTools(a) \/ RemoveTool(a) \/ CreateMold(a)
              \/ SaveMachines(a) \/ FinishApply(a) \/ StepFails(a) \/ FailApply(a)

ApplyNext == /\ (\E a \in Engineers : Applies(a)) \/ GrowsOld \/ BackendDies
             /\ staging' = staging

ApplySpec == ApplyInit /\ [][ApplyNext]_applyVars

-----------------------------------------------------------------------------
(* What the state, the costs and the applies can be.                       *)
ApplyTypeOK ==
  /\ applied \in [rev : 0..MaxRevision, status : {"none", "applying", "applied", "failed"},
                  old : BOOLEAN]
  /\ fields \in [item : Staged, keys : Staged]
  /\ costs \in [material : SUBSET CostRecord, route : Basis \cup {<<>>}, tools : SUBSET CostRecord]
  /\ apply \in [Engineers -> Apply]

(* "One apply at a time per item, against the revision the caller saw":    *)
(* while one runs, the state says so and no other moves the revision.      *)
AppliesAlone ==
  staging.mishap \in {"none", "crash", "lost"} =>
    \A a \in Engineers : UnderWay(a) =>
      /\ applied = [rev |-> apply[a].rev, status |-> "applying", old |-> FALSE]
      /\ applied.rev \in apply[a].expected
      /\ \A b \in Engineers : UnderWay(b) => a = b

(* "The page can no longer show applied over a refused route": an applied  *)
(* scenario is the only source of the item's fields, of its one material   *)
(* record, of its route and of the mold, whatever failed applies left.     *)
AppliedIsWhole ==
  (staging.mishap \in {"none", "crash", "lost"} /\ applied.status = "applied") =>
    \E s \in Scenarios :
      /\ fields = [item |-> s, keys |-> s]
      /\ {r.basis : r \in costs.material} = {<<s, s, s>>}
      /\ costs.route = <<s, s, s>>
      /\ {r.basis : r \in costs.tools} = IF s \in Molded THEN {<<s, s, s>>} ELSE {}

(* "Two active records would double the material cost": there is never     *)
(* more than one, and never more than one mold, whatever fails half-way.   *)
NoDuplicates ==
  staging.mishap \in {"none", "crash", "lost"} =>
    Cardinality(costs.material) <= 1 /\ Cardinality(costs.tools) <= 1
=============================================================================
