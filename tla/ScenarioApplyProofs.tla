------------------------ MODULE ScenarioApplyProofs ------------------------
(***************************************************************************)
(* Apply Scenario, for any number of engineers, scenarios and revisions:   *)
(* with failures at any step, a restart at any point and any write lost on *)
(* its way back, an item shown as applied is whole.                        *)
(***************************************************************************)
EXTENDS ScenarioApply, FiniteSetTheorems, TLAPS

(* An apply that writes a cost holds what it was computed from.            *)
Holding == {"retire", "create", "swap", "remove", "mold"}

Typed(a) ==
  /\ apply[a].pc # "idle" => apply[a].want \in Scenarios
  /\ UnderWay(a) => apply[a].rev < MaxRevision
  /\ apply[a].pc \in Holding => apply[a].basis \in Basis

ApplyTyped ==
  /\ staging \in ApplyStagings /\ ApplyTypeOK
  /\ IsFiniteSet(costs.material) /\ IsFiniteSet(costs.tools)
  /\ \A a \in Engineers : Typed(a)

-----------------------------------------------------------------------------
(* How far an apply has come, by its next step.                            *)
PastTools == {"machines", "finish"}
PastRoute == {"tools", "remove", "mold"} \cup PastTools
PastMaterial == {"route", "swap"} \cup PastRoute
PastMerge == {"material", "retire", "create"} \cup PastMaterial
PastFields == {"merge"} \cup PastMerge

Whole(s) == <<s, s, s>>

Bases(records) == {r.basis : r \in records}

(* What an apply has made of the item so far, nothing else writing to it.  *)
Progress(a) ==
  LET pc == apply[a].pc
      s == apply[a].want
  IN  /\ pc \in PastFields => fields.item = s
      /\ pc \in PastMerge => fields.keys = s
      /\ pc \in Holding => apply[a].basis = Whole(s)
      /\ pc = "retire" => apply[a].records = costs.material
      /\ pc = "create" => costs.material = {}
      /\ pc \in PastMaterial => Bases(costs.material) = {Whole(s)}
      /\ pc \in PastRoute => costs.route = Whole(s)
      /\ pc = "remove" => apply[a].records = costs.tools
      /\ pc = "mold" => costs.tools = {} /\ s \in Molded
      /\ pc \in PastTools => Bases(costs.tools) = IF s \in Molded THEN {Whole(s)} ELSE {}

AtMostOne(records) == \A r, q \in records : r = q

Alone(a) ==
  /\ applied = [rev |-> apply[a].rev, status |-> "applying", old |-> FALSE]
  /\ applied.rev \in apply[a].expected
  /\ \A b \in Engineers : UnderWay(b) => a = b

ItemWhole ==
  applied.status = "applied" => \E s \in Scenarios :
    /\ fields = [item |-> s, keys |-> s]
    /\ Bases(costs.material) = {Whole(s)}
    /\ costs.route = Whole(s)
    /\ Bases(costs.tools) = IF s \in Molded THEN {Whole(s)} ELSE {}

Ordered == staging.mishap \in {"none", "crash", "lost"}

ApplyInv ==
  /\ ApplyTyped
  /\ Ordered => /\ \A a \in Engineers : UnderWay(a) => Alone(a) /\ Progress(a)
                /\ AtMostOne(costs.material) /\ AtMostOne(costs.tools)
                /\ ItemWhole

-----------------------------------------------------------------------------
(* A new record is one: no n records take n + 1 identities.                *)
LEMMA NewRecordType ==
  ASSUME NEW records \in SUBSET CostRecord, IsFiniteSet(records), NEW basis \in Basis
  PROVE NewRecord(records, basis) \in CostRecord /\ NewRecord(records, basis).basis = basis
<1> DEFINE n == Cardinality(records)
           Fresh(i) == \A r \in records : r.id # i
<1>1. n \in Nat BY FS_CardinalityType
<1>2. \E i \in 1..n + 1 : Fresh(i)
  <2>1. SUFFICES ASSUME \A i \in 1..n + 1 : \E r \in records : r.id = i PROVE FALSE OBVIOUS
  <2> DEFINE f == [i \in 1..n + 1 |-> CHOOSE r \in records : r.id = i]
  <2>2. \A i \in 1..n + 1 : f[i] \in records /\ f[i].id = i BY <2>1
  <2>3. f \in [1..n + 1 -> records] BY <2>2
  <2>4. IsFiniteSet(1..n + 1) /\ Cardinality(1..n + 1) = n + 1 BY <1>1, FS_Interval
  <2> HIDE DEF f
  <2>5. \E i, j \in 1..n + 1 : i # j /\ f[i] = f[j]
    BY <1>1, <2>3, <2>4, FS_PigeonHole
  <2>. QED BY <2>2, <2>5
<1>3. (CHOOSE i \in 1..n + 1 : Fresh(i)) \in 1..n + 1 BY <1>2
<1>. QED BY <1>1, <1>3 DEF NewRecord, CostRecord

(* One record is at most one, and its basis the only one.                  *)
LEMMA OneRecord == \A r : AtMostOne({r}) /\ Bases({r}) = {r.basis}
BY DEF AtMostOne, Bases

-----------------------------------------------------------------------------
(* A step of an apply under way that does not end it.                      *)
LEMMA UnderWayStep ==
  ASSUME ApplyInv, ApplyTyped', staging' = staging, applied' = applied, NEW a \in Engineers,
         UnderWay(a), UnderWay(a)',
         apply'[a].rev = apply[a].rev, apply'[a].expected = apply[a].expected,
         \A b \in Engineers : b # a => apply'[b] = apply[b],
         Ordered /\ Progress(a) /\ AtMostOne(costs.material) /\ AtMostOne(costs.tools)
           => /\ Progress(a)'
              /\ AtMostOne(costs'.material) /\ AtMostOne(costs'.tools)
  PROVE ApplyInv'
<1>. SUFFICES ASSUME Ordered
     PROVE /\ \A b \in Engineers : UnderWay(b)' => Alone(b)' /\ Progress(b)'
           /\ AtMostOne(costs'.material) /\ AtMostOne(costs'.tools)
           /\ ItemWhole'
  BY DEF ApplyInv, Ordered
<1>1. Alone(a) BY DEF ApplyInv
<1>2. \A b \in Engineers : UnderWay(b)' <=> b = a
  BY <1>1 DEF Alone, UnderWay
<1>3. Alone(a)' BY <1>1, <1>2 DEF Alone
<1>4. ItemWhole' BY <1>1 DEF ItemWhole, Alone
<1>. QED BY <1>2, <1>3, <1>4 DEF ApplyInv

(* A step after which no apply is under way that was not, and that touches *)
(* neither the item nor its costs.                                         *)
LEMMA OtherStep ==
  ASSUME ApplyInv, ApplyTyped', staging' = staging, UNCHANGED <<fields, costs>>,
         \A b \in Engineers : UnderWay(b)' => UnderWay(b) /\ apply'[b] = apply[b],
         Ordered => \/ applied' = applied
                    \/ applied'.status # "applied" /\ \A b \in Engineers : ~UnderWay(b)'
  PROVE ApplyInv'
<1>. SUFFICES ASSUME Ordered
     PROVE /\ \A b \in Engineers : UnderWay(b)' => Alone(b)' /\ Progress(b)'
           /\ AtMostOne(costs'.material) /\ AtMostOne(costs'.tools)
           /\ ItemWhole'
  BY DEF ApplyInv, Ordered
<1>1. \A b \in Engineers : UnderWay(b)' => Alone(b)' /\ Progress(b)'
  <2>. SUFFICES ASSUME NEW b \in Engineers, UnderWay(b)' PROVE Alone(b)' /\ Progress(b)' OBVIOUS
  <2>1. UnderWay(b) /\ apply'[b] = apply[b] /\ applied' = applied OBVIOUS
  <2>2. Alone(b) /\ Progress(b) BY <2>1 DEF ApplyInv
  <2>3. Alone(b)' BY <2>1, <2>2 DEF Alone
  <2>4. Progress(b)' BY <2>1, <2>2 DEF Progress
  <2>. QED BY <2>3, <2>4
<1>2. ItemWhole' BY DEF ItemWhole, ApplyInv
<1>. QED BY <1>1, <1>2 DEF ApplyInv

(* The types after a step that rewrites one apply.                         *)
LEMMA TypedStep ==
  ASSUME ApplyTyped, staging' = staging, NEW a \in Engineers, NEW r \in Apply,
         apply' = [apply EXCEPT ![a] = r],
         r.pc # "idle" => r.want \in Scenarios,
         r.pc \notin {"idle", "asked"} => r.rev < MaxRevision,
         r.pc \in Holding => r.basis \in Basis,
         applied' \in [rev : 0..MaxRevision, status : {"none", "applying", "applied", "failed"},
                       old : BOOLEAN],
         fields' \in [item : Staged, keys : Staged],
         costs' \in [material : SUBSET CostRecord, route : Basis \cup {<<>>}, tools : SUBSET CostRecord],
         IsFiniteSet(costs'.material), IsFiniteSet(costs'.tools)
  PROVE ApplyTyped'
<1>1. apply' \in [Engineers -> Apply] BY DEF ApplyTyped, ApplyTypeOK
<1>2. \A b \in Engineers : apply'[b] = IF b = a THEN r ELSE apply[b]
  BY DEF ApplyTyped, ApplyTypeOK
<1>3. \A b \in Engineers : Typed(b)' BY <1>2 DEF ApplyTyped, Typed, UnderWay
<1>. QED BY <1>1, <1>3 DEF ApplyTyped, ApplyTypeOK

-----------------------------------------------------------------------------
(* What the types say of an apply, the item and its costs.                 *)
LEMMA Shapes ==
  ASSUME ApplyTyped, NEW a \in Engineers
  PROVE /\ apply[a] \in Apply
        /\ apply[a].pc # "idle" => apply[a].want \in Scenarios /\ Computed(a) \in Basis
        /\ fields.item \in Staged /\ fields.keys \in Staged
        /\ costs.material \in SUBSET CostRecord /\ costs.tools \in SUBSET CostRecord
BY DEF ApplyTyped, ApplyTypeOK, Typed, Computed, Basis

(* A failing apply holds nothing and has written nothing more.             *)
LEMMA FailsType ==
  ASSUME ApplyTyped, NEW a \in Engineers, Fails(a)
  PROVE \E r \in Apply :
          /\ apply' = [apply EXCEPT ![a] = r]
          /\ r.pc = "failing" /\ r.want = apply[a].want
          /\ r.rev = apply[a].rev /\ r.expected = apply[a].expected
<1> DEFINE r == [apply[a] EXCEPT !.pc = "failing", !.records = {}, !.basis = <<>>]
<1>1. r \in Apply BY Shapes DEF Apply, ApplyPc
<1>2. apply' = [apply EXCEPT ![a] = r] BY DEF Fails, ApplyTyped, ApplyTypeOK
<1>3. apply[a] \in Apply BY Shapes
<1>4. /\ r.pc = "failing" /\ r.want = apply[a].want
      /\ r.rev = apply[a].rev /\ r.expected = apply[a].expected
  BY <1>3 DEF Apply
<1>. QED BY <1>1, <1>2, <1>4

(* An apply fails after a write that leaves at most one of each record.    *)
LEMMA FailsStep ==
  ASSUME ApplyInv, staging' = staging, applied' = applied, NEW a \in Engineers, UnderWay(a), Fails(a),
         fields' \in [item : Staged, keys : Staged],
         costs' \in [material : SUBSET CostRecord, route : Basis \cup {<<>>}, tools : SUBSET CostRecord],
         IsFiniteSet(costs'.material), IsFiniteSet(costs'.tools),
         Ordered /\ Progress(a) /\ AtMostOne(costs.material) /\ AtMostOne(costs.tools)
           => AtMostOne(costs'.material) /\ AtMostOne(costs'.tools)
  PROVE ApplyInv'
<1>1. ApplyTyped BY DEF ApplyInv
<1>2. PICK r \in Apply :
        /\ apply' = [apply EXCEPT ![a] = r]
        /\ r.pc = "failing" /\ r.want = apply[a].want
        /\ r.rev = apply[a].rev /\ r.expected = apply[a].expected
  BY <1>1, FailsType
<1>3. r.want \in Scenarios /\ r.rev < MaxRevision
  BY <1>1, <1>2 DEF ApplyTyped, Typed, UnderWay
<1>4. "failing" \notin Holding BY DEF Holding
<1>5. ApplyTyped'
  BY <1>1, <1>2, <1>3, <1>4, TypedStep DEF ApplyTyped, ApplyTypeOK
<1>6. \A b \in Engineers : apply'[b] = IF b = a THEN r ELSE apply[b]
  BY <1>1, <1>2 DEF ApplyTyped, ApplyTypeOK
<1>7. UnderWay(a)' BY <1>2, <1>6 DEF UnderWay
<1>8. Progress(a)'
  BY <1>2, <1>6 DEF Progress, PastFields, PastMerge, PastMaterial, PastRoute, PastTools, Holding
<1>. QED BY <1>2, <1>5, <1>6, <1>7, <1>8, UnderWayStep

(* An apply goes on, at a step at which it holds nothing.                  *)
LEMMA GoesOnType ==
  ASSUME ApplyTyped, NEW a \in Engineers, NEW pc \in ApplyPc \ Holding,
         apply' = [apply EXCEPT ![a].pc = pc, ![a].basis = <<>>]
  PROVE \E r \in Apply :
          /\ apply' = [apply EXCEPT ![a] = r]
          /\ r.pc = pc /\ r.want = apply[a].want
          /\ r.rev = apply[a].rev /\ r.expected = apply[a].expected
<1> DEFINE q == [apply[a] EXCEPT !.pc = pc, !.basis = <<>>]
<1>1. apply[a] \in Apply BY Shapes
<1>2. q \in Apply BY <1>1 DEF Apply
<1>3. apply' = [apply EXCEPT ![a] = q] BY DEF ApplyTyped, ApplyTypeOK
<1>4. /\ q.pc = pc /\ q.want = apply[a].want
      /\ q.rev = apply[a].rev /\ q.expected = apply[a].expected
  BY <1>1 DEF Apply
<1>. QED BY <1>2, <1>3, <1>4

(* A write that takes effect, whatever its caller hears.                   *)
LEMMA ProceedsStep ==
  ASSUME ApplyInv, staging' = staging, applied' = applied, NEW a \in Engineers, UnderWay(a),
         NEW pc \in ApplyPc \ (Holding \cup {"idle", "asked"}), Proceeds(a, pc),
         fields' \in [item : Staged, keys : Staged],
         costs' \in [material : SUBSET CostRecord, route : Basis \cup {<<>>}, tools : SUBSET CostRecord],
         IsFiniteSet(costs'.material), IsFiniteSet(costs'.tools),
         Ordered /\ Progress(a) /\ AtMostOne(costs.material) /\ AtMostOne(costs.tools)
           => AtMostOne(costs'.material) /\ AtMostOne(costs'.tools),
         Ordered /\ Progress(a) /\ apply'[a].pc = pc /\ apply'[a].want = apply[a].want => Progress(a)'
  PROVE ApplyInv'
<1>1. ApplyTyped BY DEF ApplyInv
<1>2. CASE Fails(a) BY <1>2, FailsStep
<1>3. CASE apply' = [apply EXCEPT ![a].pc = pc, ![a].basis = <<>>]
  <2>1. PICK r \in Apply :
          /\ apply' = [apply EXCEPT ![a] = r]
          /\ r.pc = pc /\ r.want = apply[a].want
          /\ r.rev = apply[a].rev /\ r.expected = apply[a].expected
    <3>1. pc \in ApplyPc \ Holding OBVIOUS
    <3>. QED BY <1>1, <1>3, <3>1, GoesOnType
  <2>2. r.want \in Scenarios /\ r.rev < MaxRevision
    BY <1>1, <2>1 DEF ApplyTyped, Typed, UnderWay
  <2>3. ApplyTyped' BY <1>1, <2>1, <2>2, TypedStep DEF ApplyTyped, ApplyTypeOK
  <2>4. \A b \in Engineers : apply'[b] = IF b = a THEN r ELSE apply[b]
    BY <1>1, <2>1 DEF ApplyTyped, ApplyTypeOK
  <2>5. UnderWay(a)' BY <2>1, <2>4 DEF UnderWay
  <2>. QED BY <2>1, <2>3, <2>4, <2>5, UnderWayStep
<1>. QED BY <1>2, <1>3 DEF Proceeds

(* A step that takes an apply under way to one that is.                    *)
LEMMA MovesStep ==
  ASSUME ApplyInv, staging' = staging, applied' = applied, NEW a \in Engineers, UnderWay(a),
         NEW r \in Apply, apply' = [apply EXCEPT ![a] = r],
         r.pc \notin {"idle", "asked"}, r.want = apply[a].want,
         r.rev = apply[a].rev, r.expected = apply[a].expected,
         r.pc \in Holding => r.basis \in Basis,
         fields' \in [item : Staged, keys : Staged],
         costs' \in [material : SUBSET CostRecord, route : Basis \cup {<<>>}, tools : SUBSET CostRecord],
         IsFiniteSet(costs'.material), IsFiniteSet(costs'.tools),
         Ordered /\ Progress(a) /\ AtMostOne(costs.material) /\ AtMostOne(costs.tools)
           => AtMostOne(costs'.material) /\ AtMostOne(costs'.tools),
         Ordered /\ Progress(a) /\ AtMostOne(costs.material) /\ AtMostOne(costs.tools) /\ apply'[a] = r
           => Progress(a)'
  PROVE ApplyInv'
<1>1. ApplyTyped BY DEF ApplyInv
<1>2. r.want \in Scenarios /\ r.rev < MaxRevision
  BY <1>1 DEF ApplyTyped, Typed, UnderWay
<1>3. ApplyTyped' BY <1>1, <1>2, TypedStep DEF ApplyTyped, ApplyTypeOK
<1>4. \A b \in Engineers : apply'[b] = IF b = a THEN r ELSE apply[b]
  BY <1>1 DEF ApplyTyped, ApplyTypeOK
<1>5. UnderWay(a)' BY <1>4 DEF UnderWay
<1>. QED BY <1>3, <1>4, <1>5, UnderWayStep

-----------------------------------------------------------------------------
(* The item's own columns, then the scenario keys.                         *)
LEMMA FieldsStep ==
  ASSUME ApplyInv, staging' = staging, NEW a \in Engineers, UpdateItem(a) \/ MergeOverrides(a)
  PROVE ApplyInv'
<1>1. ApplyTyped /\ UnderWay(a) /\ UNCHANGED <<applied, costs>>
  BY DEF ApplyInv, UpdateItem, MergeOverrides, UnderWay
<1>2. apply[a].want \in Staged BY <1>1, Shapes DEF Apply
<1>3. /\ fields' \in [item : Staged, keys : Staged]
      /\ costs' \in [material : SUBSET CostRecord, route : Basis \cup {<<>>}, tools : SUBSET CostRecord]
      /\ IsFiniteSet(costs'.material) /\ IsFiniteSet(costs'.tools)
      /\ fields \in [item : Staged, keys : Staged]
  BY <1>1, <1>2 DEF ApplyTyped, ApplyTypeOK, UpdateItem, MergeOverrides
<1> USE DEF Progress, PastFields, PastMerge, PastMaterial, PastRoute, PastTools, Holding
<1>4. CASE UpdateItem(a)
  <2>1. "merge" \in ApplyPc \ (Holding \cup {"idle", "asked"}) BY DEF ApplyPc
  <2>2. fields'.item = apply[a].want BY <1>3, <1>4 DEF UpdateItem
  <2>3. Proceeds(a, "merge") BY <1>4 DEF UpdateItem
  <2>4. apply'[a].pc = "merge" /\ apply'[a].want = apply[a].want => Progress(a)' BY <2>2
  <2>. QED BY <1>1, <1>3, <2>1, <2>3, <2>4, ProceedsStep
<1>5. CASE MergeOverrides(a)
  <2>1. "material" \in ApplyPc \ (Holding \cup {"idle", "asked"}) BY DEF ApplyPc
  <2>2. fields'.keys = apply[a].want /\ fields'.item = fields.item
    BY <1>3, <1>5 DEF MergeOverrides
  <2>3. Proceeds(a, "material") BY <1>5 DEF MergeOverrides
  <2>4. Progress(a) => fields.item = apply[a].want BY <1>5 DEF MergeOverrides
  <2>5. Progress(a) /\ apply'[a].pc = "material" /\ apply'[a].want = apply[a].want => Progress(a)'
    BY <2>2, <2>4
  <2>. QED BY <1>1, <1>3, <2>1, <2>3, <2>5, ProceedsStep
<1>. QED BY <1>4, <1>5

(* What is computed late in an apply is computed from its scenario alone.  *)
LEMMA ComputedWhole ==
  ASSUME NEW a \in Engineers, Progress(a), apply[a].pc \in PastMerge
  PROVE Computed(a) = Whole(apply[a].want)
BY DEF Progress, PastFields, Computed, Whole

(* The record kept, if one is, is the only one.                            *)
LEMMA ReadMaterialStep ==
  ASSUME ApplyInv, staging' = staging, NEW a \in Engineers, ReadMaterial(a)
  PROVE ApplyInv'
<1>1. ApplyTyped /\ UnderWay(a) /\ UNCHANGED <<applied, fields, costs>> /\ apply[a].pc = "material"
  BY DEF ApplyInv, ReadMaterial, UnderWay
<1>2. apply[a] \in Apply /\ Computed(a) \in Basis /\ costs.material \in SUBSET CostRecord
  BY <1>1, Shapes
<1>3. /\ fields' \in [item : Staged, keys : Staged]
      /\ costs' \in [material : SUBSET CostRecord, route : Basis \cup {<<>>}, tools : SUBSET CostRecord]
      /\ IsFiniteSet(costs'.material) /\ IsFiniteSet(costs'.tools)
  BY <1>1 DEF ApplyTyped, ApplyTypeOK
<1>4. "material" \in PastMerge BY DEF PastMerge
<1>5. CASE \E r \in costs.material : r.basis = Computed(a)
  <2> DEFINE q == [apply[a] EXCEPT !.pc = "route"]
  <2>1. q \in Apply /\ q.pc = "route" /\ q.want = apply[a].want
        /\ q.rev = apply[a].rev /\ q.expected = apply[a].expected
    BY <1>2 DEF Apply, ApplyPc
  <2>2. apply' = [apply EXCEPT ![a] = q]
    BY <1>1, <1>5 DEF ReadMaterial, ApplyTyped, ApplyTypeOK
  <2>3. "route" \notin Holding BY DEF Holding
  <2> HIDE DEF q
  <2>4. ASSUME Progress(a), AtMostOne(costs.material), apply'[a] = q PROVE Progress(a)'
    <3>1. PICK r \in costs.material : r.basis = Whole(apply[a].want)
      BY <1>1, <1>4, <1>5, <2>4, ComputedWhole
    <3>2. Bases(costs.material) = {Whole(apply[a].want)} BY <2>4, <3>1 DEF Bases, AtMostOne
    <3>. QED BY <1>1, <2>1, <2>4, <3>2
         DEF Progress, PastFields, PastMerge, PastMaterial, PastRoute, PastTools, Holding
  <2>. QED BY <1>1, <1>3, <2>1, <2>2, <2>3, <2>4, MovesStep
<1>6. CASE ~\E r \in costs.material : r.basis = Computed(a)
  <2> DEFINE q == [apply[a] EXCEPT !.pc = "retire", !.records = costs.material, !.basis = Computed(a)]
  <2>1. q \in Apply /\ q.pc = "retire" /\ q.want = apply[a].want
        /\ q.rev = apply[a].rev /\ q.expected = apply[a].expected
        /\ q.records = costs.material /\ q.basis = Computed(a)
    BY <1>2 DEF Apply, ApplyPc
  <2>2. apply' = [apply EXCEPT ![a] = q]
    BY <1>1, <1>6 DEF ReadMaterial, ApplyTyped, ApplyTypeOK
  <2> HIDE DEF q
  <2>3. ASSUME Progress(a), apply'[a] = q PROVE Progress(a)'
    <3>1. Computed(a) = Whole(apply[a].want) BY <1>1, <1>4, <2>3, ComputedWhole
    <3>. QED BY <1>1, <2>1, <2>3, <3>1
         DEF Progress, PastFields, PastMerge, PastMaterial, PastRoute, PastTools, Holding
  <2>. QED BY <1>1, <1>2, <1>3, <2>1, <2>2, <2>3, MovesStep
<1>. QED BY <1>5, <1>6

(* Every material record read is retired, one at a time.                   *)
LEMMA RetireStep ==
  ASSUME ApplyInv, staging' = staging, NEW a \in Engineers, RetireMaterial(a)
  PROVE ApplyInv'
<1>1. ApplyTyped /\ UnderWay(a) /\ UNCHANGED <<applied, fields>> /\ apply[a].pc = "retire"
  BY DEF ApplyInv, RetireMaterial, UnderWay
<1>2. apply[a] \in Apply /\ apply[a].basis \in Basis
  BY <1>1, Shapes DEF ApplyTyped, Typed, Holding
<1>3. /\ fields' \in [item : Staged, keys : Staged]
      /\ costs \in [material : SUBSET CostRecord, route : Basis \cup {<<>>}, tools : SUBSET CostRecord]
      /\ IsFiniteSet(costs.material) /\ IsFiniteSet(costs.tools)
  BY <1>1 DEF ApplyTyped, ApplyTypeOK
<1> USE DEF Progress, PastFields, PastMerge, PastMaterial, PastRoute, PastTools, Holding
<1>4. CASE apply[a].records = {}
  <2> DEFINE q == [apply[a] EXCEPT !.pc = "create"]
  <2>1. q \in Apply /\ q.pc = "create" /\ q.want = apply[a].want /\ q.basis = apply[a].basis
        /\ q.rev = apply[a].rev /\ q.expected = apply[a].expected
    BY <1>2 DEF Apply, ApplyPc
  <2>2. apply' = [apply EXCEPT ![a] = q] /\ costs' = costs
    BY <1>4 DEF RetireMaterial, ApplyTyped, ApplyTypeOK
  <2> HIDE DEF q
  <2>3. ASSUME Progress(a), apply'[a] = q PROVE Progress(a)'
    BY <1>1, <1>4, <2>1, <2>2, <2>3
  <2>. QED BY <1>1, <1>2, <1>3, <2>1, <2>2, <2>3, MovesStep
<1>5. CASE apply[a].records # {}
  <2>1. PICK r \in apply[a].records :
          /\ costs' = [costs EXCEPT !.material = @ \ {r}]
          /\ \/ apply' = [apply EXCEPT ![a].records = @ \ {r}]
             \/ Fails(a)
    BY <1>5 DEF RetireMaterial
  <2>2. costs'.material = costs.material \ {r} /\ costs'.route = costs.route /\ costs'.tools = costs.tools
        /\ costs' \in [material : SUBSET CostRecord, route : Basis \cup {<<>>}, tools : SUBSET CostRecord]
    BY <1>3, <2>1
  <2>3. IsFiniteSet(costs'.material) /\ IsFiniteSet(costs'.tools)
    BY <1>3, <2>2, FS_RemoveElement
  <2>4. AtMostOne(costs.material) /\ AtMostOne(costs.tools)
          => AtMostOne(costs'.material) /\ AtMostOne(costs'.tools)
    BY <2>2 DEF AtMostOne
  <2>5. CASE Fails(a) BY <1>1, <1>3, <2>2, <2>3, <2>4, <2>5, FailsStep
  <2>6. CASE apply' = [apply EXCEPT ![a].records = @ \ {r}]
    <3> DEFINE q == [apply[a] EXCEPT !.records = @ \ {r}]
    <3>1. q \in Apply /\ q.pc = "retire" /\ q.want = apply[a].want /\ q.basis = apply[a].basis
          /\ q.rev = apply[a].rev /\ q.expected = apply[a].expected /\ q.records = apply[a].records \ {r}
      BY <1>1, <1>2 DEF Apply
    <3>2. apply' = [apply EXCEPT ![a] = q] BY <1>1, <2>6 DEF ApplyTyped, ApplyTypeOK
    <3> HIDE DEF q
    <3>3. ASSUME Progress(a), apply'[a] = q PROVE Progress(a)'
      BY <1>1, <2>2, <3>1, <3>3
    <3>. QED BY <1>1, <1>2, <1>3, <2>2, <2>3, <2>4, <3>1, <3>2, <3>3, MovesStep
  <2>. QED BY <2>1, <2>5, <2>6
<1>. QED BY <1>4, <1>5

(* The record of what was computed, when none is left.                     *)
LEMMA CreateStep ==
  ASSUME ApplyInv, staging' = staging, NEW a \in Engineers, CreateMaterial(a) \/ CreateMold(a)
  PROVE ApplyInv'
<1> DEFINE what == apply[a].basis
<1>1. ApplyTyped /\ UnderWay(a) /\ UNCHANGED <<applied, fields>> /\ apply[a].pc \in {"create", "mold"}
  BY DEF ApplyInv, CreateMaterial, CreateMold, UnderWay
<1>2. what \in Basis BY <1>1 DEF ApplyTyped, Typed, Holding
<1>3. /\ fields' \in [item : Staged, keys : Staged]
      /\ costs \in [material : SUBSET CostRecord, route : Basis \cup {<<>>}, tools : SUBSET CostRecord]
      /\ IsFiniteSet(costs.material) /\ IsFiniteSet(costs.tools)
  BY <1>1 DEF ApplyTyped, ApplyTypeOK
<1> USE DEF Progress, PastFields, PastMerge, PastMaterial, PastRoute, PastTools, Holding
<1>4. CASE CreateMaterial(a)
  <2> DEFINE new == NewRecord(costs.material, what)
  <2>1. new \in CostRecord /\ new.basis = what BY <1>2, <1>3, NewRecordType
  <2> HIDE DEF new
  <2>2. costs' = [costs EXCEPT !.material = @ \cup {new}] BY <1>4 DEF CreateMaterial, new
  <2>3. costs'.material = costs.material \cup {new} /\ costs'.route = costs.route /\ costs'.tools = costs.tools
        /\ costs' \in [material : SUBSET CostRecord, route : Basis \cup {<<>>}, tools : SUBSET CostRecord]
    BY <1>3, <2>1, <2>2
  <2>4. IsFiniteSet(costs'.material) /\ IsFiniteSet(costs'.tools) BY <1>3, <2>3, FS_AddElement
  <2>5. apply[a].pc = "create" BY <1>4 DEF CreateMaterial
  <2>6. Progress(a) => costs.material = {} /\ what = Whole(apply[a].want) BY <2>5
  <2>7. Progress(a) => AtMostOne(costs'.material) /\ Bases(costs'.material) = {Whole(apply[a].want)}
    <3>1. Progress(a) => costs'.material = {new} BY <2>3, <2>6
    <3>. QED BY <2>1, <2>6, <3>1, OneRecord
  <2>8. Progress(a) /\ apply'[a].pc = "route" /\ apply'[a].want = apply[a].want => Progress(a)'
    BY <1>1, <2>5, <2>7
  <2>9. "route" \in ApplyPc \ (Holding \cup {"idle", "asked"}) /\ Proceeds(a, "route")
    BY <1>4 DEF ApplyPc, CreateMaterial
  <2>. QED BY <1>1, <1>3, <2>3, <2>4, <2>7, <2>8, <2>9, ProceedsStep
<1>5. CASE CreateMold(a)
  <2> DEFINE new == NewRecord(costs.tools, what)
  <2>1. new \in CostRecord /\ new.basis = what BY <1>2, <1>3, NewRecordType
  <2> HIDE DEF new
  <2>2. costs' = [costs EXCEPT !.tools = @ \cup {new}] BY <1>5 DEF CreateMold, new
  <2>3. costs'.tools = costs.tools \cup {new} /\ costs'.route = costs.route /\ costs'.material = costs.material
        /\ costs' \in [material : SUBSET CostRecord, route : Basis \cup {<<>>}, tools : SUBSET CostRecord]
    BY <1>3, <2>1, <2>2
  <2>4. IsFiniteSet(costs'.material) /\ IsFiniteSet(costs'.tools) BY <1>3, <2>3, FS_AddElement
  <2>5. apply[a].pc = "mold" BY <1>5 DEF CreateMold
  <2>6. Progress(a) => costs.tools = {} /\ what = Whole(apply[a].want) /\ apply[a].want \in Molded
    BY <2>5
  <2>7. Progress(a) => AtMostOne(costs'.tools) /\ Bases(costs'.tools) = {Whole(apply[a].want)}
    <3>1. Progress(a) => costs'.tools = {new} BY <2>3, <2>6
    <3>. QED BY <2>1, <2>6, <3>1, OneRecord
  <2>8. Progress(a) /\ apply'[a].pc = "machines" /\ apply'[a].want = apply[a].want => Progress(a)'
    BY <1>1, <2>3, <2>5, <2>6, <2>7
  <2>9. "machines" \in ApplyPc \ (Holding \cup {"idle", "asked"}) /\ Proceeds(a, "machines")
    BY <1>5 DEF ApplyPc, CreateMold
  <2>. QED BY <1>1, <1>3, <2>3, <2>4, <2>7, <2>8, <2>9, ProceedsStep
<1>. QED BY <1>4, <1>5

(* The route is compared, then written in one transaction.                 *)
LEMMA RouteStep ==
  ASSUME ApplyInv, staging' = staging, NEW a \in Engineers, CompareRoutes(a) \/ WriteRoute(a)
  PROVE ApplyInv'
<1>1. ApplyTyped /\ UnderWay(a) /\ UNCHANGED <<applied, fields>> /\ apply[a].pc \in {"route", "swap"}
  BY DEF ApplyInv, CompareRoutes, WriteRoute, UnderWay
<1>2. apply[a] \in Apply /\ Computed(a) \in Basis BY <1>1, Shapes
<1>3. /\ fields' \in [item : Staged, keys : Staged]
      /\ costs \in [material : SUBSET CostRecord, route : Basis \cup {<<>>}, tools : SUBSET CostRecord]
      /\ IsFiniteSet(costs.material) /\ IsFiniteSet(costs.tools)
  BY <1>1 DEF ApplyTyped, ApplyTypeOK
<1>4. CASE CompareRoutes(a)
  <2> DEFINE q == [apply[a] EXCEPT !.pc = "swap", !.basis = Computed(a)]
  <2>1. q \in Apply /\ q.pc = "swap" /\ q.want = apply[a].want /\ q.basis = Computed(a)
        /\ q.rev = apply[a].rev /\ q.expected = apply[a].expected
    BY <1>2 DEF Apply, ApplyPc
  <2>2. apply' = [apply EXCEPT ![a] = q] /\ costs' = costs /\ apply[a].pc = "route"
    BY <1>4 DEF CompareRoutes, ApplyInv, ApplyTyped, ApplyTypeOK
  <2>3. "route" \in PastMerge BY DEF PastMerge, PastMaterial
  <2> HIDE DEF q
  <2>4. ASSUME Progress(a), apply'[a] = q PROVE Progress(a)'
    <3>1. Computed(a) = Whole(apply[a].want) BY <2>2, <2>3, <2>4, ComputedWhole
    <3>. QED BY <1>1, <2>1, <2>2, <2>4, <3>1
         DEF Progress, PastFields, PastMerge, PastMaterial, PastRoute, PastTools, Holding
  <2>. QED BY <1>1, <1>2, <1>3, <2>1, <2>2, <2>4, MovesStep
<1>5. CASE WriteRoute(a)
  <2>1. apply[a].pc = "swap" /\ Proceeds(a, "tools") BY <1>5 DEF WriteRoute
  <2>2. apply[a].basis \in Basis BY <1>1, <2>1 DEF ApplyTyped, Typed, Holding
  <2>3. costs'.route = apply[a].basis /\ costs'.material = costs.material /\ costs'.tools = costs.tools
        /\ costs' \in [material : SUBSET CostRecord, route : Basis \cup {<<>>}, tools : SUBSET CostRecord]
    BY <1>3, <1>5, <2>2 DEF WriteRoute
  <2>4. Progress(a) /\ apply'[a].pc = "tools" /\ apply'[a].want = apply[a].want => Progress(a)'
    BY <1>1, <2>1, <2>3 DEF Progress, PastFields, PastMerge, PastMaterial, PastRoute, PastTools, Holding
  <2>5. "tools" \in ApplyPc \ (Holding \cup {"idle", "asked"}) BY DEF ApplyPc, Holding
  <2>. QED BY <1>1, <1>3, <2>1, <2>3, <2>4, <2>5, ProceedsStep
<1>. QED BY <1>4, <1>5

(* Tools that are those the route needs are kept, others all removed.      *)
LEMMA ToolsStep ==
  ASSUME ApplyInv, staging' = staging, NEW a \in Engineers, ReadTools(a)
  PROVE ApplyInv'
<1>1. ApplyTyped /\ UnderWay(a) /\ UNCHANGED <<applied, fields, costs>> /\ apply[a].pc = "tools"
  BY DEF ApplyInv, ReadTools, UnderWay
<1>2. apply[a] \in Apply /\ Computed(a) \in Basis /\ costs.tools \in SUBSET CostRecord
  BY <1>1, Shapes
<1>3. /\ fields' \in [item : Staged, keys : Staged]
      /\ costs' \in [material : SUBSET CostRecord, route : Basis \cup {<<>>}, tools : SUBSET CostRecord]
      /\ IsFiniteSet(costs'.material) /\ IsFiniteSet(costs'.tools)
  BY <1>1 DEF ApplyTyped, ApplyTypeOK
<1>4. "tools" \in PastMerge BY DEF PastMerge, PastMaterial, PastRoute
<1> DEFINE upToDate == IF NeedsMold(a) THEN {r.basis : r \in costs.tools} = {Computed(a)}
                                            /\ Cardinality(costs.tools) = 1
                       ELSE costs.tools = {}
<1>5. apply' = IF upToDate THEN [apply EXCEPT ![a].pc = "machines"]
               ELSE [apply EXCEPT ![a].pc = "remove", ![a].records = costs.tools,
                                  ![a].basis = Computed(a)]
  BY DEF ReadTools
<1>6. CASE upToDate
  <2> DEFINE q == [apply[a] EXCEPT !.pc = "machines"]
  <2>1. q \in Apply /\ q.pc = "machines" /\ q.want = apply[a].want
        /\ q.rev = apply[a].rev /\ q.expected = apply[a].expected
    BY <1>2 DEF Apply, ApplyPc
  <2>2. apply' = [apply EXCEPT ![a] = q] BY <1>1, <1>5, <1>6 DEF ApplyTyped, ApplyTypeOK
  <2>3. "machines" \notin Holding BY DEF Holding
  <2> HIDE DEF q
  <2>4. ASSUME Progress(a), apply'[a] = q PROVE Progress(a)'
    <3>1. Computed(a) = Whole(apply[a].want) BY <1>1, <1>4, <2>4, ComputedWhole
    <3>2. Bases(costs.tools) = IF apply[a].want \in Molded THEN {Whole(apply[a].want)} ELSE {}
      BY <1>6, <3>1 DEF Bases, NeedsMold
    <3>. QED BY <1>1, <2>1, <2>4, <3>2
         DEF Progress, PastFields, PastMerge, PastMaterial, PastRoute, PastTools, Holding
  <2>. QED BY <1>1, <1>3, <2>1, <2>2, <2>3, <2>4, MovesStep
<1>7. CASE ~upToDate
  <2> DEFINE q == [apply[a] EXCEPT !.pc = "remove", !.records = costs.tools, !.basis = Computed(a)]
  <2>1. q \in Apply /\ q.pc = "remove" /\ q.want = apply[a].want
        /\ q.rev = apply[a].rev /\ q.expected = apply[a].expected
        /\ q.records = costs.tools /\ q.basis = Computed(a)
    BY <1>2 DEF Apply, ApplyPc
  <2>2. apply' = [apply EXCEPT ![a] = q] BY <1>1, <1>5, <1>7 DEF ApplyTyped, ApplyTypeOK
  <2> HIDE DEF q
  <2>3. ASSUME Progress(a), apply'[a] = q PROVE Progress(a)'
    <3>1. Computed(a) = Whole(apply[a].want) BY <1>1, <1>4, <2>3, ComputedWhole
    <3>. QED BY <1>1, <2>1, <2>3, <3>1
         DEF Progress, PastFields, PastMerge, PastMaterial, PastRoute, PastTools, Holding
  <2>. QED BY <1>1, <1>2, <1>3, <2>1, <2>2, <2>3, MovesStep
<1>. QED BY <1>6, <1>7

(* Each tool record read is removed; a mold follows only if one is needed. *)
LEMMA RemoveStep ==
  ASSUME ApplyInv, staging' = staging, NEW a \in Engineers, RemoveTool(a)
  PROVE ApplyInv'
<1>1. ApplyTyped /\ UnderWay(a) /\ UNCHANGED <<applied, fields>> /\ apply[a].pc = "remove"
  BY DEF ApplyInv, RemoveTool, UnderWay
<1>2. apply[a] \in Apply /\ apply[a].basis \in Basis
  BY <1>1, Shapes DEF ApplyTyped, Typed, Holding
<1>3. /\ fields' \in [item : Staged, keys : Staged]
      /\ costs \in [material : SUBSET CostRecord, route : Basis \cup {<<>>}, tools : SUBSET CostRecord]
      /\ IsFiniteSet(costs.material) /\ IsFiniteSet(costs.tools)
  BY <1>1 DEF ApplyTyped, ApplyTypeOK
<1>4. CASE apply[a].records = {}
  <2>1. costs' = costs /\ apply' = [apply EXCEPT ![a].pc = IF NeedsMold(a) THEN "mold" ELSE "machines",
                                                 ![a].basis = IF NeedsMold(a) THEN @ ELSE <<>>]
    BY <1>4 DEF RemoveTool
  <2>2. CASE NeedsMold(a)
    <3> DEFINE q == [apply[a] EXCEPT !.pc = "mold"]
    <3>1. q \in Apply /\ q.pc = "mold" /\ q.want = apply[a].want
          /\ q.rev = apply[a].rev /\ q.expected = apply[a].expected /\ q.basis = apply[a].basis
      BY <1>2 DEF Apply, ApplyPc
    <3>2. apply' = [apply EXCEPT ![a] = q] BY <1>1, <2>1, <2>2 DEF ApplyTyped, ApplyTypeOK
    <3>3. q.pc \in Holding => q.basis \in Basis BY <1>2, <3>1 DEF Holding
    <3> HIDE DEF q
    <3>4. ASSUME Progress(a), apply'[a] = q PROVE Progress(a)'
      <4>1. costs.tools = {} BY <1>1, <1>4, <3>4 DEF Progress
      <4>2. Bases(costs.tools) = {} BY <4>1 DEF Bases
      <4>. QED BY <1>1, <2>1, <2>2, <3>1, <3>4, <4>1, <4>2
           DEF NeedsMold, Progress, PastFields, PastMerge, PastMaterial, PastRoute, PastTools, Holding
    <3>. QED BY <1>1, <1>3, <2>1, <3>1, <3>2, <3>3, <3>4, MovesStep
  <2>3. CASE ~NeedsMold(a)
    <3> DEFINE q == [apply[a] EXCEPT !.pc = "machines", !.basis = <<>>]
    <3>1. q \in Apply /\ q.pc = "machines" /\ q.want = apply[a].want
          /\ q.rev = apply[a].rev /\ q.expected = apply[a].expected
      BY <1>2 DEF Apply, ApplyPc
    <3>2. apply' = [apply EXCEPT ![a] = q] BY <1>1, <2>1, <2>3 DEF ApplyTyped, ApplyTypeOK
    <3>3. q.pc \in Holding => q.basis \in Basis BY <1>2, <3>1 DEF Holding
    <3> HIDE DEF q
    <3>4. ASSUME Progress(a), apply'[a] = q PROVE Progress(a)'
      <4>1. costs.tools = {} BY <1>1, <1>4, <3>4 DEF Progress
      <4>2. Bases(costs.tools) = {} BY <4>1 DEF Bases
      <4>. QED BY <1>1, <2>1, <2>3, <3>1, <3>4, <4>1, <4>2
           DEF NeedsMold, Progress, PastFields, PastMerge, PastMaterial, PastRoute, PastTools, Holding
    <3>. QED BY <1>1, <1>3, <2>1, <3>1, <3>2, <3>3, <3>4, MovesStep
  <2>. QED BY <2>2, <2>3
<1>5. CASE apply[a].records # {}
  <2>1. PICK r \in apply[a].records :
          /\ costs' = [costs EXCEPT !.tools = @ \ {r}]
          /\ \/ apply' = [apply EXCEPT ![a].records = @ \ {r}]
             \/ Fails(a)
    BY <1>5 DEF RemoveTool
  <2>2. costs'.tools = costs.tools \ {r} /\ costs'.route = costs.route /\ costs'.material = costs.material
        /\ costs' \in [material : SUBSET CostRecord, route : Basis \cup {<<>>}, tools : SUBSET CostRecord]
    BY <1>3, <2>1
  <2>3. IsFiniteSet(costs'.material) /\ IsFiniteSet(costs'.tools)
    BY <1>3, <2>2, FS_RemoveElement
  <2>4. AtMostOne(costs.material) /\ AtMostOne(costs.tools)
          => AtMostOne(costs'.material) /\ AtMostOne(costs'.tools)
    BY <2>2 DEF AtMostOne
  <2>5. CASE Fails(a) BY <1>1, <1>3, <2>2, <2>3, <2>4, <2>5, FailsStep
  <2>6. CASE apply' = [apply EXCEPT ![a].records = @ \ {r}]
    <3> DEFINE q == [apply[a] EXCEPT !.records = @ \ {r}]
    <3>1. q \in Apply /\ q.pc = "remove" /\ q.want = apply[a].want /\ q.basis = apply[a].basis
          /\ q.rev = apply[a].rev /\ q.expected = apply[a].expected /\ q.records = apply[a].records \ {r}
      BY <1>1, <1>2 DEF Apply
    <3>2. apply' = [apply EXCEPT ![a] = q] BY <1>1, <2>6 DEF ApplyTyped, ApplyTypeOK
    <3> HIDE DEF q
    <3>3. ASSUME Progress(a), apply'[a] = q PROVE Progress(a)'
      BY <1>1, <2>2, <3>1, <3>3
         DEF Progress, PastFields, PastMerge, PastMaterial, PastRoute, PastTools, Holding
    <3>. QED BY <1>1, <1>2, <1>3, <2>2, <2>3, <2>4, <3>1, <3>2, <3>3, MovesStep
  <2>. QED BY <2>1, <2>5, <2>6
<1>. QED BY <1>4, <1>5

(* The machines picked by hand are saved apart.                            *)
LEMMA MachinesStep ==
  ASSUME ApplyInv, staging' = staging, NEW a \in Engineers, SaveMachines(a)
  PROVE ApplyInv'
<1>1. ApplyTyped /\ UnderWay(a) /\ UNCHANGED <<applied, fields, costs>> /\ apply[a].pc = "machines"
  BY DEF ApplyInv, SaveMachines, UnderWay
<1>2. apply[a] \in Apply BY <1>1, Shapes
<1>3. /\ fields' \in [item : Staged, keys : Staged]
      /\ costs' \in [material : SUBSET CostRecord, route : Basis \cup {<<>>}, tools : SUBSET CostRecord]
      /\ IsFiniteSet(costs'.material) /\ IsFiniteSet(costs'.tools)
  BY <1>1 DEF ApplyTyped, ApplyTypeOK
<1> DEFINE q == [apply[a] EXCEPT !.pc = "finish"]
<1>4. q \in Apply /\ q.pc = "finish" /\ q.want = apply[a].want
      /\ q.rev = apply[a].rev /\ q.expected = apply[a].expected
  BY <1>2 DEF Apply, ApplyPc
<1>5. apply' = [apply EXCEPT ![a] = q] BY <1>1 DEF SaveMachines, ApplyTyped, ApplyTypeOK
<1>6. "finish" \notin Holding BY DEF Holding
<1> HIDE DEF q
<1>7. ASSUME Progress(a), apply'[a] = q PROVE Progress(a)'
  BY <1>1, <1>4, <1>7
     DEF Progress, PastFields, PastMerge, PastMaterial, PastRoute, PastTools, Holding
<1>. QED BY <1>1, <1>3, <1>4, <1>5, <1>6, <1>7, MovesStep

-----------------------------------------------------------------------------
(* No apply at all is one.                                                 *)
LEMMA IdleType == Idle \in Apply /\ Idle.pc = "idle"
BY ApplyAssumption DEF Idle, Apply, ApplyPc, Staged

(* An apply that ends, or never begins, leaves nothing under way.          *)
LEMMA EndsType ==
  ASSUME ApplyTyped, staging' = staging, UNCHANGED <<fields, costs>>, NEW a \in Engineers,
         apply' = [apply EXCEPT ![a] = Idle],
         applied' \in [rev : 0..MaxRevision, status : {"none", "applying", "applied", "failed"},
                       old : BOOLEAN]
  PROVE /\ ApplyTyped'
        /\ \A b \in Engineers : UnderWay(b)' => b # a /\ UnderWay(b) /\ apply'[b] = apply[b]
<1>1. ApplyTyped'
  <2>1. "idle" \notin Holding BY DEF Holding
  <2>. QED BY <2>1, IdleType, TypedStep DEF ApplyTyped, ApplyTypeOK
<1>2. \A b \in Engineers : apply'[b] = IF b = a THEN Idle ELSE apply[b]
  BY DEF ApplyTyped, ApplyTypeOK
<1>3. \A b \in Engineers : UnderWay(b)' => b # a /\ UnderWay(b) /\ apply'[b] = apply[b]
  BY <1>2, IdleType DEF UnderWay
<1>. QED BY <1>1, <1>3

(* Asking, or being refused, writes nothing.                               *)
LEMMA AskStep ==
  ASSUME ApplyInv, staging' = staging, NEW a \in Engineers, Ask(a) \/ NotBegun(a)
  PROVE ApplyInv'
<1>1. ApplyTyped /\ UNCHANGED <<applied, fields, costs>> BY DEF ApplyInv, Ask, NotBegun
<1>2. applied \in [rev : 0..MaxRevision, status : {"none", "applying", "applied", "failed"},
                   old : BOOLEAN]
  BY <1>1 DEF ApplyTyped, ApplyTypeOK
<1>3. CASE Ask(a)
  <2>1. PICK s \in staging.wants, e \in {{applied.rev}, 0..MaxRevision} :
          apply' = [apply EXCEPT ![a] = [Idle EXCEPT !.pc = "asked", !.want = s, !.expected = e]]
    BY <1>3 DEF Ask
  <2>2. s \in Scenarios /\ e \subseteq 0..MaxRevision
    BY <1>1, <1>2, ApplyAssumption DEF ApplyTyped
  <2> DEFINE q == [Idle EXCEPT !.pc = "asked", !.want = s, !.expected = e]
  <2>3. q \in Apply /\ q.pc = "asked" /\ q.want = s
    <3>1. "asked" \in ApplyPc /\ s \in Staged BY <2>2 DEF ApplyPc, Staged
    <3>. QED BY <2>2, <3>1, IdleType DEF Apply
  <2>4. "asked" \notin Holding BY DEF Holding
  <2> HIDE DEF q
  <2>5. apply' = [apply EXCEPT ![a] = q] BY <2>1 DEF q
  <2>6. ApplyTyped' BY <1>1, <2>2, <2>3, <2>4, <2>5, TypedStep DEF ApplyTyped, ApplyTypeOK
  <2>7. \A b \in Engineers : apply'[b] = IF b = a THEN q ELSE apply[b]
    BY <1>1, <2>5 DEF ApplyTyped, ApplyTypeOK
  <2>8. \A b \in Engineers : UnderWay(b)' => UnderWay(b) /\ apply'[b] = apply[b]
    BY <2>3, <2>7 DEF UnderWay
  <2>. QED BY <1>1, <2>6, <2>8, OtherStep
<1>4. CASE NotBegun(a)
  <2>1. apply' = [apply EXCEPT ![a] = Idle] BY <1>4 DEF NotBegun
  <2>2. /\ ApplyTyped'
        /\ \A b \in Engineers : UnderWay(b)' => b # a /\ UnderWay(b) /\ apply'[b] = apply[b]
    BY <1>1, <1>2, <2>1, EndsType
  <2>. QED BY <1>1, <2>2, OtherStep
<1>. QED BY <1>3, <1>4

(* An apply begins when none is under way: the state of the item says so.  *)
LEMMA BeginStep ==
  ASSUME ApplyInv, staging' = staging, NEW a \in Engineers, Begin(a)
  PROVE ApplyInv'
<1>1. /\ ApplyTyped /\ UNCHANGED <<fields, costs>>
      /\ apply[a].pc = "asked" /\ applied.rev \in apply[a].expected /\ ~Blocked /\ applied.rev < MaxRevision
      /\ applied' = [rev |-> applied.rev, status |-> "applying", old |-> FALSE]
  BY DEF ApplyInv, Begin
<1>2. applied.rev \in 0..MaxRevision BY <1>1 DEF ApplyTyped, ApplyTypeOK
<1>3. applied' \in [rev : 0..MaxRevision, status : {"none", "applying", "applied", "failed"},
                    old : BOOLEAN]
  BY <1>1, <1>2
<1>4. Ordered => \A b \in Engineers : ~UnderWay(b)
  BY <1>1 DEF ApplyInv, Alone, Blocked
<1>5. CASE apply' = [apply EXCEPT ![a] = Idle]
  <2>1. /\ ApplyTyped'
        /\ \A b \in Engineers : UnderWay(b)' => b # a /\ UnderWay(b) /\ apply'[b] = apply[b]
    BY <1>1, <1>3, <1>5, EndsType
  <2>. QED BY <1>1, <1>4, <2>1, OtherStep
<1>6. CASE apply' = [apply EXCEPT ![a].pc = "fields", ![a].rev = applied.rev]
  <2> DEFINE q == [apply[a] EXCEPT !.pc = "fields", !.rev = applied.rev]
  <2>1. apply[a] \in Apply /\ apply[a].want \in Scenarios BY <1>1, Shapes
  <2>2. q \in Apply /\ q.pc = "fields" /\ q.want = apply[a].want
        /\ q.rev = applied.rev /\ q.expected = apply[a].expected
    BY <1>2, <2>1 DEF Apply, ApplyPc
  <2>3. apply' = [apply EXCEPT ![a] = q] BY <1>1, <1>6 DEF ApplyTyped, ApplyTypeOK
  <2>4. "fields" \notin Holding BY DEF Holding
  <2> HIDE DEF q
  <2>5. ApplyTyped'
    BY <1>1, <1>3, <2>1, <2>2, <2>3, <2>4, TypedStep DEF ApplyTyped, ApplyTypeOK
  <2>6. \A b \in Engineers : apply'[b] = IF b = a THEN q ELSE apply[b]
    BY <1>1, <2>3 DEF ApplyTyped, ApplyTypeOK
  <2>7. SUFFICES ASSUME Ordered
        PROVE /\ \A b \in Engineers : UnderWay(b)' => Alone(b)' /\ Progress(b)'
              /\ AtMostOne(costs.material) /\ AtMostOne(costs.tools)
              /\ ItemWhole'
    BY <1>1, <2>5 DEF ApplyInv, Ordered
  <2>8. \A b \in Engineers : UnderWay(b)' => b = a BY <1>4, <2>6, <2>7 DEF UnderWay
  <2>9. Alone(a)'
    <3>1. \A b \in Engineers : UnderWay(b)' => a = b BY <2>8
    <3>. QED BY <1>1, <2>2, <2>6, <3>1 DEF Alone
  <2>10. Progress(a)'
    BY <2>2, <2>6 DEF Progress, PastFields, PastMerge, PastMaterial, PastRoute, PastTools, Holding
  <2>11. ItemWhole' BY <1>1 DEF ItemWhole
  <2>. QED BY <2>7, <2>8, <2>9, <2>10, <2>11 DEF ApplyInv
<1>. QED BY <1>5, <1>6 DEF Begin

(* The last write: the item is that of the scenario, all of it.            *)
LEMMA FinishStep ==
  ASSUME ApplyInv, staging' = staging, NEW a \in Engineers, FinishApply(a)
  PROVE ApplyInv'
<1>1. /\ ApplyTyped /\ UnderWay(a) /\ apply[a].pc = "finish" /\ UNCHANGED <<fields, costs>>
      /\ applied' = [rev |-> apply[a].rev + 1, status |-> "applied", old |-> FALSE]
  BY DEF ApplyInv, FinishApply, UnderWay
<1>2. apply[a] \in Apply /\ apply[a].rev < MaxRevision /\ apply[a].want \in Scenarios
  BY <1>1, Shapes DEF ApplyTyped, Typed
<1>3. applied' \in [rev : 0..MaxRevision, status : {"none", "applying", "applied", "failed"},
                    old : BOOLEAN]
  <2>1. apply[a].rev + 1 \in 0..MaxRevision BY <1>2, ApplyAssumption DEF Apply
  <2>. QED BY <1>1, <2>1
<1>4. CASE apply' = [apply EXCEPT ![a] = Idle]
  <2>1. /\ ApplyTyped'
        /\ \A b \in Engineers : UnderWay(b)' => b # a /\ UnderWay(b) /\ apply'[b] = apply[b]
    BY <1>1, <1>3, <1>4, EndsType
  <2>2. SUFFICES ASSUME Ordered
        PROVE /\ \A b \in Engineers : UnderWay(b)' => Alone(b)' /\ Progress(b)'
              /\ AtMostOne(costs.material) /\ AtMostOne(costs.tools)
              /\ ItemWhole'
    BY <1>1, <2>1 DEF ApplyInv, Ordered
  <2>3. Alone(a) /\ Progress(a) BY <1>1, <2>2 DEF ApplyInv
  <2>4. \A b \in Engineers : ~UnderWay(b)' BY <2>1, <2>3 DEF Alone
  <2>5. ItemWhole'
    <3>1. /\ fields.item = apply[a].want /\ fields.keys = apply[a].want
          /\ Bases(costs.material) = {Whole(apply[a].want)} /\ costs.route = Whole(apply[a].want)
          /\ Bases(costs.tools) = IF apply[a].want \in Molded THEN {Whole(apply[a].want)} ELSE {}
      BY <1>1, <2>3 DEF Progress, PastFields, PastMerge, PastMaterial, PastRoute, PastTools
    <3>2. fields = [item |-> apply[a].want, keys |-> apply[a].want]
      BY <1>1, <3>1 DEF ApplyTyped, ApplyTypeOK
    <3>. QED BY <1>1, <1>2, <3>1, <3>2 DEF ItemWhole
  <2>. QED BY <2>2, <2>4, <2>5 DEF ApplyInv
<1>5. CASE staging.mishap = "unconfirmed" /\ Fails(a)
  <2>1. PICK r \in Apply :
          /\ apply' = [apply EXCEPT ![a] = r]
          /\ r.pc = "failing" /\ r.want = apply[a].want /\ r.rev = apply[a].rev
    BY <1>1, <1>5, FailsType
  <2>2. "failing" \notin Holding BY DEF Holding
  <2>3. ApplyTyped' BY <1>1, <1>2, <1>3, <2>1, <2>2, TypedStep DEF ApplyTyped, ApplyTypeOK
  <2>. QED BY <1>5, <2>3 DEF ApplyInv, Ordered
<1>. QED BY <1>1, <1>4, <1>5 DEF FinishApply

(* A failure is recorded over the revision it began at, or is not.         *)
LEMMA FailStep ==
  ASSUME ApplyInv, staging' = staging, NEW a \in Engineers, StepFails(a) \/ FailApply(a)
  PROVE ApplyInv'
<1>1. ApplyTyped /\ UnderWay(a) /\ UNCHANGED <<fields, costs>>
  BY DEF ApplyInv, StepFails, FailApply, UnderWay
<1>2. CASE StepFails(a)
  <2>1. Fails(a) /\ applied' = applied BY <1>2 DEF StepFails
  <2>2. /\ fields' \in [item : Staged, keys : Staged]
        /\ costs' \in [material : SUBSET CostRecord, route : Basis \cup {<<>>}, tools : SUBSET CostRecord]
        /\ IsFiniteSet(costs'.material) /\ IsFiniteSet(costs'.tools)
    BY <1>1 DEF ApplyTyped, ApplyTypeOK
  <2>. QED BY <1>1, <2>1, <2>2, FailsStep
<1>3. CASE FailApply(a)
  <2>1. /\ applied' \in {applied, [rev |-> apply[a].rev, status |-> "failed", old |-> FALSE]}
        /\ apply' = [apply EXCEPT ![a] = Idle]
    BY <1>3 DEF FailApply
  <2>2. apply[a].rev \in 0..MaxRevision BY <1>1, Shapes DEF Apply
  <2>3. applied' \in [rev : 0..MaxRevision, status : {"none", "applying", "applied", "failed"},
                      old : BOOLEAN]
    <3>1. CASE applied' = applied BY <1>1, <3>1 DEF ApplyTyped, ApplyTypeOK
    <3>2. CASE applied' = [rev |-> apply[a].rev, status |-> "failed", old |-> FALSE] BY <2>2, <3>2
    <3>. QED BY <2>1, <3>1, <3>2
  <2>4. /\ ApplyTyped'
        /\ \A b \in Engineers : UnderWay(b)' => b # a /\ UnderWay(b) /\ apply'[b] = apply[b]
    BY <1>1, <2>1, <2>3, EndsType
  <2>5. Ordered => \A b \in Engineers : ~UnderWay(b)'
    BY <1>1, <2>4 DEF ApplyInv, Alone
  <2>6. applied' = applied \/ applied'.status # "applied" BY <2>1
  <2>. QED BY <1>1, <2>4, <2>5, <2>6, OtherStep
<1>. QED BY <1>2, <1>3

(* The state of an apply grows old, or the backend dies: what was written  *)
(* stays.                                                                  *)
LEMMA AloneStep ==
  ASSUME ApplyInv, staging' = staging, GrowsOld \/ BackendDies
  PROVE ApplyInv'
<1>1. ApplyTyped /\ UNCHANGED <<fields, costs>> BY DEF ApplyInv, GrowsOld, BackendDies
<1>2. CASE GrowsOld
  <2>1. /\ apply' = apply /\ applied.status = "applying"
        /\ applied' = [applied EXCEPT !.old = TRUE]
        /\ Ordered => \A b \in Engineers : ~UnderWay(b)
    BY <1>2 DEF GrowsOld, Blocked, Ordered
  <2>2. /\ applied'.status = "applying"
        /\ applied' \in [rev : 0..MaxRevision, status : {"none", "applying", "applied", "failed"},
                         old : BOOLEAN]
    BY <1>1, <2>1 DEF ApplyTyped, ApplyTypeOK
  <2>3. \A b \in Engineers : (UnderWay(b)' <=> UnderWay(b)) /\ (Typed(b)' <=> Typed(b))
    BY <2>1 DEF UnderWay, Typed
  <2>4. ApplyTyped' BY <1>1, <2>1, <2>2, <2>3 DEF ApplyTyped, ApplyTypeOK
  <2>. QED BY <1>1, <2>1, <2>2, <2>3, <2>4, OtherStep
<1>3. CASE BackendDies
  <2>1. apply' = [b \in Engineers |-> Idle] /\ applied' = applied BY <1>3 DEF BackendDies
  <2>2. \A b \in Engineers : ~UnderWay(b)' BY <2>1, IdleType DEF UnderWay
  <2>3. \A b \in Engineers : Typed(b)' BY <2>1, <2>2, IdleType DEF Typed, Holding
  <2>4. ApplyTyped' BY <1>1, <2>1, <2>3, IdleType DEF ApplyTyped, ApplyTypeOK
  <2>. QED BY <1>1, <2>1, <2>2, <2>4, OtherStep
<1>. QED BY <1>2, <1>3

(* No apply yet: nothing is written.                                       *)
LEMMA ApplyStarts == ApplyInit => ApplyInv
<1>. SUFFICES ASSUME ApplyInit PROVE ApplyInv OBVIOUS
<1>1. /\ staging \in ApplyStagings /\ apply = [b \in Engineers |-> Idle]
      /\ applied = [rev |-> 0, status |-> "none", old |-> FALSE]
      /\ fields = [item |-> None, keys |-> None]
      /\ costs = [material |-> {}, route |-> <<>>, tools |-> {}]
  BY DEF ApplyInit
<1>2. \A b \in Engineers : ~UnderWay(b) BY <1>1, IdleType DEF UnderWay
<1>3. \A b \in Engineers : Typed(b) BY <1>1, <1>2, IdleType DEF Typed, Holding
<1>4. ApplyTypeOK
  <2>1. 0 \in 0..MaxRevision /\ None \in Staged BY ApplyAssumption DEF Staged
  <2>. QED BY <1>1, <2>1, IdleType DEF ApplyTypeOK
<1>5. IsFiniteSet(costs.material) /\ IsFiniteSet(costs.tools) BY <1>1, FS_EmptySet
<1>6. AtMostOne(costs.material) /\ AtMostOne(costs.tools) BY <1>1 DEF AtMostOne
<1>7. ItemWhole BY <1>1 DEF ItemWhole
<1>. QED BY <1>1, <1>2, <1>3, <1>4, <1>5, <1>6, <1>7 DEF ApplyInv, ApplyTyped

(* Whatever step an apply takes.                                           *)
LEMMA ApplySteps == ApplyInv /\ [ApplyNext]_applyVars => ApplyInv'
<1>. SUFFICES ASSUME ApplyInv, [ApplyNext]_applyVars PROVE ApplyInv' OBVIOUS
<1>1. CASE staging' = staging /\ \E a \in Engineers : Applies(a)
  BY <1>1, AskStep, BeginStep, FieldsStep, ReadMaterialStep, RetireStep, CreateStep, RouteStep,
     ToolsStep, RemoveStep, MachinesStep, FinishStep, FailStep DEF Applies
<1>2. CASE UNCHANGED applyVars
  <2>1. \A b \in Engineers : /\ (UnderWay(b)' <=> UnderWay(b)) /\ (Typed(b)' <=> Typed(b))
                             /\ (Alone(b) => Alone(b)') /\ (Progress(b) => Progress(b)')
    BY <1>2 DEF applyVars, UnderWay, Typed, Alone, Progress
  <2>2. ApplyTyped' BY <1>2, <2>1 DEF applyVars, ApplyInv, ApplyTyped, ApplyTypeOK
  <2>3. ItemWhole => ItemWhole' BY <1>2 DEF applyVars, ItemWhole
  <2>. QED BY <1>2, <2>1, <2>2, <2>3 DEF applyVars, ApplyInv, Ordered
<1>. QED BY <1>1, <1>2, AloneStep DEF ApplyNext

(* Every state of an item whose scenarios are applied is one of these.     *)
THEOREM ApplyInvariant == ApplySpec => []ApplyInv
BY ApplyStarts, ApplySteps, PTL DEF ApplySpec

-----------------------------------------------------------------------------
(* Applies are at one of their steps, whatever goes wrong.                 *)
THEOREM ApplyTypes == ApplySpec => []ApplyTypeOK
<1>1. ApplyInv => ApplyTypeOK BY DEF ApplyInv, ApplyTyped
<1>. QED BY <1>1, ApplyInvariant, PTL

(* One apply at a time per item, at the revision its caller saw.           *)
THEOREM ApplyIsAlone == ApplySpec => []AppliesAlone
<1>1. ApplyInv => AppliesAlone BY DEF ApplyInv, Ordered, AppliesAlone, Alone
<1>. QED BY <1>1, ApplyInvariant, PTL

(* An item shown as applied is that of one scenario, all of it.            *)
THEOREM AppliedItemIsWhole == ApplySpec => []AppliedIsWhole
<1>1. ApplyInv => AppliedIsWhole
  BY DEF ApplyInv, Ordered, AppliedIsWhole, ItemWhole, Bases, Whole
<1>. QED BY <1>1, ApplyInvariant, PTL

(* No cost is counted twice, however many applies failed before.           *)
THEOREM NoCostTwice == ApplySpec => []NoDuplicates
<1>1. ASSUME NEW records, IsFiniteSet(records), AtMostOne(records) PROVE Cardinality(records) <= 1
  <2>1. CASE records = {} BY <2>1, FS_EmptySet
  <2>2. CASE records # {}
    <3>1. PICK r : records = {r} BY <1>1, <2>2 DEF AtMostOne
    <3>. QED BY <3>1, FS_Singleton
  <2>. QED BY <2>1, <2>2
<1>2. ApplyInv => NoDuplicates BY <1>1 DEF ApplyInv, ApplyTyped, Ordered, NoDuplicates
<1>. QED BY <1>2, ApplyInvariant, PTL
=============================================================================
