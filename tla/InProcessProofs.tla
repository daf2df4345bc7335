-------------------------- MODULE InProcessProofs --------------------------
(***************************************************************************)
(* The small machines in the memory of a backend process.  The circuit     *)
(* breaker: its invariants for any threshold and any number of calls under *)
(* way.  Heavy parses: their slots and their threads, for any limits.  The *)
(* loop around the CAD runner: what a wake promises, for any number of     *)
(* processes and uploads.                                                  *)
(***************************************************************************)
EXTENDS AiBudgetProofs, Breaker, HeavyWork, CadTicks

-----------------------------------------------------------------------------
(* The breaker: each invariant is inductive together with the types.       *)
BreakerInv == BreakerTypeOK /\ OpenAfterFailures /\ OneTrial

(* exec() lets a second call through only while the circuit is closed.     *)
LEMMA ExecStep ==
  ASSUME BreakerInv, NEW c \in EngineCalls, Exec(c)
  PROVE BreakerInv'
<1> USE BreakerAssumption DEF BreakerInv, BreakerTypeOK, BreakerType, Work
<1>1. work' = [work EXCEPT ![c] = [seen |-> CurrentState, doomed |-> ~up]]
      /\ breaker' = [breaker EXCEPT !.trial = @ \/ CurrentState = "half_open"]
      /\ up' = up /\ CurrentState \in {"closed", "half_open"}
  BY DEF Exec
<1>2. BreakerTypeOK' BY <1>1
<1>3. OpenAfterFailures' BY <1>1 DEF OpenAfterFailures
<1>4. OneTrial'
  <2>1. CASE CurrentState = "closed"
    BY <2>1, <1>1 DEF OneTrial, CurrentState, Exec
  <2>2. CASE CurrentState = "half_open"
    <3>1. ~breaker.trial BY <2>2 DEF Exec
    <3>2. \A d \in EngineCalls : work[d].seen # "half_open" BY <3>1 DEF OneTrial
    <3>. QED BY <2>2, <3>2, <1>1 DEF OneTrial
  <2>. QED BY <1>1, <2>1, <2>2
<1>. QED BY <1>2, <1>3, <1>4

(* When a call ends, the flag stays up only for the trial of another.      *)
LEMMA SettledStep ==
  ASSUME BreakerTypeOK, OneTrial, NEW c \in EngineCalls, Cleared(c),
         breaker'.trial = Settled(c)
  PROVE OneTrial'
<1>1. \A d \in EngineCalls : work'[d] = IF d = c THEN NoWork ELSE work[d]
  BY DEF Cleared, BreakerTypeOK
<1>2. \A d \in EngineCalls : work'[d].seen = "half_open" <=> (d # c /\ work[d].seen = "half_open")
  BY <1>1 DEF NoWork
<1>3. breaker'.trial <=> (breaker.trial /\ work[c].seen # "half_open")
  BY Zenon DEF Settled
<1>4. breaker.trial <=> \E d \in EngineCalls : work[d].seen = "half_open"
  BY DEF OneTrial
<1>5. \A d, e \in EngineCalls :
        (work[d].seen = "half_open" /\ work[e].seen = "half_open") => d = e
  BY DEF OneTrial
<1>6. breaker'.trial <=> \E d \in EngineCalls : work'[d].seen = "half_open"
  BY <1>2, <1>3, <1>4, <1>5, Zenon
<1>. QED BY <1>2, <1>5, <1>6, Zenon DEF OneTrial

(* A success, a rejected input, a failure.                                 *)
LEMMA EndStep ==
  ASSUME BreakerInv, NEW c \in EngineCalls, Settles(c)
  PROVE BreakerInv'
<1> USE BreakerAssumption DEF BreakerInv
<1>1. work' \in [EngineCalls -> Work] /\ up' \in BOOLEAN /\ Cleared(c)
  <2>1. Cleared(c) /\ up' = up BY DEF Settles, Succeed, Reject, Unavailable
  <2>2. NoWork \in Work BY DEF NoWork, Work
  <2>. QED BY <2>1, <2>2 DEF Cleared, BreakerTypeOK
<1>2. CASE OnSuccess(c)
  <2>1. Settled(c) \in BOOLEAN BY DEF Settled
  <2>2. breaker' = [state |-> "closed", failures |-> 0, waited |-> FALSE, trial |-> Settled(c)]
    BY <1>2 DEF OnSuccess, Closed
  <2>3. BreakerTypeOK' BY <1>1, <2>1, <2>2 DEF BreakerTypeOK, BreakerType
  <2>4. OpenAfterFailures' BY <2>2 DEF OpenAfterFailures
  <2>. QED BY <2>2, <2>3, <2>4, <1>1, SettledStep
<1>3. CASE Reject(c) /\ ~OnSuccess(c)
  <2>1. breaker' = breaker /\ work[c].seen # "half_open" BY <1>3 DEF Reject
  <2>2. breaker'.trial = Settled(c) BY <2>1 DEF Settled, BreakerTypeOK, BreakerType
  <2>3. BreakerTypeOK' /\ OpenAfterFailures' BY <2>1, <1>1 DEF BreakerTypeOK, OpenAfterFailures
  <2>. QED BY <2>2, <2>3, <1>1, SettledStep
<1>4. CASE Unavailable(c)
  <2>1. OnFailure(c) BY <1>4 DEF Unavailable
  <2>2. BreakerTypeOK' /\ breaker'.trial = Settled(c)
    BY <1>1, <2>1 DEF OnFailure, Settled, BreakerTypeOK, BreakerType
  <2>3. OpenAfterFailures'
    BY <2>1 DEF OnFailure, CurrentState, BreakerTypeOK, BreakerType, OpenAfterFailures
  <2>. QED BY <2>2, <2>3, <1>1, SettledStep
<1>. QED BY <1>2, <1>3, <1>4 DEF Settles, Succeed

(* Time, and the engine, touch neither the flag nor the count.             *)
LEMMA OtherStep ==
  ASSUME BreakerInv, Elapse \/ EngineFlips \/ UNCHANGED breakerVars
  PROVE BreakerInv'
<1> USE DEF BreakerInv, BreakerTypeOK, BreakerType, Work, OpenAfterFailures, OneTrial
<1>1. CASE Elapse BY <1>1 DEF Elapse
<1>2. CASE EngineFlips
  <2>1. \A d \in EngineCalls : work'[d].seen = work[d].seen /\ work'[d] \in Work
    BY <1>2 DEF EngineFlips
  <2>2. work' \in [EngineCalls -> Work] BY <1>2, <2>1 DEF EngineFlips
  <2>. QED BY <1>2, <2>1, <2>2 DEF EngineFlips
<1>3. CASE UNCHANGED breakerVars BY <1>3 DEF breakerVars
<1>. QED BY <1>1, <1>2, <1>3

(* In every state, for every threshold and number of calls.                *)
THEOREM BreakerSafe == BreakerSpec => []BreakerInv
<1>1. BreakerInit => BreakerInv
  BY BreakerAssumption DEF BreakerInit, BreakerInv, BreakerTypeOK, BreakerType, Work, Closed,
     NoWork, OpenAfterFailures, OneTrial
<1>2. BreakerInv /\ [BreakerNext]_breakerVars => BreakerInv'
  BY ExecStep, EndStep, OtherStep DEF BreakerNext
<1>. QED BY <1>1, <1>2, PTL DEF BreakerSpec

(* At most one trial is under way, and the flag is up exactly then.        *)
THEOREM OneTrialAtATime == BreakerSpec => []OneTrial
<1>1. BreakerInv => OneTrial BY DEF BreakerInv
<1>. QED BY <1>1, BreakerSafe, PTL

(* The circuit is open exactly after Threshold failures in a row.          *)
THEOREM OpensAfterFailures == BreakerSpec => []OpenAfterFailures
<1>1. BreakerInv => OpenAfterFailures BY DEF BreakerInv
<1>. QED BY <1>1, BreakerSafe, PTL

(* The state of the circuit, the count and the calls are of their types.   *)
THEOREM BreakerTypeCorrect == BreakerSpec => []BreakerTypeOK
<1>1. BreakerInv => BreakerTypeOK BY DEF BreakerInv
<1>. QED BY <1>1, BreakerSafe, PTL
-----------------------------------------------------------------------------
(* Heavy parses.  A thread that nobody told to end reads for a parse that  *)
(* waits for it, and the CAD runner waits for one at most.                 *)
ThreadsOwned ==
  /\ \A p \in Parses \cup Unpacks : parse[p].thread = "running" => parse[p].pc = "reading"
  /\ \A p \in Unpacks : parse[p].pc \in {"idle", "reading"}
  /\ \A p, q \in Unpacks : parse[p].pc = "reading" /\ parse[q].pc = "reading" => p = q

SlotsCounted ==
  /\ inFlight = Cardinality(AllHolding) /\ inFlight <= MaxParses
  /\ \A t \in Tenants : share[t] = Cardinality(Holding(t)) /\ share[t] <= MaxShare

HeavyInv == HeavyTypeOK /\ ThreadsOwned /\ SlotsCounted

(* The holders are finitely many.                                          *)
LEMMA HoldersFinite ==
  /\ IsFiniteSet(AllHolding) /\ Cardinality(AllHolding) \in Nat
  /\ \A t \in Tenants : IsFiniteSet(Holding(t)) /\ Cardinality(Holding(t)) \in Nat
<1>1. AllHolding \in SUBSET Parses /\ \A t \in Tenants : Holding(t) \in SUBSET Parses
  BY DEF AllHolding, Holding
<1>. QED BY <1>1, HeavyAssumption, FS_Subset, FS_CardinalityType

(* A step of one parse that neither takes nor gives back a slot.           *)
LEMMA SlotsStay ==
  ASSUME HeavyTypeOK, SlotsCounted, NEW p \in Parses \cup Unpacks, NEW new \in Parse,
         parse' = [parse EXCEPT ![p] = new], UNCHANGED <<inFlight, share>>,
         p \in Parses => (new.pc = "idle" <=> parse[p].pc = "idle")
  PROVE SlotsCounted'
<1>1. \A q \in Parses : parse'[q].pc = "idle" <=> parse[q].pc = "idle" BY DEF HeavyTypeOK
<1>2. AllHolding' = AllHolding BY <1>1 DEF AllHolding
<1>3. \A t \in Tenants : Holding(t)' = Holding(t) BY <1>1 DEF Holding
<1>. QED BY <1>2, <1>3 DEF SlotsCounted

(* A parse that takes a slot is one holder more, in all and of its tenant. *)
LEMMA SlotsTaken ==
  ASSUME HeavyTypeOK, SlotsCounted, NEW p \in Parses, NEW new \in Parse,
         parse' = [parse EXCEPT ![p] = new], new.pc # "idle", parse[p].pc = "idle",
         Take(TenantOf[p])
  PROVE SlotsCounted'
<1>1. \A q \in Parses : parse'[q] = IF q = p THEN new ELSE parse[q] BY DEF HeavyTypeOK
<1>2. inFlight' = Cardinality(AllHolding') /\ inFlight' <= MaxParses
  <2>1. AllHolding \ {p} = AllHolding' \ {p} /\ p \notin AllHolding /\ p \in AllHolding'
    BY <1>1 DEF AllHolding
  <2>2. Cardinality(AllHolding') = Cardinality(AllHolding) + 1
    BY <2>1, CountStep, HoldersFinite
  <2>. QED BY <2>2, HeavyAssumption DEF SlotsCounted, Take, HeavyTypeOK
<1>3. ASSUME NEW t \in Tenants
      PROVE share'[t] = Cardinality(Holding(t)') /\ share'[t] <= MaxShare
  <2>1. CASE t = TenantOf[p]
    <3>1. Holding(t) \ {p} = Holding(t)' \ {p} /\ p \notin Holding(t) /\ p \in Holding(t)'
      BY <1>1, <2>1 DEF Holding
    <3>2. Cardinality(Holding(t)') = Cardinality(Holding(t)) + 1
      BY <3>1, CountStep, HoldersFinite
    <3>. QED BY <2>1, <3>2, HeavyAssumption DEF SlotsCounted, Take, HeavyTypeOK
  <2>2. CASE t # TenantOf[p]
    <3>1. Holding(t)' = Holding(t) BY <1>1, <2>2 DEF Holding
    <3>. QED BY <2>2, <3>1 DEF SlotsCounted, Take, HeavyTypeOK
  <2>. QED BY <2>1, <2>2
<1>. QED BY <1>2, <1>3 DEF SlotsCounted

(* One that gives its slot back is one holder less.                        *)
LEMMA SlotsGivenBack ==
  ASSUME HeavyTypeOK, SlotsCounted, NEW p \in Parses, GiveBack(p)
  PROVE SlotsCounted'
<1>1. \A q \in Parses : parse'[q].pc = IF q = p THEN "idle" ELSE parse[q].pc
  BY DEF HeavyTypeOK, Parse, GiveBack
<1>2. inFlight' = Cardinality(AllHolding') /\ inFlight' <= MaxParses
  <2>1. AllHolding \ {p} = AllHolding' \ {p} /\ p \in AllHolding /\ p \notin AllHolding'
    BY <1>1 DEF AllHolding, GiveBack
  <2>2. Cardinality(AllHolding') = Cardinality(AllHolding) - 1
    BY <2>1, CountStep, HoldersFinite
  <2>. QED BY <2>2, HeavyAssumption DEF SlotsCounted, GiveBack, HeavyTypeOK
<1>3. ASSUME NEW t \in Tenants
      PROVE share'[t] = Cardinality(Holding(t)') /\ share'[t] <= MaxShare
  <2>1. CASE t = TenantOf[p]
    <3>1. Holding(t) \ {p} = Holding(t)' \ {p} /\ p \in Holding(t) /\ p \notin Holding(t)'
      BY <1>1, <2>1 DEF Holding, GiveBack
    <3>2. Cardinality(Holding(t)') = Cardinality(Holding(t)) - 1
      BY <3>1, CountStep, HoldersFinite
    <3>. QED BY <2>1, <3>2, HeavyAssumption DEF SlotsCounted, GiveBack, HeavyTypeOK
  <2>2. CASE t # TenantOf[p]
    <3>1. Holding(t)' = Holding(t) BY <1>1, <2>2 DEF Holding
    <3>. QED BY <2>2, <3>1 DEF SlotsCounted, GiveBack, HeavyTypeOK
  <2>. QED BY <2>1, <2>2
<1>. QED BY <1>2, <1>3 DEF SlotsCounted

(* A slot that is given back was counted: neither count goes below zero.   *)
LEMMA CountsStayNatural ==
  ASSUME HeavyTypeOK, SlotsCounted, NEW p \in Parses, parse[p].pc # "idle"
  PROVE inFlight - 1 \in Nat /\ share[TenantOf[p]] - 1 \in Nat
<1>1. TenantOf[p] \in Tenants BY HeavyAssumption
<1>2. AllHolding # {} /\ Holding(TenantOf[p]) # {} BY DEF AllHolding, Holding
<1>3. Cardinality(AllHolding) # 0 /\ Cardinality(Holding(TenantOf[p])) # 0
  BY <1>1, <1>2, HoldersFinite, FS_EmptySet
<1>. QED BY <1>1, <1>3, HoldersFinite DEF SlotsCounted, HeavyTypeOK

(* The parses, step by step.                                               *)
LEMMA HeavyStep == HeavyInv /\ [HeavyNext]_heavyVars => HeavyInv'
<1> SUFFICES ASSUME HeavyInv, [HeavyNext]_heavyVars PROVE HeavyInv'
  OBVIOUS
<1> DEFINE All == Parses \cup Unpacks
<1>0. HeavyTypeOK /\ ThreadsOwned /\ SlotsCounted BY DEF HeavyInv
<1>1. CASE \E p \in Parses : BeginParse(p)
  <2>1. PICK p \in Parses : BeginParse(p) BY <1>1
  <2>2. PICK new \in {[pc |-> "reading", thread |-> "running"], [pc |-> "using", thread |-> "none"]} :
          parse' = [parse EXCEPT ![p] = new]
    BY <2>1 DEF BeginParse, Becomes
  <2>3. new \in Parse /\ new.pc # "idle" /\ (new.thread = "running" => new.pc = "reading")
    BY <2>2 DEF Parse
  <2>7. parse[p].pc = "idle" /\ Take(TenantOf[p]) BY <2>1 DEF BeginParse, NoParse
  <2>4. SlotsCounted' BY <1>0, <2>7, <2>2, <2>3, SlotsTaken
  <2>5. HeavyTypeOK'
    BY <1>0, <2>1, <2>2, <2>3, HeavyAssumption DEF BeginParse, Take, HeavyTypeOK
  <2>6. ThreadsOwned'
    BY <1>0, <2>1, <2>2, <2>3, HeavyAssumption DEF ThreadsOwned, HeavyTypeOK
  <2>. QED BY <2>4, <2>5, <2>6 DEF HeavyInv
<1>2. CASE \E p \in Unpacks : BeginUnpack(p)
  <2>1. PICK p \in Unpacks : BeginUnpack(p) BY <1>2
  <2> DEFINE new == [pc |-> "reading", thread |-> "running"]
  <2>2. parse' = [parse EXCEPT ![p] = new] /\ UNCHANGED <<inFlight, share>>
    BY <2>1 DEF BeginUnpack, Becomes
  <2>3. new \in Parse /\ p \notin Parses BY HeavyAssumption DEF Parse
  <2>4. SlotsCounted' BY <1>0, <2>2, <2>3, SlotsStay
  <2>5. HeavyTypeOK' BY <1>0, <2>2, <2>3 DEF HeavyTypeOK
  <2>6. ThreadsOwned' BY <1>0, <2>1, <2>2 DEF BeginUnpack, ThreadsOwned, HeavyTypeOK
  <2>. QED BY <2>4, <2>5, <2>6 DEF HeavyInv
<1>3. CASE \E p \in All : Answer(p) \/ Deadline(p)
  <2>1. PICK p \in All, thread \in {"told", "none"} : Settle(p, thread)
    BY <1>3 DEF Answer, Deadline
  <2> DEFINE new == [pc |-> IF p \in Unpacks THEN "idle" ELSE "using", thread |-> thread]
  <2>2. parse' = [parse EXCEPT ![p] = new] /\ parse[p].pc = "reading"
        /\ UNCHANGED <<inFlight, share>>
    BY <2>1 DEF Settle, Becomes
  <2>3. new \in Parse /\ new.thread # "running" /\ new.pc # "reading"
        /\ (p \in Parses => new.pc = "using") /\ (p \in Unpacks => new.pc = "idle")
    BY <2>1, HeavyAssumption DEF Parse
  <2>. HIDE DEF new
  <2>4. SlotsCounted' BY <1>0, <2>2, <2>3, SlotsStay
  <2>5. HeavyTypeOK' BY <1>0, <2>2, <2>3 DEF HeavyTypeOK
  <2>6. ThreadsOwned' BY <1>0, <2>2, <2>3 DEF ThreadsOwned, HeavyTypeOK
  <2>. QED BY <2>4, <2>5, <2>6 DEF HeavyInv
<1>4. CASE \E p \in All : ThreadEnds(p)
  <2>1. PICK p \in All : ThreadEnds(p) BY <1>4
  <2> DEFINE new == [parse[p] EXCEPT !.thread = "none"]
  <2>2. parse' = [parse EXCEPT ![p] = new] /\ UNCHANGED <<inFlight, share>>
    BY <1>0, <2>1 DEF ThreadEnds, HeavyTypeOK
  <2>3. new \in Parse /\ new.thread = "none" /\ new.pc = parse[p].pc
    BY <1>0 DEF HeavyTypeOK, Parse
  <2>. HIDE DEF new
  <2>4. SlotsCounted' BY <1>0, <2>2, <2>3, SlotsStay
  <2>5. HeavyTypeOK' BY <1>0, <2>2, <2>3 DEF HeavyTypeOK
  <2>6. ThreadsOwned' BY <1>0, <2>2, <2>3 DEF ThreadsOwned, HeavyTypeOK
  <2>. QED BY <2>4, <2>5, <2>6 DEF HeavyInv
<1>5. CASE \E p \in Parses : GiveBack(p)
  <2>1. PICK p \in Parses : GiveBack(p) BY <1>5
  <2> DEFINE new == [parse[p] EXCEPT !.pc = "idle"]
  <2>2. parse' = [parse EXCEPT ![p] = new] /\ parse[p].pc = "using"
    BY <1>0, <2>1 DEF GiveBack, HeavyTypeOK
  <2>3. new \in Parse /\ new.pc = "idle" /\ new.thread = parse[p].thread
    BY <1>0 DEF HeavyTypeOK, Parse
  <2>. HIDE DEF new
  <2>4. SlotsCounted' BY <1>0, <2>1, SlotsGivenBack
  <2>5. HeavyTypeOK'
    BY <1>0, <2>1, <2>2, <2>3, CountsStayNatural, HeavyAssumption DEF GiveBack, HeavyTypeOK
  <2>6. ThreadsOwned' BY <1>0, <2>2, <2>3, HeavyAssumption DEF ThreadsOwned, HeavyTypeOK
  <2>. QED BY <2>4, <2>5, <2>6 DEF HeavyInv
<1>6. CASE UNCHANGED heavyVars
  BY <1>0, <1>6 DEF HeavyInv, HeavyTypeOK, ThreadsOwned, SlotsCounted, AllHolding, Holding, heavyVars
<1>. QED BY <1>1, <1>2, <1>3, <1>4, <1>5, <1>6 DEF HeavyNext, Works

(* In every state of the slots and the parses.                             *)
THEOREM HeavyInvariant == HeavySpec => []HeavyInv
<1>1. HeavyInit => HeavyInv
  <2>1. SUFFICES ASSUME HeavyInit PROVE HeavyInv OBVIOUS
  <2>2. AllHolding = {} /\ \A t \in Tenants : Holding(t) = {}
    BY <2>1 DEF HeavyInit, NoParse, AllHolding, Holding
  <2>3. SlotsCounted BY <2>1, <2>2, FS_EmptySet, HeavyAssumption DEF HeavyInit, SlotsCounted
  <2>. QED BY <2>1, <2>3 DEF HeavyInit, NoParse, HeavyInv, HeavyTypeOK, Parse, ThreadsOwned
<1>. QED BY <1>1, HeavyStep, PTL DEF HeavySpec

(* The counts, the parses and their threads are of their types.            *)
THEOREM HeavyTypeCorrect == HeavySpec => []HeavyTypeOK
<1>1. HeavyInv => HeavyTypeOK BY DEF HeavyInv
<1>. QED BY <1>1, HeavyInvariant, PTL

(* Who reads: holders of a slot, and at most one unpacking.                *)
LEMMA ReadersFew == HeavyInv => Cardinality(BusyThreads) <= MaxParses + 1
<1> SUFFICES ASSUME HeavyInv PROVE Cardinality(BusyThreads) <= MaxParses + 1
  OBVIOUS
<1>1. PICK x : \A p \in Unpacks : parse[p].thread = "running" => p = x
  BY DEF HeavyInv, ThreadsOwned
<1>2. BusyThreads \in SUBSET (AllHolding \cup {x})
  BY <1>1 DEF BusyThreads, AllHolding, HeavyInv, ThreadsOwned
<1>3. /\ IsFiniteSet(AllHolding \cup {x})
      /\ Cardinality(AllHolding \cup {x}) <= Cardinality(AllHolding) + 1
  BY HoldersFinite, FS_AddElement
<1>4. Cardinality(BusyThreads) <= Cardinality(AllHolding \cup {x}) /\ IsFiniteSet(BusyThreads)
  BY <1>2, <1>3, FS_Subset
<1>5. Cardinality(BusyThreads) \in Nat /\ Cardinality(AllHolding \cup {x}) \in Nat
  BY <1>3, <1>4, FS_CardinalityType
<1>. QED BY <1>3, <1>4, <1>5, HoldersFinite, HeavyAssumption DEF HeavyInv, SlotsCounted

(* Both counts are those of the parses that hold a slot and stay within    *)
(* their limits, and no more threads read than slots and one.              *)
THEOREM ParsesAreBounded == HeavySpec => []ParsesBounded
<1>1. HeavyInv => ParsesBounded BY ReadersFew DEF HeavyInv, SlotsCounted, ParsesBounded
<1>. QED BY <1>1, HeavyInvariant, PTL

-----------------------------------------------------------------------------
(* The loop around the CAD runner.  Once a claim came back empty, a row    *)
(* that waits and that the loop was woken for came after it, and the wake  *)
(* is remembered.                                                          *)
WakesRemembered ==
  \A b \in Processes : tick[b].pc = "empty" /\ Unheard(b) # {} => tick[b].wakeRequested

TicksInv == /\ TicksTypeOK
            /\ \A b \in Processes : tick[b].pc = "work" => tick[b].on \in Arrivals
            /\ WakesRemembered

(* One loop moves, and no row becomes unheard for another.                 *)
LEMMA OneTick ==
  ASSUME TicksInv, NEW b \in Processes, NEW t \in Tick, tick' = [tick EXCEPT ![b] = t],
         t.pc = "work" => t.on \in Arrivals, arrival' \in [Arrivals -> Arrival],
         \A a \in Processes : a # b => Unheard(a)' \subseteq Unheard(a),
         t.pc = "empty" /\ Unheard(b)' # {} => t.wakeRequested
  PROVE TicksInv'
<1>1. \A a \in Processes : tick'[a] = IF a = b THEN t ELSE tick[a] BY DEF TicksInv, TicksTypeOK
<1>2. WakesRemembered' BY <1>1 DEF TicksInv, WakesRemembered
<1>3. TicksTypeOK' BY DEF TicksInv, TicksTypeOK
<1>. QED BY <1>1, <1>2, <1>3 DEF TicksInv

(* Rows of which none becomes new, and requests that stay as they are.     *)
LEMMA SameUnheard ==
  ASSUME \A u \in Arrivals : /\ arrival'[u].pc = arrival[u].pc
                             /\ arrival'[u].row = "new" => arrival[u].row = "new"
  PROVE \A a \in Processes : Unheard(a)' \subseteq Unheard(a)
BY DEF Unheard

(* A loop at rest, and one that begins.                                    *)
LEMMA FreshTicks == /\ Drains \in Tick /\ Drains.pc = "claim"
                    /\ Sleeping \in Tick /\ Sleeping.pc = "asleep"
BY DEF Drains, Sleeping, Tick

(* The requests: a row is queued before its wake, so no row is unheard     *)
(* when its request has not called yet.                                    *)
LEMMA RequestTicks ==
  ASSUME TicksInv, NEW u \in Arrivals, InsertRow(u) \/ Wake(u) \/ RowStale(u)
  PROVE TicksInv'
<1>0. /\ tick \in [Processes -> Tick] /\ arrival \in [Arrivals -> Arrival]
      /\ HomeOf[u] \in Processes
  BY TicksAssumption DEF TicksInv, TicksTypeOK
<1>1. CASE InsertRow(u)
  <2>1. arrival' \in [Arrivals -> Arrival] BY <1>0, <1>1 DEF InsertRow, Arrival
  <2>2. \A a \in Processes : Unheard(a)' = Unheard(a) BY <1>0, <1>1 DEF InsertRow, Unheard
  <2>. QED BY <1>1, <2>1, <2>2 DEF InsertRow, TicksInv, TicksTypeOK, WakesRemembered
<1>2. CASE Wake(u)
  <2> DEFINE b == HomeOf[u]
  <2>1. arrival' \in [Arrivals -> Arrival] BY <1>0, <1>2 DEF Wake, Arrival
  <2>2. \A a \in Processes : a # b => Unheard(a)' = Unheard(a) BY <1>0, <1>2 DEF Wake, Unheard
  <2>3. /\ Woken(b) \in Tick
        /\ Woken(b).pc = "empty" => Woken(b).wakeRequested
        /\ Woken(b).pc = "work" => Woken(b).on \in Arrivals
    <3>1. tick[b] \in Tick /\ (tick[b].pc = "work" => tick[b].on \in Arrivals)
      BY <1>0 DEF TicksInv
    <3>2. CASE tick[b].pc = "asleep" BY <3>2, FreshTicks DEF Woken
    <3>3. CASE tick[b].pc # "asleep"
      <4> DEFINE t == [tick[b] EXCEPT !.wakeRequested = TRUE]
      <4>1. t \in Tick /\ t.wakeRequested /\ t.pc = tick[b].pc /\ t.on = tick[b].on
        BY <3>1 DEF Tick
      <4>2. Woken(b) = t BY <3>3 DEF Woken
      <4>. HIDE DEF t
      <4>. QED BY <3>1, <4>1, <4>2
    <3>. QED BY <3>2, <3>3
  <2>4. PICK t \in Tick : /\ t = Woken(b)
                          /\ t.pc = "work" => t.on \in Arrivals
                          /\ t.pc = "empty" => t.wakeRequested
    BY <2>3
  <2>5. tick' = [tick EXCEPT ![b] = t] BY <1>2, <2>4 DEF Wake
  <2>. QED BY <1>0, <2>1, <2>2, <2>4, <2>5, OneTick
<1>3. CASE RowStale(u)
  <2>1. arrival' \in [Arrivals -> Arrival] BY <1>0, <1>3 DEF RowStale, Arrival
  <2>2. \A a \in Processes : Unheard(a)' \subseteq Unheard(a)
    BY <1>0, <1>3, SameUnheard DEF RowStale, Arrival
  <2>. QED BY <1>3, <2>1, <2>2 DEF RowStale, TicksInv, TicksTypeOK, WakesRemembered
<1>. QED BY <1>1, <1>2, <1>3

(* Loops that claim, end an attempt, or sleep.                             *)
LEMMA LoopTicks ==
  ASSUME TicksInv, NEW b \in Processes,
         \/ PollTick(b) \/ ClaimRow(b) \/ ClaimThrows(b) \/ EndAttempt(b)
         \/ LeaveDrain(b) \/ EndTick(b)
  PROVE TicksInv'
<1>0. /\ tick[b] \in Tick /\ tick \in [Processes -> Tick] /\ arrival \in [Arrivals -> Arrival]
      /\ tick[b].wakeRequested \in BOOLEAN
  BY DEF TicksInv, TicksTypeOK, Tick
<1>1. CASE PollTick(b) \/ LeaveDrain(b) \/ EndTick(b)
  <2>1. PICK t \in {Drains, [tick[b] EXCEPT !.pc = "maintain"], [tick[b] EXCEPT !.pc = "asleep"]} :
          tick' = [tick EXCEPT ![b] = t]
    BY <1>0, <1>1 DEF PollTick, LeaveDrain, EndTick
  <2>2. t \in Tick /\ t.pc \notin {"work", "empty"} BY <1>0, <2>1, FreshTicks DEF Tick
  <2>3. arrival' = arrival BY <1>1 DEF PollTick, LeaveDrain, EndTick
  <2>. QED BY <1>0, <2>1, <2>2, <2>3, SameUnheard, OneTick
<1>2. CASE ClaimRow(b)
  <2>1. CASE \E u \in Waiting : /\ arrival' = [arrival EXCEPT ![u].row = "working"]
                                /\ tick' = [tick EXCEPT ![b].pc = "work", ![b].on = u]
    <3>1. PICK u \in Waiting : /\ arrival' = [arrival EXCEPT ![u].row = "working"]
                               /\ tick' = [tick EXCEPT ![b].pc = "work", ![b].on = u]
      BY <2>1
    <3>2. u \in Arrivals BY DEF Waiting
    <3> DEFINE t == [tick[b] EXCEPT !.pc = "work", !.on = u]
    <3>3. t \in Tick /\ t.pc = "work" /\ t.on = u BY <1>0, <3>2 DEF Tick
    <3>4. tick' = [tick EXCEPT ![b] = t] BY <1>0, <3>1
    <3>. HIDE DEF t
    <3>5. arrival' \in [Arrivals -> Arrival] BY <1>0, <3>1, <3>2 DEF Arrival
    <3>6. \A a \in Processes : Unheard(a)' \subseteq Unheard(a)
      BY <1>0, <3>1, <3>2, SameUnheard DEF Arrival
    <3>. QED BY <3>2, <3>3, <3>4, <3>5, <3>6, OneTick
  <2>2. CASE Waiting = {} /\ arrival' = arrival /\ tick' = [tick EXCEPT ![b].pc = "empty"]
    <3> DEFINE t == [tick[b] EXCEPT !.pc = "empty"]
    <3>0. t \in Tick /\ t.pc = "empty" BY <1>0 DEF Tick
    <3>1. tick' = [tick EXCEPT ![b] = t] BY <1>0, <2>2
    <3>2. \A a \in Processes : Unheard(a)' = {} BY <2>2 DEF Waiting, Unheard
    <3>. HIDE DEF t
    <3>. QED BY <1>0, <2>2, <3>0, <3>1, <3>2, OneTick
  <2>. QED BY <1>2, <2>1, <2>2 DEF ClaimRow
<1>3. CASE ClaimThrows(b)
  <2> DEFINE t == [tick[b] EXCEPT !.pc = "asleep"]
  <2>0. t \in Tick /\ t.pc = "asleep" BY <1>0 DEF Tick
  <2>1. tick' = [tick EXCEPT ![b] = t] BY <1>0, <1>3 DEF ClaimThrows
  <2>. HIDE DEF t
  <2>2. arrival' = arrival \/ \E u \in Arrivals : arrival' = [arrival EXCEPT ![u].row = "working"]
    BY <1>3 DEF ClaimThrows, Waiting
  <2>3. arrival' \in [Arrivals -> Arrival] BY <1>0, <2>2 DEF Arrival
  <2>4. \A a \in Processes : Unheard(a)' \subseteq Unheard(a)
    BY <1>0, <2>2, SameUnheard DEF Arrival
  <2>. QED BY <2>0, <2>1, <2>3, <2>4, OneTick
<1>4. CASE EndAttempt(b)
  <2> DEFINE u == tick[b].on
             t == [tick[b] EXCEPT !.pc = "claim", !.on = NoClaim]
  <2>1. u \in Arrivals BY <1>4 DEF EndAttempt, TicksInv
  <2>0. t \in Tick /\ t.pc = "claim" BY <1>0 DEF Tick
  <2>2. tick' = [tick EXCEPT ![b] = t] BY <1>0, <1>4 DEF EndAttempt
  <2>. HIDE DEF t
  <2>3. PICK row \in {"ended", "again", arrival[u].row} :
          arrival' = [arrival EXCEPT ![u].row = row]
    BY <1>4 DEF EndAttempt
  <2>4. arrival' \in [Arrivals -> Arrival] BY <1>0, <2>1, <2>3 DEF Arrival
  <2>5. \A a \in Processes : Unheard(a)' \subseteq Unheard(a)
    BY <1>0, <2>1, <2>3, SameUnheard DEF Arrival
  <2>. QED BY <2>0, <2>2, <2>4, <2>5, OneTick
<1>. QED BY <1>1, <1>2, <1>3, <1>4

(* A process that dies takes its requests with it: their rows are unheard, *)
(* of a loop that will begin with a claim.                                 *)
LEMMA DeathTicks ==
  ASSUME TicksInv, NEW b \in Processes, ProcessDies(b)
  PROVE TicksInv'
<1>1. /\ arrival \in [Arrivals -> Arrival] /\ tick \in [Processes -> Tick]
      /\ Sleeping \in Tick /\ Sleeping.pc = "asleep"
  BY FreshTicks DEF TicksInv, TicksTypeOK
<1>2. arrival' \in [Arrivals -> Arrival]
  <2>1. \A u \in Arrivals : arrival'[u] \in Arrival BY <1>1 DEF ProcessDies, Arrival
  <2>. QED BY <2>1 DEF ProcessDies
<1>3. \A a \in Processes : a # b => Unheard(a)' \subseteq Unheard(a)
  BY <1>1 DEF ProcessDies, Unheard, Arrival
<1>4. tick' = [tick EXCEPT ![b] = Sleeping] BY DEF ProcessDies
<1>. QED BY <1>1, <1>2, <1>3, <1>4, OneTick

(* In every state of the loops, for any processes and requests.            *)
THEOREM TicksInvariant == TicksSpec => []TicksInv
<1>1. TicksInit => TicksInv
  BY TicksAssumption DEF TicksInit, Sleeping, TicksInv, TicksTypeOK, Tick, Arrival, WakesRemembered
<1>2. TicksInv /\ [TicksNext]_tickVars => TicksInv'
  <2>1. SUFFICES ASSUME TicksInv, [TicksNext]_tickVars PROVE TicksInv' OBVIOUS
  <2>2. CASE UNCHANGED tickVars
    BY <2>1, <2>2 DEF tickVars, TicksInv, TicksTypeOK, WakesRemembered, Unheard
  <2>. QED BY <2>1, <2>2, RequestTicks, LoopTicks, DeathTicks DEF TicksNext
<1>. QED BY <1>1, <1>2, PTL DEF TicksSpec

(* The loops and the requests are of their types.                          *)
THEOREM TicksTypeCorrect == TicksSpec => []TicksTypeOK
<1>1. TicksInv => TicksTypeOK BY DEF TicksInv
<1>. QED BY <1>1, TicksInvariant, PTL

(* What a step of DrainsHeard may not do.                                  *)
DrainHeard == \A b \in Processes :
  tick[b].pc = "empty" /\ tick'[b].pc = "maintain" => Unheard(b) = {}

(* No drain ends while an upload its loop was woken for waits unclaimed:   *)
(* whatever the order of rows, wakes and claims, failing ones included, it *)
(* is only maintenance, a claim that throws or a death that loses a wake.  *)
THEOREM DrainsAreHeard == TicksSpec => DrainsHeard
<1>1. TicksInv /\ [TicksNext]_tickVars => [DrainHeard]_tickVars
  <2>1. SUFFICES ASSUME TicksInv, TicksNext, NEW b \in Processes,
                        tick[b].pc = "empty", tick'[b].pc = "maintain"
                 PROVE Unheard(b) = {}
    BY DEF DrainHeard
  <2>0. tick \in [Processes -> Tick] BY <2>1 DEF TicksInv, TicksTypeOK
  <2>2. ~\E u \in Arrivals : InsertRow(u) \/ Wake(u) \/ RowStale(u)
    <3>1. \A u \in Arrivals : Wake(u) => tick'[b].pc \in {"claim", tick[b].pc}
      <4>1. SUFFICES ASSUME NEW u \in Arrivals, Wake(u)
                     PROVE tick'[b].pc \in {"claim", tick[b].pc}
        OBVIOUS
      <4>2. tick'[b] = IF b = HomeOf[u] THEN Woken(b) ELSE tick[b] BY <2>0, <4>1 DEF Wake
      <4>. QED BY <2>0, <4>2 DEF Woken, Drains, Tick
    <3>. QED BY <2>1, <3>1 DEF InsertRow, RowStale
  <2>3. PICK a \in Processes : \/ PollTick(a) \/ ClaimRow(a) \/ ClaimThrows(a) \/ EndAttempt(a)
                               \/ LeaveDrain(a) \/ EndTick(a) \/ ProcessDies(a)
    BY <2>1, <2>2 DEF TicksNext
  <2>4. a = b
    <3>1. ASSUME a # b PROVE tick'[b] = tick[b]
      BY <2>0, <2>3, <3>1 DEF PollTick, ClaimRow, ClaimThrows, EndAttempt, LeaveDrain, EndTick,
         ProcessDies
    <3>. QED BY <2>1, <3>1
  <2>5. ~ProcessDies(b) BY <2>0, <2>1, FreshTicks DEF ProcessDies
  <2>6. LeaveDrain(b)
    BY <2>1, <2>3, <2>4, <2>5 DEF PollTick, ClaimRow, ClaimThrows, EndAttempt, EndTick
  <2>7. ~tick[b].wakeRequested BY <2>0, <2>1, <2>6, FreshTicks DEF LeaveDrain
  <2>. QED BY <2>1, <2>7 DEF TicksInv, WakesRemembered
<1>. QED BY <1>1, TicksInvariant, PTL DEF TicksSpec, DrainsHeard, DrainHeard
=============================================================================
