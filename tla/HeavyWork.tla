----------------------------- MODULE HeavyWork -----------------------------
(***************************************************************************)
(* Heavy parses in one backend process (common/heavy-work/heavy-work.ts):  *)
(* each runs in a worker thread of its own, and one that serves a request  *)
(* holds a slot of the process and of its tenant.                          *)
(***************************************************************************)
EXTENDS Naturals, FiniteSets

CONSTANTS
  Parses,      \* parses of requests that may be in progress at one time: a bound
  Unpacks,     \* unpackings by the CAD runner: a bound on threads not yet gone
  Tenants,     \* organizations, and users without one
  TenantOf,    \* whose share each parse counts against
  MaxParses,   \* HEAVY_WORK_MAX_CONCURRENT
  MaxShare     \* HEAVY_WORK_MAX_PER_TENANT

ASSUME HeavyAssumption ==
  /\ IsFiniteSet(Parses) /\ IsFiniteSet(Unpacks) /\ Parses \cap Unpacks = {}
  /\ TenantOf \in [Parses -> Tenants]
  /\ MaxParses \in Nat \ {0} /\ MaxShare \in Nat \ {0}

VARIABLES
  inFlight,   \* HeavyWorkSlots.running
  share,      \* HeavyWorkSlots.perTenant: 0 of a tenant that is not in it
  parse       \* each parse, and its worker thread

heavyVars == <<inFlight, share, parse>>

(* `using`: the worker is settled, what it read is still in use.  A thread *)
(* is `told` to end by terminate(), which nobody awaits.                   *)
Parse == [pc : {"idle", "reading", "using"}, thread : {"none", "running", "told"}]

NoParse == [pc |-> "idle", thread |-> "none"]

HeavyInit == /\ inFlight = 0
             /\ share = [t \in Tenants |-> 0]
             /\ parse = [p \in Parses \cup Unpacks |-> NoParse]

Becomes(p, pc, thread) == parse' = [parse EXCEPT ![p] = [pc |-> pc, thread |-> thread]]

-----------------------------------------------------------------------------
TakeLoosely(t) ==   \* one too many
  /\ share[t] <= MaxShare /\ inFlight <= MaxParses
  /\ inFlight' = inFlight + 1
  /\ share' = [share EXCEPT ![t] = @ + 1]

(* acquire(), which refuses without an effect.                             *)
Take(t) == /\ share[t] < MaxShare /\ inFlight < MaxParses
           /\ inFlight' = inFlight + 1
           /\ share' = [share EXCEPT ![t] = @ + 1]

(* The work starts in the same step, or throws before it has a worker.     *)
BeginParse(p) == /\ parse[p] = NoParse
                 /\ Take(TenantOf[p])
                 /\ Becomes(p, "reading", "running") \/ Becomes(p, "using", "none")

(* The CAD runner works on one upload at a time and takes no slot.         *)
BeginUnpack(p) == /\ parse[p] = NoParse
                  /\ \A q \in Unpacks : parse[q].pc = "idle"
                  /\ Becomes(p, "reading", "running")
                  /\ UNCHANGED <<inFlight, share>>

(* The promise of runInWorker settles, once.                               *)
Settle(p, thread) == /\ parse[p].pc = "reading"
                     /\ Becomes(p, IF p \in Unpacks THEN "idle" ELSE "using", thread)
                     /\ UNCHANGED <<inFlight, share>>

(* A message or an error; an exit, also out of memory, leaves no thread.   *)
Answer(p) == Settle(p, "told") \/ Settle(p, "none")

Deadline(p) == Settle(p, "told")

(* The exit of a thread whose promise has settled: nobody listens.         *)
ThreadEnds(p) == /\ parse[p].thread = "told"
                 /\ parse' = [parse EXCEPT ![p].thread = "none"]
                 /\ UNCHANGED <<inFlight, share>>

GiveBackShare(p) ==   \* only the share of the tenant
  /\ parse[p].pc = "using"
  /\ share' = [share EXCEPT ![TenantOf[p]] = @ - 1]
  /\ parse' = [parse EXCEPT ![p].pc = "idle"]
  /\ inFlight' = inFlight

(* The caller is done with what was read, or throws: its finally block.    *)
GiveBack(p) == /\ parse[p].pc = "using"
              /\ inFlight' = inFlight - 1
              /\ share' = [share EXCEPT ![TenantOf[p]] = @ - 1]
              /\ parse' = [parse EXCEPT ![p].pc = "idle"]

Works(p) == Answer(p) \/ Deadline(p) \/ ThreadEnds(p)

HeavyNext == \/ \E p \in Parses : BeginParse(p) \/ Works(p) \/ GiveBack(p)
             \/ \E p \in Unpacks : BeginUnpack(p) \/ Works(p)

HeavySpec == HeavyInit /\ [][HeavyNext]_heavyVars

-----------------------------------------------------------------------------
(* What the slots and the parses can be.                                   *)
HeavyTypeOK == /\ inFlight \in Nat
               /\ share \in [Tenants -> Nat]
               /\ parse \in [Parses \cup Unpacks -> Parse]

Holding(t) == {p \in Parses : parse[p].pc # "idle" /\ TenantOf[p] = t}

AllHolding == {p \in Parses : parse[p].pc # "idle"}

(* Threads that nobody has told to end.                                    *)
BusyThreads == {p \in Parses \cup Unpacks : parse[p].thread = "running"}

(* The two counts are those of the parses that hold a slot, neither is     *)
(* above its limit, and no more threads read than there are slots, but for *)
(* the one of the CAD runner: however workers, deadlines and callers end.  *)
ParsesBounded ==
  /\ inFlight = Cardinality(AllHolding) /\ inFlight <= MaxParses
  /\ \A t \in Tenants : share[t] = Cardinality(Holding(t)) /\ share[t] <= MaxShare
  /\ Cardinality(BusyThreads) <= MaxParses + 1

(* "each heavy-work worker has its own heap [...], at most                 *)
(* HEAVY_WORK_MAX_CONCURRENT at a time".                                   *)
WorkersInBudget == Cardinality({p \in Parses \cup Unpacks : parse[p].thread # "none"}) <= MaxParses

(* A process that is full gets a slot back, though a worker may never      *)
(* answer.                                                                 *)
SlotsComeBack == inFlight = MaxParses ~> inFlight < MaxParses
=============================================================================
