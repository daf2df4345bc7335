------------------------------ MODULE AiBudget ------------------------------
(***************************************************************************)
(* The only way to the language model (backend/src/common/ai/              *)
(* ai-budget.service.ts): daily token budgets counted in the database      *)
(* (migration 949), and slots for the requests a user may have running,    *)
(* counted in the one backend process.  A request is one use of an         *)
(* AiSession by the copilot or a VAVE feature; the model client and the    *)
(* features are in here only as what they do with their session.           *)
(***************************************************************************)
EXTENDS Naturals, FiniteSets

CONSTANTS
  AiRequests,     \* requests that may be under way at one time
  Users, Orgs, Deployment,
  UserOf, OrgOf,  \* who pays for a request
  Limit,          \* AI_USER_DAILY_TOKENS and so on, for each who pays
  MaxConcurrent,  \* AI_MAX_CONCURRENT_PER_USER
  MaxCalls,       \* model calls of one request: MAX_TOOL_ITERATIONS
  MaxTokens       \* what one call can cost, input and output together

Scopes == Users \cup Orgs \cup {Deployment}

ASSUME AiAssumption ==
  /\ IsFiniteSet(AiRequests)
  /\ Users \cap (Orgs \cup {Deployment}) = {}
  /\ UserOf \in [AiRequests -> Users]
  /\ OrgOf \in [AiRequests -> Orgs]
  /\ Limit \in [Scopes -> Nat \ {0}]
  /\ MaxConcurrent \in Nat \ {0}
  /\ MaxCalls \in Nat \ {0}
  /\ MaxTokens \in Nat \ {0}

VARIABLES
  req,      \* what each request is doing with its session
  running,  \* AiBudgetService.running, by user
  used      \* today's recorded tokens: sums over ai_usage_daily

budgetVars == <<req, running, used>>

(* `opening` awaits the check of open(), `checking` that of a later call;  *)
(* `leaving` is in a finally block.  `fresh` is budgetChecked, `calls`     *)
(* counts the calls begun.                                                 *)
AiRequest == [pc : {"none", "opening", "open", "checking", "calling", "leaving"},
              fresh : BOOLEAN, closed : BOOLEAN, calls : 0..MaxCalls]

NoRequest == [pc |-> "none", fresh |-> FALSE, closed |-> FALSE, calls |-> 0]

(* What the sessions, the map of running requests and the totals can be.   *)
TypeOK == /\ req \in [AiRequests -> AiRequest]
          /\ running \in [Users -> Nat]
          /\ used \in [Scopes -> Nat]

Init == /\ req = [r \in AiRequests |-> NoRequest]
        /\ running = [u \in Users |-> 0]
        /\ used = [s \in Scopes |-> 0]

Pays(r) == {UserOf[r], OrgOf[r], Deployment}

WithinBudget(r) == \A s \in Pays(r) : used[s] < Limit[s]

Advances(r, pc) == req' = [req EXCEPT ![r].pc = pc]

(* What the request did before does not matter any more.                   *)
Leaves(r) == req' = [req EXCEPT ![r] = [NoRequest EXCEPT !.pc = "leaving"]]

Release(u) == running' = [running EXCEPT ![u] = IF running[u] > 0
                                                THEN running[u] - 1 ELSE 0]

(* A request that holds a slot.                                            *)
Holds(r) == req[r].pc # "none" /\ ~req[r].closed

-----------------------------------------------------------------------------
(* open(), up to its await: the slot is taken before the budget is read.   *)
(* Without a free slot the request is refused and nothing changes.         *)
Open(r) ==
  LET u == UserOf[r]
  IN  /\ req[r].pc = "none"
      /\ running[u] < MaxConcurrent
      /\ running' = [running EXCEPT ![u] = running[u] + 1]
      /\ Advances(r, "opening")
      /\ used' = used

Opened(r) ==
  /\ req[r].pc = "opening"
  /\ WithinBudget(r)
  /\ req' = [req EXCEPT ![r] = [NoRequest EXCEPT !.pc = "open", !.fresh = TRUE]]
  /\ UNCHANGED <<running, used>>

NotOpenedKeepsSlot(r) ==
  /\ req[r].pc = "opening"
  /\ req' = [req EXCEPT ![r] = NoRequest]
  /\ UNCHANGED <<running, used>>

(* A budget is spent, or the usage cannot be read.                         *)
NotOpened(r) ==
  /\ req[r].pc = "opening"
  /\ Release(UserOf[r])
  /\ req' = [req EXCEPT ![r] = NoRequest]
  /\ used' = used

BeforeCallFresh(r) ==   \* the check of open() is good for every call
  /\ req[r].pc = "open"
  /\ req[r].calls < MaxCalls
  /\ req' = [req EXCEPT ![r].pc = IF req[r].fresh THEN "calling" ELSE "checking",
                        ![r].calls = req[r].calls + 1]
  /\ UNCHANGED <<running, used>>

(* beforeCall(): the first call relies on the check of open().             *)
BeforeCall(r) ==
  /\ req[r].pc = "open"
  /\ req[r].calls < MaxCalls
  /\ req' = [req EXCEPT ![r].pc = IF req[r].fresh THEN "calling" ELSE "checking",
                        ![r].fresh = FALSE,
                        ![r].calls = req[r].calls + 1]
  /\ UNCHANGED <<running, used>>

CallAllowed(r) ==
  /\ req[r].pc = "checking"
  /\ WithinBudget(r)
  /\ Advances(r, "calling")
  /\ UNCHANGED <<running, used>>

CallRefused(r) ==
  /\ req[r].pc = "checking"
  /\ Leaves(r)
  /\ UNCHANGED <<running, used>>

(* ai_usage_record: one row, which counts for all who pay.                 *)
RecordUse(r, tokens) ==
  used' = [s \in Scopes |-> IF s \in Pays(r) THEN used[s] + tokens ELSE used[s]]

(* The model has answered.  An answer that breaks off is recorded as far   *)
(* as it got; a call that fails altogether, or an answer that cannot be    *)
(* recorded, ends the request.                                             *)
CallEnds(r) ==
  /\ req[r].pc = "calling"
  /\ \/ /\ \E tokens \in 1..MaxTokens : RecordUse(r, tokens)
        /\ Advances(r, "open") \/ Leaves(r)
     \/ /\ used' = used
        /\ Leaves(r)
  /\ running' = running

(* The feature is done, or fails outside a call, or its client is gone.    *)
Finish(r) ==
  /\ req[r].pc = "open"
  /\ Leaves(r)
  /\ UNCHANGED <<running, used>>

CloseReleases(r) ==   \* not idempotent
  /\ req[r].pc = "leaving"
  /\ Release(UserOf[r])
  /\ req' = [req EXCEPT ![r].closed = TRUE]
  /\ used' = used

(* close(), which the copilot calls in two finally blocks and VAVE in one. *)
Close(r) ==
  /\ req[r].pc = "leaving"
  /\ IF req[r].closed THEN running' = running ELSE Release(UserOf[r])
  /\ req' = [req EXCEPT ![r].closed = TRUE]
  /\ used' = used

Leave(r) ==
  /\ req[r].pc = "leaving"
  /\ req[r].closed
  /\ req' = [req EXCEPT ![r] = NoRequest]
  /\ UNCHANGED <<running, used>>

(* At 00:00 UTC the totals of ai_usage_today start over; calls go on.      *)
NewDay == /\ used' = [s \in Scopes |-> 0]
          /\ UNCHANGED <<req, running>>

(* The process restarts: its requests are gone, with what they had not yet *)
(* recorded.                                                               *)
Restart == /\ req' = [r \in AiRequests |-> NoRequest]
           /\ running' = [u \in Users |-> 0]
           /\ used' = used

Step(r) == \/ Opened(r) \/ NotOpened(r)
           \/ BeforeCall(r) \/ CallAllowed(r) \/ CallRefused(r) \/ CallEnds(r)
           \/ Finish(r) \/ Close(r) \/ Leave(r)

Next == \/ \E r \in AiRequests : Open(r) \/ Step(r)
        \/ NewDay
        \/ Restart

Spec == Init /\ [][Next]_budgetVars

(* Every await of a request ends: database calls and model calls time out. *)
FairSpec == Spec /\ \A r \in AiRequests : WF_budgetVars(Step(r))

-----------------------------------------------------------------------------
Payers(s) == {r \in AiRequests : s \in Pays(r)}

(* "A call that starts under the limit can finish over it, by at most one  *)
(* call per running request": each total stays below its limit plus one    *)
(* call for each request that can be running on it - for a user, only as   *)
(* many as there are slots.                                                *)
Most(s) == IF s \in Users THEN MaxConcurrent ELSE Cardinality(Payers(s))

OverspendBounded ==
  \A s \in Scopes : used[s] < Limit[s] + MaxTokens * Most(s)

(* A user's count is the number of their requests that hold a slot, so no  *)
(* slot leaks and none is freed twice, and it never exceeds the limit.     *)
Holders(u) == {r \in AiRequests : UserOf[r] = u /\ Holds(r)}

SlotsHeld ==
  \A u \in Users : /\ running[u] = Cardinality(Holders(u))
                   /\ running[u] <= MaxConcurrent

(* A user who has every slot taken gets one back.                          *)
SlotsFreed ==
  \A u \in Users : running[u] = MaxConcurrent ~> running[u] < MaxConcurrent

-----------------------------------------------------------------------------
(* Why the totals are bounded: a call whose check has passed is paid for   *)
(* in advance, at the highest price.                                       *)
Allowed(r) == \/ req[r].pc = "open" /\ req[r].fresh
              \/ req[r].pc = "calling"

Pledged(s) == {r \in Payers(s) : Allowed(r)}

Headroom ==
  \A s \in Scopes :
    used[s] + MaxTokens * Cardinality(Pledged(s)) < Limit[s] + MaxTokens * Most(s)

OpenSessions ==
  \A r \in AiRequests : /\ req[r].closed => req[r].pc = "leaving"
                        /\ req[r].fresh => req[r].pc = "open"

(* Sessions, slots and totals together: inductive, and the reason for the  *)
(* bound on overspending.                                                  *)
BudgetInv == OpenSessions /\ SlotsHeld /\ Headroom
=============================================================================
