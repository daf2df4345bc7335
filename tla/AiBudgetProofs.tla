--------------------------- MODULE AiBudgetProofs ---------------------------
(***************************************************************************)
(* Theorems about the AI budget, for any users, organizations, limits,     *)
(* number of slots, calls per request and price of a call.                 *)
(***************************************************************************)
EXTENDS AiBudget, FiniteSetTheorems, TLAPS

-----------------------------------------------------------------------------
(* A set that may gain or lose one element, counted.                       *)
LEMMA CountStep ==
  ASSUME NEW S, NEW T, NEW x, IsFiniteSet(S), S \ {x} = T \ {x}
  PROVE  /\ (x \in S <=> x \in T) => S = T
         /\ x \notin S /\ x \in T => Cardinality(T) = Cardinality(S) + 1
         /\ x \in S /\ x \notin T => Cardinality(T) = Cardinality(S) - 1
<1>1. (x \in S <=> x \in T) => S = T
  OBVIOUS
<1>2. ASSUME x \notin S, x \in T
      PROVE  Cardinality(T) = Cardinality(S) + 1
  <2>1. T = S \cup {x}
    BY <1>2
  <2> QED
    BY <1>2, <2>1, FS_AddElement
<1>3. ASSUME x \in S, x \notin T
      PROVE  Cardinality(T) = Cardinality(S) - 1
  <2>1. T = S \ {x}
    BY <1>3
  <2> QED
    BY <1>3, <2>1, FS_RemoveElement
<1> QED
  BY <1>1, <1>2, <1>3

(* Multiplication is monotone.                                             *)
LEMMA TimesMonotone ==
  ASSUME NEW k \in Nat, NEW m \in Nat, NEW n \in Nat, m <= n
  PROVE  k * m <= k * n
<1>1. PICK d \in Nat : n = m + d
  BY n - m \in Nat, n = m + (n - m)
<1>2. k * n = k * m + k * d
  BY <1>1
<1>3. k * d \in Nat /\ k * m \in Nat
  OBVIOUS
<1> QED
  BY <1>2, <1>3

(* One factor less is one price less.                                      *)
LEMMA TimesOneLess ==
  ASSUME NEW k \in Nat, NEW n \in Nat, n # 0
  PROVE  k * (n - 1) = k * n - k
  OBVIOUS

-----------------------------------------------------------------------------
(* Every set of requests is finite, and a part of it is no larger.         *)
LEMMA Finite ==
  ASSUME NEW S \in SUBSET AiRequests
  PROVE  /\ IsFiniteSet(S)
         /\ Cardinality(S) \in Nat
         /\ \A T \in SUBSET S : Cardinality(T) <= Cardinality(S)
  BY AiAssumption, FS_Subset, FS_CardinalityType

(* The number of requests that may be running on a total is a number.      *)
LEMMA MostIsNat == \A s \in Scopes : Most(s) \in Nat
  BY Finite, AiAssumption DEF Most, Payers

(* Only a request that holds a slot has a call allowed, so a user has no   *)
(* more of them than slots.                                                *)
LEMMA PledgedFew ==
  OpenSessions /\ SlotsHeld =>
    \A s \in Scopes : Cardinality(Pledged(s)) <= Most(s)
<1> SUFFICES ASSUME OpenSessions, SlotsHeld, NEW s \in Scopes
             PROVE  Cardinality(Pledged(s)) <= Most(s)
  OBVIOUS
<1>1. CASE s \in Users
  <2>1. Pledged(s) \in SUBSET Holders(s)
    BY <1>1, AiAssumption
    DEF Pledged, Payers, Pays, Holders, Holds, Allowed, OpenSessions, Scopes
  <2>2. Holders(s) \in SUBSET AiRequests /\ Pledged(s) \in SUBSET AiRequests
    BY DEF Holders, Pledged, Payers
  <2>3. Cardinality(Pledged(s)) <= Cardinality(Holders(s))
    BY <2>1, <2>2, Finite
  <2>4. running[s] = Cardinality(Holders(s)) /\ running[s] <= MaxConcurrent
    BY <1>1 DEF SlotsHeld
  <2> QED
    BY <1>1, <2>2, <2>3, <2>4, Finite, AiAssumption DEF Most
<1>2. CASE s \notin Users
  <2>1. Payers(s) \in SUBSET AiRequests /\ Pledged(s) \in SUBSET Payers(s)
    BY DEF Payers, Pledged
  <2> QED
    BY <1>2, <2>1, Finite DEF Most
<1> QED
  BY <1>1, <1>2

-----------------------------------------------------------------------------
(* Type correctness.                                                       *)
LEMMA TypeInit == Init => TypeOK
  BY AiAssumption DEF Init, TypeOK, AiRequest, NoRequest

(* Every state of a request is one.                                        *)
LEMMA Records ==
  /\ NoRequest \in AiRequest
  /\ [NoRequest EXCEPT !.pc = "leaving"] \in AiRequest
  /\ [NoRequest EXCEPT !.pc = "open", !.fresh = TRUE] \in AiRequest
  /\ \A q \in AiRequest :
       /\ \A pc \in {"opening", "open", "calling"} :
            [q EXCEPT !.pc = pc] \in AiRequest
       /\ [q EXCEPT !.closed = TRUE] \in AiRequest
<1>1. ASSUME NEW q \in AiRequest, NEW pc \in {"opening", "open", "calling"}
      PROVE  [q EXCEPT !.pc = pc] \in AiRequest
  BY DEF AiRequest
<1>2. ASSUME NEW q \in AiRequest
      PROVE  [q EXCEPT !.closed = TRUE] \in AiRequest
  BY DEF AiRequest
<1>3. 0 \in 0..MaxCalls
  BY AiAssumption
<1>4. NoRequest \in AiRequest
  BY <1>3 DEF NoRequest, AiRequest
<1>5. [NoRequest EXCEPT !.pc = "leaving"] \in AiRequest
  BY <1>4 DEF AiRequest
<1>6. [NoRequest EXCEPT !.pc = "open", !.fresh = TRUE] \in AiRequest
  BY <1>4 DEF AiRequest
<1> QED
  BY <1>1, <1>2, <1>4, <1>5, <1>6

(* A request that begins a call is still a request of the right type.      *)
LEMMA CallRecords ==
  ASSUME NEW q \in AiRequest, q.calls < MaxCalls, NEW pc \in {"calling", "checking"}
  PROVE  [q EXCEPT !.pc = pc, !.fresh = FALSE, !.calls = q.calls + 1] \in AiRequest
<1>1. q.calls + 1 \in 0..MaxCalls
  BY AiAssumption DEF AiRequest
<1> QED
  BY <1>1 DEF AiRequest

(* release() never makes a count negative.                                 *)
LEMMA ReleaseType ==
  ASSUME running \in [Users -> Nat], NEW u \in Users, Release(u)
  PROVE  running' \in [Users -> Nat]
<1>1. (IF running[u] > 0 THEN running[u] - 1 ELSE 0) \in Nat
  OBVIOUS
<1> QED
  BY <1>1 DEF Release

(* Every step keeps the types.                                             *)
LEMMA TypeStep == TypeOK /\ [Next]_budgetVars => TypeOK'
<1> SUFFICES ASSUME TypeOK, [Next]_budgetVars
             PROVE  TypeOK'
  OBVIOUS
<1> USE DEF TypeOK
<1>1. \A r \in AiRequests : UserOf[r] \in Users
  BY AiAssumption
<1>2. ASSUME NEW r \in AiRequests, Open(r)
      PROVE  TypeOK'
  <2>1. running[UserOf[r]] + 1 \in Nat
    BY <1>1
  <2> QED
    BY <1>2, <2>1, Records DEF Open, Advances
<1>3. ASSUME NEW r \in AiRequests, Opened(r)
      PROVE  TypeOK'
  BY <1>3, Records DEF Opened
<1>4. ASSUME NEW r \in AiRequests, NotOpened(r)
      PROVE  TypeOK'
  BY <1>1, <1>4, Records, ReleaseType DEF NotOpened
<1>5. ASSUME NEW r \in AiRequests, BeforeCall(r)
      PROVE  TypeOK'
  <2>1. req[r].calls < MaxCalls /\ req[r] \in AiRequest
    BY <1>5 DEF BeforeCall
  <2>2. [req[r] EXCEPT !.pc = IF req[r].fresh THEN "calling" ELSE "checking",
                       !.fresh = FALSE, !.calls = req[r].calls + 1] \in AiRequest
    BY <2>1, CallRecords
  <2> QED
    BY <1>5, <2>2 DEF BeforeCall
<1>6. ASSUME NEW r \in AiRequests, CallAllowed(r)
      PROVE  TypeOK'
  BY <1>6, Records DEF CallAllowed, Advances
<1>7. ASSUME NEW r \in AiRequests, CallRefused(r) \/ Finish(r)
      PROVE  TypeOK'
  BY <1>7, Records DEF CallRefused, Finish, Leaves
<1>8. ASSUME NEW r \in AiRequests, CallEnds(r)
      PROVE  TypeOK'
  <2>1. used' \in [Scopes -> Nat]
    BY <1>8, AiAssumption DEF CallEnds, RecordUse
  <2>2. req' \in [AiRequests -> AiRequest]
    <3>1. [req[r] EXCEPT !.pc = "open"] \in AiRequest
      BY Records
    <3>2. Advances(r, "open") \/ Leaves(r)
      BY <1>8 DEF CallEnds
    <3> QED
      BY <3>1, <3>2, Records DEF Advances, Leaves
  <2> QED
    BY <1>8, <2>1, <2>2 DEF CallEnds
<1>9. ASSUME NEW r \in AiRequests, Close(r)
      PROVE  TypeOK'
  <2>1. running' \in [Users -> Nat]
    BY <1>1, <1>9, ReleaseType DEF Close
  <2> QED
    BY <1>9, <2>1, Records DEF Close
<1>10. ASSUME NEW r \in AiRequests, Leave(r)
       PROVE  TypeOK'
  BY <1>10, Records DEF Leave
<1>11. ASSUME NewDay
       PROVE  TypeOK'
  BY <1>11 DEF NewDay
<1>12. ASSUME Restart
       PROVE  TypeOK'
  BY <1>12, Records DEF Restart
<1>13. ASSUME UNCHANGED budgetVars
       PROVE  TypeOK'
  BY <1>13 DEF budgetVars
<1> QED
  BY <1>2, <1>3, <1>4, <1>5, <1>6, <1>7, <1>8, <1>9, <1>10, <1>11, <1>12, <1>13
  DEF Next, Step

-----------------------------------------------------------------------------
(* Slots.  A step of request r changes no other request, so only r can     *)
(* enter or leave the holders of its user.                                 *)
OnlyOf(r) == \A q \in AiRequests \ {r} : req'[q] = req[q]

(* A step of one request changes the holders of a slot by that request at  *)
(* most.                                                                   *)
LEMMA HoldersMove ==
  ASSUME NEW r \in AiRequests, OnlyOf(r), NEW u \in Users
  PROVE  /\ IsFiniteSet(Holders(u)) /\ Cardinality(Holders(u)) \in Nat
         /\ Holders(u) \ {r} = Holders(u)' \ {r}
         /\ r \in Holders(u) <=> u = UserOf[r] /\ Holds(r)
         /\ r \in Holders(u)' <=> u = UserOf[r] /\ Holds(r)'
<1>1. Holders(u) \in SUBSET AiRequests
  BY DEF Holders
<1> QED
  BY <1>1, Finite DEF OnlyOf, Holders, Holds

(* A step that changes neither the holders nor the counts keeps            *)
(* SlotsHeld,                                                              *)
LEMMA SlotKept ==
  ASSUME SlotsHeld, NEW r \in AiRequests, OnlyOf(r), Holds(r)' <=> Holds(r),
         running' = running
  PROVE  SlotsHeld'
<1>1. \A u \in Users : Holders(u)' = Holders(u)
  BY HoldersMove, CountStep
<1> QED
  BY <1>1 DEF SlotsHeld

(* one that takes a free slot does,                                        *)
LEMMA SlotTaken ==
  ASSUME TypeOK, SlotsHeld, NEW r \in AiRequests, OnlyOf(r), ~Holds(r), Holds(r)',
         running[UserOf[r]] < MaxConcurrent,
         running' = [running EXCEPT ![UserOf[r]] = running[UserOf[r]] + 1]
  PROVE  SlotsHeld'
<1> SUFFICES ASSUME NEW u \in Users
             PROVE  /\ running'[u] = Cardinality(Holders(u)')
                    /\ running'[u] <= MaxConcurrent
  BY DEF SlotsHeld
<1>1. running[u] = Cardinality(Holders(u)) /\ running[u] <= MaxConcurrent
  BY DEF SlotsHeld
<1>2. CASE u = UserOf[r]
  <2>1. Cardinality(Holders(u)') = Cardinality(Holders(u)) + 1
    BY <1>2, HoldersMove, CountStep
  <2>2. running'[u] = running[u] + 1
    BY <1>2 DEF TypeOK
  <2> QED
    BY <1>1, <1>2, <2>1, <2>2, AiAssumption DEF TypeOK
<1>3. CASE u # UserOf[r]
  <2>1. Holders(u)' = Holders(u)
    BY <1>3, HoldersMove, CountStep
  <2> QED
    BY <1>1, <1>3, <2>1 DEF TypeOK
<1> QED
  BY <1>2, <1>3

(* and so does one that frees the slot of its request.                     *)
LEMMA SlotFreed ==
  ASSUME TypeOK, SlotsHeld, NEW r \in AiRequests, OnlyOf(r), Holds(r), ~Holds(r)',
         Release(UserOf[r])
  PROVE  SlotsHeld'
<1> SUFFICES ASSUME NEW u \in Users
             PROVE  /\ running'[u] = Cardinality(Holders(u)')
                    /\ running'[u] <= MaxConcurrent
  BY DEF SlotsHeld
<1>1. running[u] = Cardinality(Holders(u)) /\ running[u] <= MaxConcurrent
  BY DEF SlotsHeld
<1>2. CASE u = UserOf[r]
  <2>1. Cardinality(Holders(u)') = Cardinality(Holders(u)) - 1
    BY <1>2, HoldersMove, CountStep
  <2>2. Holders(u) # {}
    BY <1>2, HoldersMove
  <2>3. Cardinality(Holders(u)) # 0
    BY <2>2, HoldersMove, FS_EmptySet
  <2>4. running'[u] = running[u] - 1
    BY <1>1, <1>2, <2>3 DEF TypeOK, Release
  <2> QED
    BY <1>1, <2>1, <2>4, AiAssumption DEF TypeOK
<1>3. CASE u # UserOf[r]
  <2>1. Holders(u)' = Holders(u)
    BY <1>3, HoldersMove, CountStep
  <2> QED
    BY <1>1, <1>3, <2>1 DEF TypeOK, Release
<1> QED
  BY <1>2, <1>3

-----------------------------------------------------------------------------
(* Totals.                                                                 *)
LEMMA PledgedMove ==
  ASSUME NEW r \in AiRequests, OnlyOf(r), NEW s \in Scopes
  PROVE  /\ IsFiniteSet(Pledged(s)) /\ Cardinality(Pledged(s)) \in Nat
         /\ Cardinality(Pledged(s)') \in Nat
         /\ Pledged(s) \ {r} = Pledged(s)' \ {r}
         /\ r \in Pledged(s) <=> s \in Pays(r) /\ Allowed(r)
         /\ r \in Pledged(s)' <=> s \in Pays(r) /\ Allowed(r)'
<1>1. Pledged(s) \in SUBSET AiRequests /\ Pledged(s)' \in SUBSET AiRequests
  BY DEF Pledged, Payers
<1> QED
  BY <1>1, Finite DEF OnlyOf, Pledged, Payers, Allowed

(* Nothing is spent and no call is allowed that was not before.            *)
LEMMA PledgeKept ==
  ASSUME TypeOK, Headroom, NEW r \in AiRequests, OnlyOf(r), used' = used,
         Allowed(r)' => Allowed(r)
  PROVE  Headroom'
<1> SUFFICES ASSUME NEW s \in Scopes
             PROVE  used[s] + MaxTokens * Cardinality(Pledged(s)')
                      < Limit[s] + MaxTokens * Most(s)
  BY DEF Headroom
<1>1. Cardinality(Pledged(s)') <= Cardinality(Pledged(s))
  BY PledgedMove, CountStep
<1>2. MaxTokens * Cardinality(Pledged(s)') <= MaxTokens * Cardinality(Pledged(s))
  BY <1>1, PledgedMove, TimesMonotone, AiAssumption
<1>3. used[s] + MaxTokens * Cardinality(Pledged(s)) < Limit[s] + MaxTokens * Most(s)
  BY DEF Headroom
<1>4. /\ MaxTokens * Cardinality(Pledged(s)') \in Nat
      /\ MaxTokens * Cardinality(Pledged(s)) \in Nat
      /\ MaxTokens * Most(s) \in Nat
      /\ used[s] \in Nat /\ Limit[s] \in Nat
  BY PledgedMove, MostIsNat, AiAssumption DEF TypeOK
<1> QED
  BY <1>2, <1>3, <1>4

(* A total below its limit leaves room for a call of everyone.             *)
LEMMA BelowLimit ==
  ASSUME NEW s \in Scopes, NEW n \in Nat, n <= Most(s), NEW t \in Nat,
         t < Limit[s]
  PROVE  t + MaxTokens * n < Limit[s] + MaxTokens * Most(s)
<1>1. MaxTokens * n <= MaxTokens * Most(s)
  BY MostIsNat, TimesMonotone, AiAssumption
<1>2. MaxTokens * n \in Nat /\ MaxTokens * Most(s) \in Nat /\ Limit[s] \in Nat
  BY MostIsNat, AiAssumption
<1> QED
  BY <1>1, <1>2

(* A call is allowed because all who pay are within their budgets.         *)
LEMMA PledgeMade ==
  ASSUME TypeOK, OpenSessions', SlotsHeld', Headroom, NEW r \in AiRequests,
         OnlyOf(r), used' = used, WithinBudget(r)
  PROVE  Headroom'
<1>1. (\A s \in Scopes : Cardinality(Pledged(s)) <= Most(s))'
  BY PledgedFew, PTL
<1> SUFFICES ASSUME NEW s \in Scopes
             PROVE  used[s] + MaxTokens * Cardinality(Pledged(s)')
                      < Limit[s] + MaxTokens * Most(s)
  BY DEF Headroom
<1>2. CASE s \in Pays(r)
  BY <1>1, <1>2, PledgedMove, BelowLimit DEF WithinBudget, TypeOK
<1>3. CASE s \notin Pays(r)
  <2>1. Pledged(s)' = Pledged(s)
    BY <1>3, PledgedMove, CountStep
  <2> QED
    BY <2>1 DEF Headroom
<1> QED
  BY <1>2, <1>3

(* A call has been paid for.                                               *)
LEMMA PledgePaid ==
  ASSUME TypeOK, Headroom, NEW r \in AiRequests, OnlyOf(r), Allowed(r), ~Allowed(r)',
         NEW tokens \in 1..MaxTokens, RecordUse(r, tokens)
  PROVE  Headroom'
<1> SUFFICES ASSUME NEW s \in Scopes
             PROVE  used'[s] + MaxTokens * Cardinality(Pledged(s)')
                      < Limit[s] + MaxTokens * Most(s)
  BY DEF Headroom
<1>1. used[s] + MaxTokens * Cardinality(Pledged(s)) < Limit[s] + MaxTokens * Most(s)
  BY DEF Headroom
<1>2. CASE s \in Pays(r)
  <2>1. Cardinality(Pledged(s)') = Cardinality(Pledged(s)) - 1
    BY <1>2, PledgedMove, CountStep
  <2>2. Cardinality(Pledged(s)) # 0
    BY <1>2, PledgedMove, FS_EmptySet
  <2>3. MaxTokens * Cardinality(Pledged(s)')
          = MaxTokens * Cardinality(Pledged(s)) - MaxTokens
    BY <2>1, <2>2, PledgedMove, TimesOneLess, AiAssumption
  <2>4. used'[s] = used[s] + tokens
    BY <1>2 DEF RecordUse
  <2>5. /\ MaxTokens * Cardinality(Pledged(s)) \in Nat
        /\ MaxTokens * Most(s) \in Nat
        /\ used[s] \in Nat /\ Limit[s] \in Nat /\ MaxTokens \in Nat
    BY PledgedMove, MostIsNat, AiAssumption DEF TypeOK
  <2> QED
    BY <1>1, <2>3, <2>4, <2>5
<1>3. CASE s \notin Pays(r)
  <2>1. Pledged(s)' = Pledged(s)
    BY <1>3, PledgedMove, CountStep
  <2>2. used'[s] = used[s]
    BY <1>3 DEF RecordUse
  <2> QED
    BY <1>1, <2>1, <2>2
<1> QED
  BY <1>2, <1>3

-----------------------------------------------------------------------------
(* BudgetInv is inductive.                                                 *)
LEMMA BudgetInit == Init => BudgetInv
<1> SUFFICES ASSUME Init
             PROVE  BudgetInv
  OBVIOUS
<1>1. OpenSessions
  BY DEF Init, OpenSessions, NoRequest
<1>2. SlotsHeld
  <2>1. \A u \in Users : Holders(u) = {}
    BY DEF Init, Holders, Holds, NoRequest
  <2>2. \A u \in Users : running[u] = 0 /\ running[u] <= MaxConcurrent
    BY AiAssumption DEF Init
  <2> QED
    BY <2>1, <2>2, FS_EmptySet DEF SlotsHeld
<1>3. Headroom
  <2> SUFFICES ASSUME NEW s \in Scopes
               PROVE  used[s] + MaxTokens * Cardinality(Pledged(s))
                        < Limit[s] + MaxTokens * Most(s)
    BY DEF Headroom
  <2>1. Pledged(s) = {}
    BY DEF Init, Pledged, Payers, Allowed, NoRequest
  <2>2. 0 <= Most(s) /\ used[s] = 0 /\ 0 < Limit[s]
    BY MostIsNat, AiAssumption DEF Init
  <2> QED
    BY <2>1, <2>2, BelowLimit, FS_EmptySet
<1> QED
  BY <1>1, <1>2, <1>3 DEF BudgetInv

(* A step of r, together with all the rest that happens in it.             *)
LEMMA RequestStep ==
  ASSUME TypeOK, BudgetInv, NEW r \in AiRequests, Open(r) \/ Step(r)
  PROVE  BudgetInv'
<1> USE DEF BudgetInv
<1>1. req[r] \in AiRequest /\ req \in [AiRequests -> AiRequest]
  BY DEF TypeOK
<1>2. CASE Open(r)
  <2>1. req[r].pc = "none" /\ ~req[r].closed /\ ~req[r].fresh
    BY <1>2 DEF Open, OpenSessions
  <2>2. /\ OnlyOf(r) /\ req'[r].pc = "opening"
        /\ ~req'[r].closed /\ ~req'[r].fresh
    BY <1>1, <1>2, <2>1 DEF Open, Advances, OnlyOf, AiRequest
  <2>3. OpenSessions'
    BY <2>2 DEF OpenSessions, OnlyOf
  <2>4. SlotsHeld'
    BY <1>2, <2>1, <2>2, SlotTaken DEF Open, Holds
  <2>5. Headroom'
    BY <1>2, <2>2, PledgeKept DEF Open, Allowed
  <2> QED
    BY <2>3, <2>4, <2>5
<1>3. CASE Opened(r)
  <2>1. /\ OnlyOf(r) /\ Holds(r)
        /\ req'[r].pc = "open" /\ ~req'[r].closed
    BY <1>1, <1>3 DEF Opened, OnlyOf, NoRequest, Holds, OpenSessions
  <2>2. OpenSessions'
    BY <2>1 DEF OpenSessions, OnlyOf
  <2>3. SlotsHeld'
    BY <1>3, <2>1, SlotKept DEF Opened, Holds
  <2>4. Headroom'
    BY <1>3, <2>1, <2>2, <2>3, PledgeMade DEF Opened
  <2> QED
    BY <2>2, <2>3, <2>4
<1>4. CASE NotOpened(r)
  <2>1. /\ OnlyOf(r) /\ Holds(r)
        /\ req'[r].pc = "none" /\ ~req'[r].closed /\ ~req'[r].fresh
    BY <1>1, <1>4 DEF NotOpened, OnlyOf, NoRequest, Holds, OpenSessions
  <2>2. OpenSessions'
    BY <2>1 DEF OpenSessions, OnlyOf
  <2>3. SlotsHeld'
    BY <1>4, <2>1, SlotFreed DEF NotOpened, Holds
  <2>4. Headroom'
    BY <1>4, <2>1, PledgeKept DEF NotOpened, Allowed
  <2> QED
    BY <2>2, <2>3, <2>4
<1>5. CASE BeforeCall(r)
  <2>1. req[r].pc = "open" /\ ~req[r].closed
    BY <1>5 DEF BeforeCall, OpenSessions
  <2>2. /\ OnlyOf(r) /\ ~req'[r].closed /\ ~req'[r].fresh
        /\ req'[r].pc = IF req[r].fresh THEN "calling" ELSE "checking"
    BY <1>1, <1>5, <2>1 DEF BeforeCall, OnlyOf, AiRequest
  <2>3. OpenSessions'
    BY <2>2 DEF OpenSessions, OnlyOf
  <2>4. Holds(r) /\ Holds(r)'
    BY <2>1, <2>2 DEF Holds
  <2>5. SlotsHeld'
    BY <1>5, <2>2, <2>4, SlotKept DEF BeforeCall
  <2>6. Allowed(r)' => Allowed(r)
    BY <2>1, <2>2 DEF Allowed
  <2>7. Headroom'
    BY <1>5, <2>2, <2>6, PledgeKept DEF BeforeCall
  <2> QED
    BY <2>3, <2>5, <2>7
<1>6. CASE CallAllowed(r)
  <2>1. req[r].pc = "checking" /\ ~req[r].closed /\ ~req[r].fresh
    BY <1>6 DEF CallAllowed, OpenSessions
  <2>2. /\ OnlyOf(r) /\ req'[r].pc = "calling"
        /\ ~req'[r].closed /\ ~req'[r].fresh
    BY <1>1, <1>6, <2>1 DEF CallAllowed, Advances, OnlyOf, AiRequest
  <2>3. OpenSessions'
    BY <2>2 DEF OpenSessions, OnlyOf
  <2>4. SlotsHeld'
    BY <1>6, <2>1, <2>2, SlotKept DEF CallAllowed, Holds
  <2>5. Headroom'
    BY <1>6, <2>2, <2>3, <2>4, PledgeMade DEF CallAllowed
  <2> QED
    BY <2>3, <2>4, <2>5
<1>7. CASE CallRefused(r) \/ Finish(r)
  <2>1. /\ OnlyOf(r) /\ Holds(r) /\ req'[r].pc = "leaving"
        /\ ~req'[r].closed /\ ~req'[r].fresh
    BY <1>1, <1>7
    DEF CallRefused, Finish, Leaves, OnlyOf, NoRequest, Holds, OpenSessions
  <2>2. OpenSessions'
    BY <2>1 DEF OpenSessions, OnlyOf
  <2>3. SlotsHeld'
    BY <1>7, <2>1, SlotKept DEF CallRefused, Finish, Holds
  <2>4. Headroom'
    BY <1>7, <2>1, PledgeKept DEF CallRefused, Finish, Allowed
  <2> QED
    BY <2>2, <2>3, <2>4
<1>8. CASE CallEnds(r)
  <2>1. req[r].pc = "calling" /\ ~req[r].closed /\ ~req[r].fresh
    BY <1>8 DEF CallEnds, OpenSessions
  <2>2. /\ OnlyOf(r) /\ req'[r].pc \in {"open", "leaving"}
        /\ ~req'[r].closed /\ ~req'[r].fresh
    BY <1>1, <1>8, <2>1 DEF CallEnds, Advances, Leaves, OnlyOf, NoRequest, AiRequest
  <2>3. OpenSessions'
    BY <2>2 DEF OpenSessions, OnlyOf
  <2>4. SlotsHeld'
    BY <1>8, <2>1, <2>2, SlotKept DEF CallEnds, Holds
  <2>5. Allowed(r) /\ ~Allowed(r)'
    BY <2>1, <2>2 DEF Allowed
  <2>6. ASSUME used' = used
        PROVE  Headroom'
    BY <2>2, <2>5, <2>6, PledgeKept
  <2>7. ASSUME NEW tokens \in 1..MaxTokens, RecordUse(r, tokens)
        PROVE  Headroom'
    BY <2>2, <2>5, <2>7, PledgePaid
  <2> QED
    BY <1>8, <2>3, <2>4, <2>6, <2>7 DEF CallEnds
<1>9. CASE Close(r)
  <2>1. req[r].pc = "leaving" /\ ~req[r].fresh
    BY <1>9 DEF Close, OpenSessions
  <2>2. /\ OnlyOf(r) /\ req'[r].pc = "leaving"
        /\ req'[r].closed /\ ~req'[r].fresh
    BY <1>1, <1>9, <2>1 DEF Close, OnlyOf, AiRequest
  <2>3. OpenSessions'
    BY <2>2 DEF OpenSessions, OnlyOf
  <2>4. ASSUME req[r].closed
        PROVE  SlotsHeld'
    <3>1. running' = running /\ ~Holds(r) /\ ~Holds(r)'
      BY <1>9, <2>2, <2>4 DEF Close, Holds
    <3> QED
      BY <2>2, <3>1, SlotKept
  <2>5. ASSUME ~req[r].closed
        PROVE  SlotsHeld'
    <3>1. Release(UserOf[r]) /\ Holds(r) /\ ~Holds(r)'
      BY <1>9, <2>1, <2>2, <2>5 DEF Close, Holds
    <3> QED
      BY <2>2, <3>1, SlotFreed
  <2>6. Headroom'
    BY <1>9, <2>2, PledgeKept DEF Close, Allowed
  <2> QED
    BY <2>3, <2>4, <2>5, <2>6
<1>10. CASE Leave(r)
  <2>1. ~Holds(r)
    BY <1>10 DEF Leave, Holds
  <2>2. /\ OnlyOf(r) /\ req'[r].pc = "none"
        /\ ~req'[r].closed /\ ~req'[r].fresh
    BY <1>1, <1>10 DEF Leave, OnlyOf, NoRequest
  <2>3. OpenSessions'
    BY <2>2 DEF OpenSessions, OnlyOf
  <2>4. SlotsHeld'
    BY <1>10, <2>1, <2>2, SlotKept DEF Leave, Holds
  <2>5. Headroom'
    BY <1>10, <2>2, PledgeKept DEF Leave, Allowed
  <2> QED
    BY <2>3, <2>4, <2>5
<1> QED
  BY <1>2, <1>3, <1>4, <1>5, <1>6, <1>7, <1>8, <1>9, <1>10 DEF Step

(* Every step keeps BudgetInv; midnight and a restart only make room.      *)
LEMMA BudgetStep == TypeOK /\ BudgetInv /\ [Next]_budgetVars => BudgetInv'
<1> SUFFICES ASSUME TypeOK, BudgetInv, [Next]_budgetVars
             PROVE  BudgetInv'
  OBVIOUS
<1>1. ASSUME NEW r \in AiRequests, Open(r) \/ Step(r)
      PROVE  BudgetInv'
  BY <1>1, RequestStep
<1>2. CASE NewDay
  <2>1. (OpenSessions /\ SlotsHeld)'
    BY <1>2
    DEF NewDay, BudgetInv, OpenSessions, SlotsHeld, Holders, Holds
  <2>2. (\A s \in Scopes : Cardinality(Pledged(s)) <= Most(s))'
    BY <2>1, PledgedFew, PTL
  <2>3. ASSUME NEW s \in Scopes
        PROVE  used'[s] + MaxTokens * Cardinality(Pledged(s)')
                 < Limit[s] + MaxTokens * Most(s)
    <3>1. Pledged(s)' \in SUBSET AiRequests
      BY DEF Pledged, Payers
    <3>2. Cardinality(Pledged(s)') \in Nat
      BY <3>1, Finite
    <3>3. used'[s] = 0 /\ 0 < Limit[s]
      BY <1>2, AiAssumption DEF NewDay
    <3> QED
      BY <2>2, <3>2, <3>3, BelowLimit
  <2> QED
    BY <2>1, <2>3 DEF BudgetInv, Headroom
<1>3. CASE Restart
  <2>1. OpenSessions'
    BY <1>3 DEF Restart, OpenSessions, NoRequest
  <2>2. SlotsHeld'
    <3>1. \A u \in Users : Holders(u)' = {}
      BY <1>3 DEF Restart, Holders, Holds, NoRequest
    <3>2. \A u \in Users : running'[u] = 0 /\ 0 <= MaxConcurrent
      BY <1>3, AiAssumption DEF Restart
    <3> QED
      BY <3>1, <3>2, FS_EmptySet DEF SlotsHeld
  <2>3. ASSUME NEW s \in Scopes
        PROVE  used'[s] + MaxTokens * Cardinality(Pledged(s)')
                 < Limit[s] + MaxTokens * Most(s)
    <3>1. Pledged(s)' = {}
      BY <1>3 DEF Restart, Pledged, Payers, Allowed, NoRequest
    <3>2. MaxTokens * Cardinality(Pledged(s)') = 0
      BY <3>1, FS_EmptySet, AiAssumption
    <3>3. used[s] + MaxTokens * Cardinality(Pledged(s))
            < Limit[s] + MaxTokens * Most(s)
      BY DEF BudgetInv, Headroom
    <3>4. Pledged(s) \in SUBSET AiRequests
      BY DEF Pledged, Payers
    <3>5. MaxTokens * Cardinality(Pledged(s)) \in Nat
      BY <3>4, Finite, AiAssumption
    <3>6. /\ used[s] \in Nat /\ Limit[s] \in Nat
          /\ MaxTokens * Most(s) \in Nat
      BY MostIsNat, AiAssumption DEF TypeOK
    <3>7. used'[s] = used[s]
      BY <1>3 DEF Restart
    <3> QED
      BY <3>2, <3>3, <3>5, <3>6, <3>7
  <2> QED
    BY <2>1, <2>2, <2>3 DEF BudgetInv, Headroom
<1>4. CASE UNCHANGED budgetVars
  BY <1>4
  DEF budgetVars, BudgetInv, OpenSessions, SlotsHeld, Holders, Holds, Headroom,
      Pledged, Payers, Allowed
<1> QED
  BY <1>1, <1>2, <1>3, <1>4 DEF Next

(* The types, the slots and the head room of the budgets, always.          *)
THEOREM BudgetCorrect == Spec => [](TypeOK /\ BudgetInv)
<1>1. Init => TypeOK /\ BudgetInv
  BY TypeInit, BudgetInit
<1>2. TypeOK /\ BudgetInv /\ [Next]_budgetVars => (TypeOK /\ BudgetInv)'
  BY TypeStep, BudgetStep
<1> QED
  BY <1>1, <1>2, PTL DEF Spec

(* Slots and totals stay numbers and no request makes a call too many,     *)
(* whatever fails and whenever the day or the process ends.                *)
THEOREM TypeCorrect == Spec => []TypeOK
  BY BudgetCorrect, PTL

(* No user has more requests running than slots, and every slot counted is *)
(* one a request holds.                                                    *)
THEOREM SlotsAreHeld == Spec => []SlotsHeld
<1>1. TypeOK /\ BudgetInv => SlotsHeld
  BY DEF BudgetInv
<1> QED
  BY <1>1, BudgetCorrect, PTL

(* The totals of a day exceed their limits by less than one call for each  *)
(* request that can be running.                                            *)
THEOREM OverspendIsBounded == Spec => []OverspendBounded
<1>1. TypeOK /\ BudgetInv => OverspendBounded
  <2> SUFFICES ASSUME TypeOK, BudgetInv, NEW s \in Scopes
               PROVE  used[s] < Limit[s] + MaxTokens * Most(s)
    BY DEF OverspendBounded
  <2>1. used[s] + MaxTokens * Cardinality(Pledged(s))
          < Limit[s] + MaxTokens * Most(s)
    BY DEF BudgetInv, Headroom
  <2>2. Pledged(s) \in SUBSET AiRequests
    BY DEF Pledged, Payers
  <2>3. MaxTokens * Cardinality(Pledged(s)) \in Nat
    BY <2>2, Finite, AiAssumption
  <2>4. /\ used[s] \in Nat /\ Limit[s] \in Nat
        /\ MaxTokens * Most(s) \in Nat
    BY MostIsNat, AiAssumption DEF TypeOK
  <2> QED
    BY <2>1, <2>3, <2>4
<1> QED
  BY <1>1, BudgetCorrect, PTL
=============================================================================
