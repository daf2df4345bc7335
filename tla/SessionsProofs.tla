--------------------------- MODULE SessionsProofs ---------------------------
(***************************************************************************)
(* The inactivity timeout, for any policy, any number of instances, tabs   *)
(* and ticks, and any scenario: the invariants, that an ended session      *)
(* stays ended, that none passes the guard too late, and the promise that  *)
(* the server outlasts the countdown.                                      *)
(***************************************************************************)
EXTENDS Sessions, TLAPS

Busy(t) == calls[<<t, "user">>].pc # "none"

(* No time is ahead of the clock.  The row, what was read of it and what   *)
(* is cached are each no later than the latest times recorded.             *)
InOrder ==
  /\ UserBeat <= now
  /\ earned.user <= now /\ earned.job <= now
  /\ stored.user <= earned.user /\ stored.job <= earned.job
  /\ \A i \in Instances : cache[i].user <= earned.user /\ cache[i].job <= earned.job
  /\ \A x \in Calls : /\ calls[x].at <= now
                      /\ calls[x].row.user <= earned.user /\ calls[x].row.job <= earned.job
  /\ beats.covers <= shown.user /\ shown.user <= now
  /\ beats.sent <= now /\ beats.jobSent <= now /\ shown.job <= earned.job
  /\ \A t \in Tabs : tab[t].jobAt <= now

(* A heartbeat is stamped no earlier than what it reports, and recorded    *)
(* before it is answered.                                                  *)
Served(x) ==
  LET c == calls[x]
      reports == IF x[2] = "job" THEN tab[x[1]].jobAt ELSE tab[x[1]].covering
      kept == IF x[2] = "job" THEN earned.job ELSE earned.user
  IN  /\ c.pc = "idle" => refused
      /\ c.pc = "failed" => "lost" \in scene.hitches
      /\ (x[2] # "api" /\ c.pc = "write") => reports <= c.at
      /\ (x[2] # "api" /\ c.pc \in {"kept", "ok"}) => reports <= kept
      /\ x[2] = "api" => c.pc \notin {"passed", "write", "kept", "ok"}

ServedInv == \A x \in Calls : Served(x)

(* With no slow call the row only moves forward, every call came within    *)
(* the tick, and none that is past the guard is past the deadline.         *)
Prompt(x) ==
  LET c == calls[x] IN
  /\ c.pc \in {"read", "first", "told", "write"} => c.at = now
  /\ c.pc = "first" => stored.user \in {0, now}
  /\ c.pc = "told" => /\ 0 < c.row.user
                      /\ SessionDeadline(c.row) <= now => SessionDeadline(stored) <= now
  /\ c.pc \in {"passed", "write"} => now < SessionDeadline(stored)
  /\ (x[2] = "user" /\ c.pc \in {"kept", "ok"}) => stored.user = now

PromptInv ==
  scene.slow = {} =>
    /\ stored = earned
    /\ refused => stored.user > 0 /\ SessionDeadline(stored) <= now
    /\ \A x \in Calls : Prompt(x)
    /\ \A t \in Tabs : Busy(t) => beats.sent = now

(* A heartbeat of input was claimed over an earlier claim, and the last    *)
(* claim, if never recorded, is that of one under way.                     *)
Claimed(t) ==
  Busy(t) => tab[t].before < tab[t].covering /\ tab[t].covering <= shown.user

ClaimInv ==
  /\ \A t \in Tabs : Claimed(t)
  /\ (~refused /\ shown.user <= beats.covers /\ earned.user < shown.user)
       => \E t \in Tabs : Busy(t) /\ tab[t].covering = beats.covers

(* Nothing lost or slow and every tab ticked: what is shown and not        *)
(* recorded is recent, for as long as anyone can still call.               *)
Watched == (\E t \in Tabs : ~tab[t].expired) \/ (\E x \in Calls : calls[x].pc # "none")

Looked(t) ==
  (tab[t].ran /\ ~tab[t].expired) => \/ shown.user <= beats.covers
                                     \/ now < beats.sent + UserBeat
                                     \/ now + 1 < SessionDeadline(stored)

CalmInv ==
  (scene.hitches = {} /\ scene.slow = {} /\ ~refused) =>
    /\ beats.sent <= stored.user \/ \E t \in Tabs : Busy(t)
    /\ \A t \in Tabs : Looked(t)
    /\ Watched => (shown.user <= stored.user \/ now < SessionDeadline(stored))

SessionInv == SessionTypeOK /\ InOrder /\ ServedInv /\ PromptInv /\ ClaimInv /\ CalmInv

-----------------------------------------------------------------------------
(* A deadline is a timeout after the last input at least.                  *)
LEMMA DeadlineType ==
  ASSUME NEW a \in ActivityTimes
  PROVE SessionDeadline(a) \in Nat /\ a.user + IdleTimeout <= SessionDeadline(a)
BY SessionAssumption DEF SessionDeadline, Later, Sooner, ActivityTimes, Times

(* A row that is later in both columns has no earlier deadline.            *)
LEMMA DeadlineMonotone ==
  ASSUME NEW a \in ActivityTimes, NEW b \in ActivityTimes, a.user <= b.user, a.job <= b.job
  PROVE SessionDeadline(a) <= SessionDeadline(b)
BY SessionAssumption DEF SessionDeadline, Later, Sooner, ActivityTimes, Times

(* A call that is not under way is one of the kinds of call.               *)
LEMMA CallTypes ==
  /\ NoTimes \in ActivityTimes /\ NoTimes.user = 0 /\ NoTimes.job = 0 /\ 0 \in Times
  /\ NoCall \in SessionCall /\ NoCall.pc = "none" /\ NoCall.at = 0 /\ NoCall.row = NoTimes
  /\ Sent \in SessionCall /\ Sent.pc = "sent" /\ Sent.at = 0 /\ Sent.row = NoTimes
  /\ \A t \in Tabs : <<t, "user">> \in Calls /\ <<t, "job">> \in Calls /\ <<t, "api">> \in Calls
<1>1. (CHOOSE i \in Instances : TRUE) \in Instances BY SessionAssumption
<1>2. NoTimes \in ActivityTimes /\ NoTimes.user = 0 /\ NoTimes.job = 0 /\ 0 \in Times
  BY SessionAssumption DEF NoTimes, ActivityTimes, Times
<1>. QED BY <1>1, <1>2 DEF NoCall, Sent, SessionCall, Calls

-----------------------------------------------------------------------------
(* A step of the server leaves the browser's claims, and what has been     *)
(* looked at, as they were: what was recorded only moves forward.          *)
LEMMA ServerKeeps ==
  ASSUME SessionInv, SessionTypeOK', UNCHANGED <<scene, now, browserSide>>,
         earned.user <= earned'.user, refused => refused',
         scene.slow = {} => stored.user <= stored'.user /\ stored.job <= stored'.job,
         NEW x \in Calls, calls[x].pc # "none", x[2] # "api" => calls'[x].pc # "none",
         \A y \in Calls : y # x => calls'[y] = calls[y]
  PROVE /\ \A t \in Tabs : Busy(t)' <=> Busy(t)
        /\ ClaimInv' /\ CalmInv'
<1> USE DEF SessionInv
<1>1. \A t \in Tabs : Busy(t)' <=> Busy(t)
  <2>. SUFFICES ASSUME NEW t \in Tabs PROVE Busy(t)' <=> Busy(t) OBVIOUS
  <2>1. CASE x = <<t, "user">>
    <3>1. x[2] = "user" BY <2>1
    <3>. QED BY <2>1, <3>1 DEF Busy
  <2>2. CASE x # <<t, "user">> BY <2>2, CallTypes DEF Busy
  <2>. QED BY <2>1, <2>2
<1>2. now \in Nat /\ shown.user \in Nat /\ stored.user \in Nat /\ stored'.user \in Nat
      /\ earned.user \in Nat /\ earned'.user \in Nat
      /\ beats.sent \in Nat /\ stored \in ActivityTimes /\ stored' \in ActivityTimes
  BY DEF SessionTypeOK, ActivityTimes, Times
<1>3. ClaimInv' BY <1>1, <1>2 DEF ClaimInv, Claimed, browserSide
<1>4. Watched BY DEF Watched
<1>5. CalmInv'
  <2>. SUFFICES ASSUME scene.hitches = {}, scene.slow = {}, ~refused
       PROVE /\ beats.sent <= stored'.user \/ \E t \in Tabs : Busy(t)
             /\ \A t \in Tabs : Looked(t)'
             /\ shown.user <= stored'.user \/ now < SessionDeadline(stored')
    BY <1>1 DEF CalmInv, browserSide
  <2>1. /\ beats.sent <= stored.user \/ \E t \in Tabs : Busy(t)
        /\ \A t \in Tabs : Looked(t)
        /\ shown.user <= stored.user \/ now < SessionDeadline(stored)
    BY <1>4 DEF CalmInv
  <2>2. SessionDeadline(stored) <= SessionDeadline(stored')
        /\ SessionDeadline(stored) \in Nat /\ SessionDeadline(stored') \in Nat
    BY <1>2, DeadlineMonotone, DeadlineType
  <2>3. \A t \in Tabs : Looked(t)' BY <2>1, <1>2, <2>2 DEF Looked, browserSide
  <2>. QED BY <2>1, <2>2, <2>3, <1>2
<1>. QED BY <1>1, <1>3, <1>5

(* What a step of the server has to keep of one call and of the row.       *)
LEMMA ServerStep ==
  ASSUME SessionInv, SessionTypeOK', UNCHANGED <<scene, now, browserSide>>,
         NEW x \in Calls, calls[x].pc # "none", x[2] # "api" => calls'[x].pc # "none",
         \A y \in Calls : y # x => calls'[y] = calls[y],
         refused => refused',
         earned.user <= earned'.user, earned'.user <= now,
         earned.job <= earned'.job, earned'.job <= now,
         stored'.user <= earned'.user, stored'.job <= earned'.job,
         \A i \in Instances : cache'[i].user <= earned'.user /\ cache'[i].job <= earned'.job,
         calls'[x].at <= now,
         calls'[x].row.user <= earned'.user, calls'[x].row.job <= earned'.job,
         Served(x)',
         scene.slow = {} =>
           /\ stored' = earned' /\ stored'.user \in {stored.user, now}
           /\ (stored.user > 0 /\ SessionDeadline(stored) <= now) => stored' = stored
           /\ refused' => refused \/ (stored.user > 0 /\ SessionDeadline(stored) <= now)
           /\ Prompt(x)'
  PROVE SessionInv'
<1> USE DEF SessionInv
<1>1. UNCHANGED <<shown, beats, over, tab>> BY DEF browserSide
<1>2. /\ now \in Nat /\ stored \in ActivityTimes /\ stored' \in ActivityTimes
      /\ earned.user \in Nat /\ earned.job \in Nat /\ earned'.user \in Nat /\ earned'.job \in Nat
      /\ shown.job \in Nat
  BY DEF SessionTypeOK, ActivityTimes, Times
<1>3. InOrder'
  <2>1. \A y \in Calls : /\ calls'[y].at <= now
                         /\ calls'[y].row.user <= earned'.user /\ calls'[y].row.job <= earned'.job
    <3>. SUFFICES ASSUME NEW y \in Calls, y # x
         PROVE /\ calls[y].at <= now
               /\ calls[y].row.user <= earned'.user /\ calls[y].row.job <= earned'.job
      OBVIOUS
    <3>1. calls[y].row.user \in Nat /\ calls[y].row.job \in Nat
      BY DEF SessionTypeOK, SessionCall, ActivityTimes, Times
    <3>. QED BY <1>2, <3>1 DEF InOrder
  <2>2. shown.job <= earned'.job BY <1>2 DEF InOrder
  <2>. QED BY <1>1, <2>1, <2>2 DEF InOrder
<1>4. ServedInv'
  <2>. SUFFICES ASSUME NEW y \in Calls, y # x PROVE Served(y)' BY DEF ServedInv
  <2>1. Served(y) /\ calls'[y] = calls[y] BY DEF ServedInv
  <2>2. y \in Tabs \X {"user", "job", "api"} BY DEF Calls
  <2>3. tab[y[1]].jobAt \in Nat /\ tab[y[1]].covering \in Nat
    BY <2>2 DEF SessionTypeOK, Tab, Times
  <2>. QED BY <1>1, <1>2, <2>1, <2>3 DEF Served
<1>5. scene.slow = {} => stored.user <= stored'.user /\ stored.job <= stored'.job
  BY DEF PromptInv
<1>6. /\ \A t \in Tabs : Busy(t)' <=> Busy(t)
      /\ ClaimInv' /\ CalmInv'
  BY <1>5, ServerKeeps
<1>7. PromptInv'
  <2>. SUFFICES ASSUME scene.slow = {}
       PROVE /\ refused' => stored'.user > 0 /\ SessionDeadline(stored') <= now
             /\ \A y \in Calls : Prompt(y)'
             /\ \A t \in Tabs : Busy(t) => beats.sent = now
    BY <1>1, <1>6 DEF PromptInv
  <2>1. SessionDeadline(stored) <= SessionDeadline(stored')
        /\ SessionDeadline(stored) \in Nat /\ SessionDeadline(stored') \in Nat
    BY <1>2, <1>5, DeadlineMonotone, DeadlineType
  <2>2. refused' => stored'.user > 0 /\ SessionDeadline(stored') <= now BY DEF PromptInv
  <2>3. \A y \in Calls : y # x => Prompt(y)'
    <3>. SUFFICES ASSUME NEW y \in Calls, y # x PROVE Prompt(y)' OBVIOUS
    <3>1. Prompt(y) /\ calls'[y] = calls[y] BY DEF PromptInv
    <3>2. calls[y].row.user \in Nat /\ calls[y].row.user <= stored.user /\ stored.user \in Nat
      BY DEF SessionTypeOK, SessionCall, ActivityTimes, Times, InOrder, PromptInv
    <3>3. (calls[y].pc = "told" /\ SessionDeadline(calls[y].row) <= now)
            => SessionDeadline(stored') <= now
      BY <3>1, <3>2 DEF Prompt
    <3>. QED BY <1>2, <2>1, <3>1, <3>2, <3>3 DEF Prompt
  <2>. QED BY <2>2, <2>3 DEF PromptInv
<1>. QED BY <1>3, <1>4, <1>6, <1>7

(* A step of the server that writes nothing to the table.                  *)
LEMMA ReaderStep ==
  ASSUME SessionInv, SessionTypeOK', UNCHANGED <<scene, now, stored, earned, browserSide>>,
         NEW x \in Calls, calls[x].pc # "none", x[2] # "api" => calls'[x].pc # "none",
         \A y \in Calls : y # x => calls'[y] = calls[y],
         refused => refused',
         \A i \in Instances : cache'[i].user <= earned.user /\ cache'[i].job <= earned.job,
         calls'[x].at <= now,
         calls'[x].row.user <= earned.user, calls'[x].row.job <= earned.job,
         Served(x)',
         scene.slow = {} =>
           /\ refused' => refused \/ (stored.user > 0 /\ SessionDeadline(stored) <= now)
           /\ Prompt(x)'
  PROVE SessionInv'
<1>1. /\ earned.user <= now /\ earned.job <= now
      /\ stored.user <= earned.user /\ stored.job <= earned.job
      /\ earned.user \in Nat /\ earned.job \in Nat
  BY DEF SessionInv, InOrder, SessionTypeOK, ActivityTimes, Times
<1>2. scene.slow = {} => stored = earned BY DEF SessionInv, PromptInv
<1>. QED BY <1>1, <1>2, ServerStep

(* A cached deadline in the future is no later than the latest recorded.   *)
LEMMA ArriveStep ==
  ASSUME SessionInv, UNCHANGED <<scene, now>>, NEW x \in Calls, NEW i \in Instances, Arrive(x, i)
  PROVE SessionInv'
<1> USE CallTypes DEF SessionInv
<1>1. UNCHANGED <<stored, earned, cache, refused, browserSide>> /\ calls[x].pc = "sent"
  BY DEF Arrive, serverSide
<1>2. PICK c \in SessionCall :
        /\ calls' = [calls EXCEPT ![x] = c]
        /\ c.pc \in {"none", "read", "passed"} /\ (c.pc = "none" => x[2] = "api")
        /\ c.pc = "passed" => Trusted(i) /\ x[2] # "api"
        /\ c.at \in {0, now} /\ c.row = NoTimes /\ (c.pc = "read" => c.at = now)
  <2>1. now \in Times BY DEF SessionTypeOK
  <2>2. CASE Trusted(i) /\ x[2] = "api" BY <2>2 DEF Arrive, Passes
  <2>3. CASE Trusted(i) /\ x[2] # "api"
    <3>1. LET c == [NoCall EXCEPT !.pc = "passed", !.inst = i]
          IN  c \in SessionCall /\ c.pc = "passed" /\ c.at = 0 /\ c.row = NoTimes
      BY DEF SessionCall
    <3>. QED BY <2>3, <3>1 DEF Arrive, Passes
  <2>4. CASE ~Trusted(i)
    <3>1. LET c == [NoCall EXCEPT !.pc = "read", !.inst = i, !.at = now]
          IN  c \in SessionCall /\ c.pc = "read" /\ c.at = now /\ c.row = NoTimes
      BY <2>1 DEF SessionCall
    <3>. QED BY <2>4, <3>1 DEF Arrive, Reads
  <2>. QED BY <2>2, <2>3, <2>4
<1>3. SessionTypeOK' BY <1>1, <1>2 DEF SessionTypeOK, browserSide
<1>4. calls'[x] = c /\ \A y \in Calls : y # x => calls'[y] = calls[y]
  BY <1>2 DEF SessionTypeOK
<1>5. /\ now \in Nat /\ stored \in ActivityTimes /\ cache[i] \in ActivityTimes
      /\ earned.user \in Nat /\ earned.job \in Nat
  BY DEF SessionTypeOK, Times, ActivityTimes
<1>6. ASSUME scene.slow = {}, c.pc = "passed" PROVE now < SessionDeadline(stored)
  <2>1. SessionDeadline(cache[i]) <= SessionDeadline(stored)
    BY <1>5, <1>6, DeadlineMonotone DEF InOrder, PromptInv
  <2>. QED BY <1>2, <1>5, <1>6, <2>1, DeadlineType DEF Trusted
<1>7. Served(x)' BY <1>2, <1>4 DEF Served
<1>8. scene.slow = {} => Prompt(x)' BY <1>1, <1>2, <1>4, <1>6 DEF Prompt
<1>9. c.at <= now /\ c.row.user <= earned.user /\ c.row.job <= earned.job BY <1>2, <1>5
<1>10. \A j \in Instances : cache'[j].user <= earned.user /\ cache'[j].job <= earned.job
  BY <1>1 DEF InOrder
<1>. QED BY <1>1, <1>2, <1>3, <1>4, <1>7, <1>8, <1>9, <1>10, ReaderStep

(* A session with no row yet is told so, one with a row what is in it.     *)
LEMMA ReadStep ==
  ASSUME SessionInv, UNCHANGED <<scene, now>>, NEW x \in Calls, ReadTimes(x)
  PROVE SessionInv'
<1> USE CallTypes DEF SessionInv
<1>1. UNCHANGED <<stored, earned, cache, refused, browserSide>> /\ calls[x].pc = "read"
  BY DEF ReadTimes, serverSide
<1>2. stored \in ActivityTimes /\ now \in Nat /\ calls[x] \in SessionCall
  BY DEF SessionTypeOK, Times
<1>3. PICK c \in SessionCall :
        /\ calls' = [calls EXCEPT ![x] = c]
        /\ c.at = calls[x].at
        /\ \/ c.pc = "first" /\ c.row = calls[x].row /\ stored.user = 0
           \/ c.pc = "told" /\ c.row = stored /\ stored.user # 0
  <2>1. CASE stored.user = 0
    <3>1. [calls[x] EXCEPT !.pc = "first"] \in SessionCall BY <1>2 DEF SessionCall
    <3>2. calls' = [calls EXCEPT ![x] = [calls[x] EXCEPT !.pc = "first"]]
      BY <2>1 DEF ReadTimes, SessionTypeOK
    <3>. QED BY <1>2, <2>1, <3>1, <3>2 DEF SessionCall
  <2>2. CASE stored.user # 0
    <3>1. [calls[x] EXCEPT !.pc = "told", !.row = stored] \in SessionCall
      BY <1>2 DEF SessionCall
    <3>2. calls' = [calls EXCEPT ![x] = [calls[x] EXCEPT !.pc = "told", !.row = stored]]
      BY <2>2 DEF ReadTimes, Told, SessionTypeOK
    <3>. QED BY <1>2, <2>2, <3>1, <3>2 DEF SessionCall
  <2>. QED BY <2>1, <2>2
<1>4. SessionTypeOK' BY <1>1, <1>3 DEF SessionTypeOK, browserSide
<1>5. calls'[x] = c /\ \A y \in Calls : y # x => calls'[y] = calls[y]
  BY <1>3 DEF SessionTypeOK
<1>6. /\ c.at <= now /\ c.row.user <= earned.user /\ c.row.job <= earned.job
      /\ \A j \in Instances : cache'[j].user <= earned.user /\ cache'[j].job <= earned.job
  BY <1>1, <1>3 DEF InOrder
<1>7. Served(x)' BY <1>3, <1>5 DEF Served
<1>8. scene.slow = {} => Prompt(x)'
  <2>1. stored.user # 0 => 0 < stored.user BY <1>2 DEF ActivityTimes, Times
  <2>. QED BY <1>1, <1>3, <1>5, <2>1 DEF PromptInv, Prompt
<1>. QED BY <1>1, <1>3, <1>4, <1>5, <1>6, <1>7, <1>8, ReaderStep

(* Two first requests write one after the other: in one tick, the second   *)
(* moves nothing, whatever the first was told.                             *)
LEMMA FirstStep ==
  ASSUME SessionInv, UNCHANGED <<scene, now>>, NEW x \in Calls, FirstWrite(x)
  PROVE SessionInv'
<1> USE CallTypes DEF SessionInv
<1>1. calls[x].pc = "first" /\ UNCHANGED <<cache, refused, browserSide>>
  BY DEF FirstWrite, Upsert
<1>2. stored \in ActivityTimes /\ earned \in ActivityTimes /\ now \in Times /\ 0 < now
      /\ calls[x] \in SessionCall /\ calls[x].at \in Times
  BY SessionAssumption DEF SessionTypeOK, InOrder, Times, SessionCall
<1>3. stored' = [stored EXCEPT !.user = calls[x].at]
      /\ earned' = [user |-> Later(earned.user, stored'.user), job |-> Later(earned.job, stored'.job)]
  BY DEF FirstWrite, Upsert
<1>4. stored' \in ActivityTimes /\ stored'.user = calls[x].at /\ stored'.job = stored.job
  BY <1>2, <1>3 DEF ActivityTimes
<1>5. earned' \in ActivityTimes BY <1>2, <1>3, <1>4 DEF ActivityTimes, Later
<1>6. /\ earned.user <= earned'.user /\ earned'.user <= now
      /\ earned.job <= earned'.job /\ earned'.job <= now
      /\ stored'.user <= earned'.user /\ stored'.job <= earned'.job
  BY <1>2, <1>3, <1>4 DEF ActivityTimes, Times, Later, InOrder
<1>7. calls' = [calls EXCEPT ![x] = [calls[x] EXCEPT !.pc = "told", !.row = stored']]
  BY DEF FirstWrite, Told, SessionTypeOK
<1>8. [calls[x] EXCEPT !.pc = "told", !.row = stored'] \in SessionCall
  BY <1>2, <1>4 DEF SessionCall
<1>9. /\ \A y \in Calls : y # x => calls'[y] = calls[y]
      /\ calls'[x].pc = "told" /\ calls'[x].row = stored' /\ calls'[x].at = calls[x].at
  <2>1. calls'[x] = [calls[x] EXCEPT !.pc = "told", !.row = stored'] BY <1>7 DEF SessionTypeOK
  <2>. QED BY <1>2, <1>7, <2>1 DEF SessionTypeOK, SessionCall
<1>10. SessionTypeOK' BY <1>1, <1>4, <1>5, <1>7, <1>8 DEF SessionTypeOK, browserSide
<1>11. \A j \in Instances : cache'[j].user <= earned'.user /\ cache'[j].job <= earned'.job
  <2>1. \A j \in Instances : cache[j] \in ActivityTimes BY DEF SessionTypeOK
  <2>. QED BY <1>1, <1>2, <1>5, <1>6, <2>1 DEF InOrder, ActivityTimes, Times
<1>12. Served(x)' BY <1>9 DEF Served
<1>13. ASSUME scene.slow = {}
       PROVE /\ stored' = earned' /\ stored'.user \in {stored.user, now}
             /\ ~(stored.user > 0 /\ SessionDeadline(stored) <= now)
             /\ Prompt(x)'
  <2>1. calls[x].at = now /\ stored.user \in {0, now} /\ stored = earned
    BY <1>1, <1>13 DEF PromptInv, Prompt
  <2>2. stored' = earned'
    BY <1>2, <1>3, <1>4, <2>1 DEF Later, ActivityTimes, Times
  <2>3. ~(stored.user > 0 /\ SessionDeadline(stored) <= now)
    BY <1>2, <2>1, DeadlineType, SessionAssumption DEF Times
  <2>4. Prompt(x)' BY <1>2, <1>4, <1>9, <2>1 DEF Prompt
  <2>. QED BY <1>4, <2>1, <2>2, <2>3, <2>4
<1>14. calls'[x].at <= now /\ calls'[x].row.user <= earned'.user /\ calls'[x].row.job <= earned'.job
  BY <1>6, <1>9 DEF InOrder
<1>. QED BY <1>1, <1>6, <1>9, <1>10, <1>11, <1>12, <1>13, <1>14, ServerStep

(* What a request is told by the deadline of the row it read or wrote.     *)
LEMMA DecideStep ==
  ASSUME SessionInv, UNCHANGED <<scene, now>>, NEW x \in Calls, Decide(x)
  PROVE SessionInv'
<1> USE CallTypes DEF SessionInv
<1> DEFINE i == calls[x].inst
<1>1. UNCHANGED <<stored, earned, browserSide>> /\ calls[x].pc = "told" BY DEF Decide
<1>2. /\ stored \in ActivityTimes /\ now \in Nat /\ calls[x] \in SessionCall
      /\ i \in Instances /\ calls[x].row \in ActivityTimes /\ calls[x].at \in Nat
      /\ earned.user \in Nat /\ earned.job \in Nat
  BY DEF SessionTypeOK, Times, SessionCall, ActivityTimes
<1>3. PICK c \in SessionCall, times \in {NoTimes, calls[x].row} :
        /\ calls' = [calls EXCEPT ![x] = c] /\ cache' = [cache EXCEPT ![i] = times]
        /\ c.pc \in {"none", "passed", "idle"} /\ (c.pc = "none" => x[2] = "api")
        /\ c.at = 0 /\ c.row = NoTimes
        /\ c.pc = "passed" => calls[x].at < SessionDeadline(calls[x].row) /\ x[2] # "api"
        /\ c.pc = "idle" => refused'
        /\ refused' \in BOOLEAN /\ (refused => refused')
        /\ (refused' /\ ~refused) => SessionDeadline(calls[x].row) <= calls[x].at
  <2> USE DEF SessionTypeOK
  <2>1. CASE SessionDeadline(calls[x].row) <= calls[x].at
    <3>1. [NoCall EXCEPT !.pc = "idle"] \in SessionCall BY DEF SessionCall
    <3>. QED BY <2>1, <3>1 DEF Decide, SessionCall
  <2>2. CASE ~(SessionDeadline(calls[x].row) <= calls[x].at)
    <3>1. calls[x].at < SessionDeadline(calls[x].row) BY <1>2, <2>2, DeadlineType
    <3>2. [NoCall EXCEPT !.pc = "passed", !.inst = i] \in SessionCall BY <1>2 DEF SessionCall
    <3>. QED BY <2>2, <3>1, <3>2 DEF Decide, Passes, SessionCall
  <2>. QED BY <2>1, <2>2
<1>4. SessionTypeOK' BY <1>1, <1>2, <1>3 DEF SessionTypeOK, browserSide
<1>5. calls'[x] = c /\ \A y \in Calls : y # x => calls'[y] = calls[y]
  BY <1>3 DEF SessionTypeOK
<1>6. \A j \in Instances : cache'[j].user <= earned.user /\ cache'[j].job <= earned.job
  BY <1>2, <1>3 DEF InOrder, SessionTypeOK
<1>7. Served(x)' BY <1>3, <1>5 DEF Served
<1>8. ASSUME scene.slow = {}
      PROVE /\ refused' => refused \/ (stored.user > 0 /\ SessionDeadline(stored) <= now)
            /\ Prompt(x)'
  <2>1. /\ calls[x].at = now /\ stored = earned /\ 0 < calls[x].row.user
        /\ SessionDeadline(calls[x].row) <= now => SessionDeadline(stored) <= now
    BY <1>1, <1>8 DEF PromptInv, Prompt
  <2>2. calls[x].row.user <= stored.user /\ calls[x].row.job <= stored.job
    BY <2>1 DEF InOrder
  <2>3. SessionDeadline(calls[x].row) <= SessionDeadline(stored)
    BY <1>2, <2>2, DeadlineMonotone
  <2>4. SessionDeadline(calls[x].row) \in Nat /\ SessionDeadline(stored) \in Nat
    BY <1>2, DeadlineType
  <2>5. stored.user > 0 BY <1>2, <2>1, <2>2 DEF ActivityTimes, Times
  <2>6. c.pc = "passed" => now < SessionDeadline(stored) BY <1>2, <1>3, <2>1, <2>3, <2>4
  <2>7. Prompt(x)' BY <1>1, <1>3, <1>5, <2>6 DEF Prompt
  <2>. QED BY <1>3, <2>1, <2>5, <2>7
<1>9. c.at <= now /\ c.row.user <= earned.user /\ c.row.job <= earned.job BY <1>2, <1>3
<1>. QED BY <1>1, <1>3, <1>4, <1>5, <1>6, <1>7, <1>8, <1>9, ReaderStep

(* A heartbeat is stamped no earlier than what it reports.                 *)
LEMMA StampStep ==
  ASSUME SessionInv, UNCHANGED <<scene, now>>, NEW x \in Calls, Stamp(x)
  PROVE SessionInv'
<1> USE CallTypes DEF SessionInv
<1>1. UNCHANGED <<stored, earned, cache, refused, browserSide>> /\ calls[x].pc = "passed"
  BY DEF Stamp, serverSide
<1>2. now \in Times /\ calls[x] \in SessionCall BY DEF SessionTypeOK
<1>3. calls' = [calls EXCEPT ![x] = [calls[x] EXCEPT !.pc = "write", !.at = now]]
  BY DEF Stamp, SessionTypeOK
<1>4. [calls[x] EXCEPT !.pc = "write", !.at = now] \in SessionCall BY <1>2 DEF SessionCall
<1>5. /\ \A y \in Calls : y # x => calls'[y] = calls[y]
      /\ calls'[x].pc = "write" /\ calls'[x].row = calls[x].row /\ calls'[x].at = now
  <2>1. calls'[x] = [calls[x] EXCEPT !.pc = "write", !.at = now] BY <1>3 DEF SessionTypeOK
  <2>. QED BY <1>2, <1>3, <2>1 DEF SessionTypeOK, SessionCall
<1>6. SessionTypeOK' BY <1>1, <1>3, <1>4 DEF SessionTypeOK, browserSide
<1>7. Served(x)'
  <2>1. x[2] # "api" /\ x[1] \in Tabs /\ x[2] \in {"user", "job", "api"} /\ x = <<x[1], x[2]>>
    BY <1>1 DEF ServedInv, Served, Calls
  <2>2. x[2] = "job" => tab[x[1]].jobAt <= now BY <2>1 DEF InOrder
  <2>3. x[2] = "user" => tab[x[1]].covering <= now
    <3>1. SUFFICES ASSUME x[2] = "user" PROVE tab[x[1]].covering <= now OBVIOUS
    <3>2. Busy(x[1]) BY <1>1, <2>1, <3>1 DEF Busy
    <3>3. tab[x[1]].covering <= shown.user BY <2>1, <3>2 DEF ClaimInv, Claimed
    <3>4. tab[x[1]].covering \in Nat /\ shown.user \in Nat /\ now \in Nat
      BY <2>1 DEF SessionTypeOK, Tab, Times, ActivityTimes
    <3>. QED BY <3>3, <3>4 DEF InOrder
  <2>. QED BY <1>1, <1>5, <2>1, <2>2, <2>3 DEF Served, browserSide
<1>8. scene.slow = {} => Prompt(x)'
  BY <1>1, <1>5 DEF PromptInv, Prompt
<1>9. /\ now <= now /\ calls[x].row.user <= earned.user /\ calls[x].row.job <= earned.job
      /\ \A j \in Instances : cache'[j].user <= earned.user /\ cache'[j].job <= earned.job
  BY <1>1, <1>2 DEF InOrder, Times
<1>. QED BY <1>1, <1>5, <1>6, <1>7, <1>8, <1>9, ReaderStep

(* A heartbeat that took no longer than a tick is recorded in the tick it  *)
(* passed in, before the deadline; another may move the row back.          *)
LEMMA RecordStep ==
  ASSUME SessionInv, UNCHANGED <<scene, now>>, NEW x \in Calls, RecordActivity(x)
  PROVE SessionInv'
<1> USE CallTypes DEF SessionInv
<1> DEFINE c == [calls[x] EXCEPT !.pc = "kept", !.at = 0, !.row = stored']
<1>1. UNCHANGED <<cache, refused, browserSide>> /\ calls[x].pc = "write"
  BY DEF RecordActivity, Upsert
<1>2. stored \in ActivityTimes /\ earned \in ActivityTimes /\ now \in Times
      /\ calls[x] \in SessionCall /\ calls[x].at \in Times
  BY DEF SessionTypeOK, SessionCall
<1>3. earned' = [user |-> Later(earned.user, stored'.user), job |-> Later(earned.job, stored'.job)]
  BY DEF RecordActivity, Upsert
<1>4. x[2] \in {"user", "job"} BY <1>1 DEF ServedInv, Served, Calls
<1>5. /\ stored' \in ActivityTimes
      /\ x[2] = "user" => stored'.user = calls[x].at /\ stored'.job = stored.job
      /\ x[2] = "job" => stored'.user = stored.user /\ stored'.job = calls[x].at
  BY <1>2, <1>4 DEF RecordActivity, Upsert, ActivityTimes
<1>6. earned' \in ActivityTimes /\ calls[x].at <= now
  BY <1>2, <1>3, <1>5 DEF ActivityTimes, Later, InOrder
<1>7. /\ earned.user <= earned'.user /\ earned'.user <= now
      /\ earned.job <= earned'.job /\ earned'.job <= now
      /\ stored'.user <= earned'.user /\ stored'.job <= earned'.job
  BY <1>2, <1>3, <1>4, <1>5, <1>6 DEF ActivityTimes, Times, Later, InOrder
<1>8. calls' = [calls EXCEPT ![x] = c] BY DEF RecordActivity, SessionTypeOK
<1>9. c \in SessionCall BY <1>2, <1>5 DEF SessionCall
<1>10. /\ \A y \in Calls : y # x => calls'[y] = calls[y]
       /\ calls'[x].pc = "kept" /\ calls'[x].row = stored' /\ calls'[x].at = 0
  <2>1. calls'[x] = c BY <1>8 DEF SessionTypeOK
  <2>. QED BY <1>2, <1>8, <2>1 DEF SessionTypeOK, SessionCall
<1>11. SessionTypeOK' BY <1>1, <1>5, <1>6, <1>8, <1>9 DEF SessionTypeOK, browserSide
<1>12. \A j \in Instances : cache'[j].user <= earned'.user /\ cache'[j].job <= earned'.job
  <2>1. \A j \in Instances : cache[j] \in ActivityTimes BY DEF SessionTypeOK
  <2>. QED BY <1>1, <1>2, <1>6, <1>7, <2>1 DEF InOrder, ActivityTimes, Times
<1>13. Served(x)'
  <2>1. x[1] \in Tabs BY DEF Calls
  <2>2. tab[x[1]].jobAt \in Nat /\ tab[x[1]].covering \in Nat
    BY <2>1 DEF SessionTypeOK, Tab, Times
  <2>3. Served(x) BY DEF ServedInv
  <2>4. x[2] = "job" => tab[x[1]].jobAt <= earned'.job
    BY <1>1, <1>2, <1>5, <1>6, <1>7, <2>2, <2>3 DEF Served, Times, ActivityTimes
  <2>5. x[2] = "user" => tab[x[1]].covering <= earned'.user
    BY <1>1, <1>2, <1>5, <1>6, <1>7, <2>2, <2>3 DEF Served, Times, ActivityTimes
  <2>. QED BY <1>1, <1>4, <1>10, <2>4, <2>5 DEF Served, browserSide
<1>14. ASSUME scene.slow = {}
       PROVE /\ stored' = earned' /\ stored'.user \in {stored.user, now}
             /\ ~(stored.user > 0 /\ SessionDeadline(stored) <= now)
             /\ Prompt(x)'
  <2>1. calls[x].at = now /\ now < SessionDeadline(stored) /\ stored = earned
    BY <1>1, <1>14 DEF PromptInv, Prompt
  <2>2. stored' = earned'
    <3>1. stored'.user = Later(earned.user, stored'.user) /\ stored'.job = Later(earned.job, stored'.job)
      BY <1>2, <1>4, <1>5, <2>1 DEF Later, ActivityTimes, Times, InOrder
    <3>2. stored' = [user |-> stored'.user, job |-> stored'.job] BY <1>5 DEF ActivityTimes
    <3>. QED BY <1>3, <3>1, <3>2
  <2>3. ~(SessionDeadline(stored) <= now) BY <1>2, <2>1, DeadlineType DEF Times
  <2>4. Prompt(x)' BY <1>4, <1>5, <1>10, <2>1 DEF Prompt
  <2>. QED BY <1>4, <1>5, <2>1, <2>2, <2>3, <2>4
<1>15. calls'[x].at <= now BY <1>2, <1>10 DEF Times
<1>16. calls'[x].row.user <= earned'.user /\ calls'[x].row.job <= earned'.job BY <1>7, <1>10
<1>. QED BY <1>1, <1>7, <1>10, <1>11, <1>12, <1>13, <1>14, <1>15, <1>16, ServerStep

(* The row that came back may be older than what is cached, or the table's.*)
LEMMA RememberStep ==
  ASSUME SessionInv, UNCHANGED <<scene, now>>, NEW x \in Calls, Remember(x)
  PROVE SessionInv'
<1> USE CallTypes DEF SessionInv
<1>1. UNCHANGED <<stored, earned, refused, browserSide>> /\ calls[x].pc = "kept" BY DEF Remember
<1>2. /\ now \in Nat /\ calls[x].inst \in Instances /\ calls[x].row \in ActivityTimes
      /\ earned.user \in Nat /\ earned.job \in Nat
  BY DEF SessionTypeOK, SessionCall, Times, ActivityTimes
<1>3. \A y \in Calls : calls'[y] = IF y = x THEN [NoCall EXCEPT !.pc = "ok"] ELSE calls[y]
  BY DEF Remember, SessionTypeOK
<1>4. /\ [NoCall EXCEPT !.pc = "ok"] \in SessionCall /\ calls'[x].pc = "ok"
      /\ calls'[x].at = 0 /\ calls'[x].row = NoTimes
  BY <1>3 DEF SessionCall
<1>5. SessionTypeOK' BY <1>1, <1>2, <1>4 DEF SessionTypeOK, Remember, browserSide
<1>6. \A j \in Instances : cache'[j].user <= earned.user /\ cache'[j].job <= earned.job
  BY <1>2 DEF InOrder, SessionTypeOK, Remember
<1>7. Served(x)' BY <1>1, <1>4 DEF ServedInv, Served, browserSide
<1>8. scene.slow = {} => Prompt(x)' BY <1>1, <1>4 DEF PromptInv, Prompt
<1>9. calls'[x].at <= now /\ calls'[x].row.user <= earned.user /\ calls'[x].row.job <= earned.job
  BY <1>2, <1>4
<1>. QED BY <1>1, <1>3, <1>4, <1>5, <1>6, <1>7, <1>8, <1>9, ReaderStep

(* A heartbeat, or its answer, is lost only where one may be.              *)
LEMMA LostStep ==
  ASSUME SessionInv, UNCHANGED <<scene, now>>, NEW x \in Calls, CallLost(x)
  PROVE SessionInv'
<1> USE CallTypes DEF SessionInv
<1>1. UNCHANGED <<stored, earned, cache, refused, browserSide>>
      /\ calls[x].pc # "none" /\ "lost" \in scene.hitches /\ x[2] # "api"
  BY DEF CallLost, serverSide
<1>2. now \in Nat /\ earned.user \in Nat /\ earned.job \in Nat
  BY DEF SessionTypeOK, Times, ActivityTimes
<1>3. \A y \in Calls : calls'[y] = IF y = x THEN [NoCall EXCEPT !.pc = "failed"] ELSE calls[y]
  BY DEF CallLost, SessionTypeOK
<1>4. /\ [NoCall EXCEPT !.pc = "failed"] \in SessionCall /\ calls'[x].pc = "failed"
      /\ calls'[x].at = 0 /\ calls'[x].row = NoTimes
  BY <1>3 DEF SessionCall
<1>5. SessionTypeOK' BY <1>1, <1>4 DEF SessionTypeOK, CallLost, browserSide
<1>6. Served(x)' BY <1>1, <1>4 DEF Served
<1>7. Prompt(x)' BY <1>4 DEF Prompt
<1>8. /\ calls'[x].at <= now /\ calls'[x].row.user <= earned.user /\ calls'[x].row.job <= earned.job
      /\ \A j \in Instances : cache'[j].user <= earned.user /\ cache'[j].job <= earned.job
  BY <1>1, <1>2, <1>4 DEF InOrder
<1>. QED BY <1>1, <1>3, <1>4, <1>5, <1>6, <1>7, <1>8, ReaderStep

-----------------------------------------------------------------------------
(* A tab that signs out only stops looking.                                *)
LEMMA ExpireStep ==
  ASSUME SessionInv, UNCHANGED <<scene, now, serverSide, calls, shown, beats>>,
         NEW t \in Tabs, ~tab[t].expired, Expires(t)
  PROVE SessionInv'
<1> USE DEF SessionInv, serverSide
<1>1. \A u \in Tabs : tab'[u] = IF u = t THEN [tab[t] EXCEPT !.expired = TRUE, !.ran = FALSE] ELSE tab[u]
  BY DEF Expires, SessionTypeOK
<1>2. tab' \in [Tabs -> Tab] /\ over' \in BOOLEAN BY DEF Expires, SessionTypeOK, Tab
<1>3. \A u \in Tabs : /\ tab'[u].jobAt = tab[u].jobAt
                      /\ tab'[u].covering = tab[u].covering /\ tab'[u].before = tab[u].before
                      /\ (tab'[u].ran => tab[u].ran) /\ (~tab'[u].expired => ~tab[u].expired)
  BY <1>1 DEF SessionTypeOK, Tab
<1>4. SessionTypeOK' BY <1>2 DEF SessionTypeOK
<1>5. InOrder' BY <1>3 DEF InOrder
<1>6. ServedInv'
  <2>1. \A x \in Calls : x[1] \in Tabs BY DEF Calls
  <2>. QED BY <1>3, <2>1 DEF ServedInv, Served
<1>7. ClaimInv' /\ PromptInv' BY <1>3 DEF ClaimInv, Claimed, Busy, PromptInv, Prompt
<1>8. CalmInv'
  <2>1. Watched' => Watched BY <1>3 DEF Watched
  <2>2. \A u \in Tabs : Looked(u) => Looked(u)' BY <1>3 DEF Looked
  <2>. QED BY <2>1, <2>2 DEF CalmInv, Busy
<1>. QED BY <1>4, <1>5, <1>6, <1>7, <1>8

(* Input in one tab moves the countdown of all.  What was looked at before *)
(* it is still fresh: it counts only while the warning is not up.          *)
LEMMA ActStep ==
  ASSUME SessionInv, UNCHANGED <<scene, now>>, NEW t \in Tabs, UserActs(t)
  PROVE SessionInv'
<1> USE DEF SessionInv
<1>1. UNCHANGED <<stored, earned, cache, refused, calls, beats, over, tab>> /\ ~tab[t].expired
      /\ SessionDeadline(shown) > now + WarningTime
  BY DEF UserActs, serverSide
<1>2. /\ stored \in ActivityTimes /\ shown \in ActivityTimes /\ now \in Times
      /\ beats.covers \in Times /\ beats.sent \in Times
  BY DEF SessionTypeOK
<1>3. shown' \in ActivityTimes /\ shown'.user = now /\ shown'.job = shown.job
  BY <1>2 DEF UserActs, ActivityTimes
<1>4. SessionTypeOK' BY <1>1, <1>3 DEF SessionTypeOK
<1>5. InOrder' BY <1>1, <1>2, <1>3 DEF InOrder, Times, ActivityTimes
<1>6. ServedInv' /\ PromptInv' BY <1>1 DEF ServedInv, Served, PromptInv, Prompt, Busy
<1>7. ClaimInv'
  <2>1. \A u \in Tabs : Claimed(u)'
    <3>. SUFFICES ASSUME NEW u \in Tabs, Busy(u) PROVE Claimed(u)' BY <1>1 DEF Claimed, Busy
    <3>1. tab[u].covering \in Times /\ shown.user \in Times BY <1>2 DEF SessionTypeOK, Tab, ActivityTimes
    <3>. QED BY <1>1, <1>2, <1>3, <3>1 DEF ClaimInv, Claimed, InOrder, Times
  <2>2. shown'.user <= beats.covers => shown.user = now
    BY <1>2, <1>3 DEF InOrder, Times, ActivityTimes
  <2>. QED BY <1>1, <1>3, <2>1, <2>2 DEF ClaimInv, Busy
<1>8. now + 1 < SessionDeadline(shown) /\ SessionDeadline(shown) \in Nat /\ now \in Nat
  BY <1>1, <1>2, DeadlineType, SessionAssumption DEF Times
<1>9. CalmInv'
  <2>. SUFFICES ASSUME scene.hitches = {}, scene.slow = {}, ~refused
       PROVE /\ beats.sent <= stored.user \/ \E u \in Tabs : Busy(u)
             /\ \A u \in Tabs : Looked(u)'
             /\ shown'.user <= stored.user \/ now < SessionDeadline(stored)
    BY <1>1 DEF CalmInv, Busy
  <2>1. /\ beats.sent <= stored.user \/ \E u \in Tabs : Busy(u)
        /\ \A u \in Tabs : Looked(u)
        /\ shown.user <= stored.user \/ now < SessionDeadline(stored)
    BY <1>1 DEF CalmInv, Watched
  <2>2. SessionDeadline(stored) \in Nat /\ SessionDeadline(shown) \in Nat
    BY <1>2, DeadlineType
  <2>3. shown.user <= stored.user => now + 1 < SessionDeadline(stored)
    <3>1. SUFFICES ASSUME shown.user <= stored.user PROVE now + 1 < SessionDeadline(stored)
      OBVIOUS
    <3>2. SessionDeadline(shown) <= SessionDeadline(stored)
      BY <1>2, <3>1, DeadlineMonotone DEF InOrder, PromptInv
    <3>. QED BY <1>8, <2>2, <3>2
  <2>4. now < SessionDeadline(stored) BY <1>2, <2>1, <2>2, <2>3 DEF Times
  <2>5. \A u \in Tabs : Looked(u)'
    <3>. SUFFICES ASSUME NEW u \in Tabs, Looked(u) PROVE Looked(u)' BY <2>1
    <3>1. ASSUME shown.user <= beats.covers
          PROVE now < beats.sent + UserBeat \/ now + 1 < SessionDeadline(stored)
      <4>1. CASE shown.user <= stored.user BY <2>3, <4>1
      <4>2. CASE stored.user < shown.user
        <5>1. PICK v \in Tabs : Busy(v) BY <3>1, <4>2 DEF ClaimInv, PromptInv
        <5>2. beats.sent = now BY <5>1 DEF PromptInv
        <5>. QED BY <1>2, <5>2, SessionAssumption DEF Times
      <4>. QED BY <1>2, <4>1, <4>2 DEF ActivityTimes, Times
    <3>. QED BY <1>1, <3>1 DEF Looked
  <2>. QED BY <2>1, <2>4, <2>5
<1>. QED BY <1>4, <1>5, <1>6, <1>7, <1>9

(* A heartbeat of input claims what it covers before it leaves.            *)
LEMMA ClaimStep ==
  ASSUME SessionInv, SessionTypeOK', UNCHANGED <<scene, now, stored, cache, refused>>,
         NEW t \in Tabs, ~tab[t].expired, Busy(t)', beats'.sent = now, now \in Nat,
         beats'.covers = shown'.user, tab'[t].covering = shown'.user, tab'[t].before = beats.covers,
         shown.user <= shown'.user, beats.covers < shown'.user,
         shown'.user <= now,
         (scene.slow = {} /\ (shown.user <= stored.user \/ now < SessionDeadline(stored)))
           => (shown'.user <= stored.user \/ now < SessionDeadline(stored)),
         \A u \in Tabs : (u # t /\ Busy(u)') => (Busy(u) /\ UNCHANGED <<tab[u].covering, tab[u].before>>),
         \A u \in Tabs : tab'[u].ran /\ ~tab'[u].expired => u = t \/ (tab[u].ran /\ ~tab[u].expired)
  PROVE ClaimInv' /\ CalmInv'
<1> USE DEF SessionInv
<1>1. /\ shown'.user \in Nat /\ shown.user \in Nat /\ beats.covers \in Nat
      /\ \A u \in Tabs : tab[u].covering \in Nat
  BY DEF SessionTypeOK, Times, Tab, ActivityTimes
<1>2. \A u \in Tabs : Claimed(u)'
  <2>. SUFFICES ASSUME NEW u \in Tabs, Busy(u)' PROVE Claimed(u)' BY DEF Claimed
  <2>1. CASE u = t BY <1>1, <2>1 DEF Claimed
  <2>2. CASE u # t BY <1>1, <2>2 DEF Claimed, ClaimInv
  <2>. QED BY <2>1, <2>2
<1>3. ClaimInv' BY <1>2 DEF ClaimInv
<1>4. CalmInv'
  <2>. SUFFICES ASSUME scene.hitches = {}, scene.slow = {}, ~refused
       PROVE /\ \E u \in Tabs : Busy(u)'
             /\ \A u \in Tabs : Looked(u)'
             /\ shown'.user <= stored.user \/ now < SessionDeadline(stored)
    BY DEF CalmInv
  <2>1. \A u \in Tabs : Looked(u)' BY <1>1, SessionAssumption DEF Looked
  <2>2. shown.user <= stored.user \/ now < SessionDeadline(stored) BY DEF CalmInv, Watched
  <2>. QED BY <2>1, <2>2
<1>. QED BY <1>3, <1>4

(* "Stay signed in", in the warning: only the first counts in a tick.      *)
LEMMA StayStep ==
  ASSUME SessionInv, UNCHANGED <<scene, now>>, NEW t \in Tabs, StaySignedIn(t)
  PROVE SessionInv'
<1> USE CallTypes DEF SessionInv
<1>1. UNCHANGED <<stored, earned, cache, refused, over>> /\ ~tab[t].expired
      /\ SessionDeadline(shown) > now /\ SessionDeadline(shown) <= now + WarningTime
  BY SessionAssumption DEF StaySignedIn, serverSide, SessionTypeOK, Times
<1>2. /\ stored \in ActivityTimes /\ shown \in ActivityTimes /\ now \in Times
      /\ beats.covers \in Times /\ beats.sent \in Times
  BY DEF SessionTypeOK
<1>3. shown' \in ActivityTimes /\ shown'.user = now /\ shown'.job = shown.job
  BY <1>2 DEF StaySignedIn, ActivityTimes
<1>4. beats.covers < now
  <2>1. shown.user + IdleTimeout <= SessionDeadline(shown) /\ SessionDeadline(shown) \in Nat
    BY <1>2, DeadlineType
  <2>2. shown.user < now BY <1>1, <1>2, <2>1, SessionAssumption DEF Times, ActivityTimes
  <2>. QED BY <1>2, <2>2 DEF InOrder, Times, ActivityTimes
<1>5. ASSUME scene.slow = {}, shown.user <= stored.user \/ now < SessionDeadline(stored)
      PROVE now < SessionDeadline(stored)
  <2>1. CASE shown.user <= stored.user
    <3>1. SessionDeadline(shown) <= SessionDeadline(stored)
      BY <1>2, <1>5, <2>1, DeadlineMonotone DEF InOrder, PromptInv
    <3>. QED BY <1>1, <1>2, <3>1, DeadlineType DEF Times
  <2>. QED BY <1>5, <2>1
<1>6. CASE SendsUser(t)
  <2>1. /\ calls' = [calls EXCEPT ![<<t, "user">>] = Sent]
        /\ beats' = [beats EXCEPT !.sent = now, !.covers = now]
        /\ tab' = [tab EXCEPT ![t].covering = now, ![t].before = beats.covers]
    BY <1>6 DEF StaySignedIn
  <2>2. \A y \in Calls : calls'[y] = IF y = <<t, "user">> THEN Sent ELSE calls[y]
    BY <2>1 DEF SessionTypeOK
  <2>3. \A u \in Tabs : tab'[u] = IF u = t THEN [tab[t] EXCEPT !.covering = now, !.before = beats.covers]
                                  ELSE tab[u]
    BY <2>1 DEF SessionTypeOK
  <2>4. SessionTypeOK' BY <1>1, <1>2, <1>3, <2>1 DEF SessionTypeOK, Tab
  <2>5. \A u \in Tabs : /\ tab'[u].jobAt = tab[u].jobAt /\ tab'[u].ran = tab[u].ran
                        /\ tab'[u].expired = tab[u].expired
    <3>. SUFFICES ASSUME NEW u \in Tabs
         PROVE /\ tab'[u].jobAt = tab[u].jobAt /\ tab'[u].ran = tab[u].ran
               /\ tab'[u].expired = tab[u].expired
      OBVIOUS
    <3>1. tab[t] \in Tab BY DEF SessionTypeOK
    <3>2. CASE u = t BY <2>3, <3>1, <3>2 DEF Tab
    <3>3. CASE u # t BY <2>3, <3>3
    <3>. QED BY <3>2, <3>3
  <2>6. tab'[t].covering = now /\ tab'[t].before = beats.covers
    <3>1. tab[t] \in Tab BY DEF SessionTypeOK
    <3>. QED BY <2>3, <3>1 DEF Tab
  <2>7. beats'.sent = now /\ beats'.covers = now /\ beats'.jobSent = beats.jobSent
    BY <2>1 DEF SessionTypeOK
  <2>8. InOrder'
    <3>1. Sent.at <= now /\ Sent.row.user <= earned.user /\ Sent.row.job <= earned.job
      BY DEF SessionTypeOK, Times, ActivityTimes
    <3>. QED BY <1>1, <1>2, <1>3, <2>2, <2>5, <2>7, <3>1 DEF InOrder, Times, ActivityTimes
  <2>9. ServedInv' /\ PromptInv'
    <3>1. ServedInv'
      <4>. SUFFICES ASSUME NEW y \in Calls, y # <<t, "user">> PROVE Served(y)'
        BY <2>2, CallTypes DEF ServedInv, Served
      <4>1. y \in Tabs \X {"user", "job", "api"} BY DEF Calls
      <4>2. y[1] = t => y[2] # "user" BY <4>1
      <4>3. y[2] = "user" => tab'[y[1]].covering = tab[y[1]].covering BY <2>3, <4>1, <4>2
      <4>4. y[2] = "api" \/ y[2] = "job" \/ y[2] = "user" BY <4>1
      <4>. QED BY <1>1, <2>2, <2>5, <4>1, <4>3, <4>4 DEF ServedInv, Served
    <3>2. \A y \in Calls : Prompt(y) => Prompt(y)' BY <1>1, <2>2, CallTypes DEF Prompt
    <3>3. beats'.sent = now BY <2>7
    <3>. QED BY <1>1, <3>1, <3>2, <3>3 DEF PromptInv
  <2>10. Busy(t)' BY <2>2 DEF Busy
  <2>11. \A u \in Tabs : u # t => (Busy(u)' <=> Busy(u)) /\ tab'[u] = tab[u]
    BY <2>2, <2>3 DEF Busy
  <2>12. shown.user <= now /\ now \in Nat BY <1>2 DEF InOrder, Times
  <2>13. ClaimInv' /\ CalmInv'
    BY <1>1, <1>3, <1>4, <1>5, <2>4, <2>5, <2>6, <2>7, <2>10, <2>11, <2>12, ClaimStep
  <2>. QED BY <2>4, <2>8, <2>9, <2>13
<1>7. CASE ~SendsUser(t)
  <2>1. UNCHANGED <<calls, beats, tab>> BY <1>7 DEF StaySignedIn
  <2>2. Busy(t) BY <1>7 DEF SendsUser, Busy
  <2>3. scene.slow = {} => beats.sent = now BY <2>2 DEF PromptInv
  <2>4. SessionTypeOK' BY <1>1, <1>3, <2>1 DEF SessionTypeOK
  <2>5. InOrder' BY <1>1, <1>2, <1>3, <2>1 DEF InOrder, Times, ActivityTimes
  <2>6. ServedInv' /\ PromptInv' BY <1>1, <2>1 DEF ServedInv, Served, PromptInv, Prompt, Busy
  <2>7. ClaimInv'
    <3>1. \A u \in Tabs : Claimed(u)'
      <4>. SUFFICES ASSUME NEW u \in Tabs, Busy(u) PROVE Claimed(u)' BY <2>1 DEF Claimed, Busy
      <4>1. tab[u].covering \in Times /\ shown.user \in Times BY <1>2 DEF SessionTypeOK, Tab, ActivityTimes
      <4>. QED BY <1>2, <1>3, <2>1, <4>1 DEF ClaimInv, Claimed, InOrder, Times
    <3>. QED BY <1>2, <1>3, <1>4, <2>1, <3>1 DEF ClaimInv, Times
  <2>8. CalmInv'
    <3>. SUFFICES ASSUME scene.hitches = {}, scene.slow = {}, ~refused
         PROVE /\ \A u \in Tabs : Looked(u)'
               /\ now < SessionDeadline(stored)
      BY <1>1, <2>1, <2>2 DEF CalmInv, Busy
    <3>1. now < SessionDeadline(stored) BY <1>1, <1>5 DEF CalmInv, Watched
    <3>2. \A u \in Tabs : Looked(u)' BY <1>2, <2>1, <2>3, SessionAssumption DEF Looked, Times
    <3>. QED BY <3>1, <3>2
  <2>. QED BY <2>4, <2>5, <2>6, <2>7, <2>8
<1>. QED BY <1>6, <1>7

(* Any other request of the page.                                          *)
LEMMA ApiStep ==
  ASSUME SessionInv, UNCHANGED <<scene, now>>, NEW t \in Tabs, CallApi(t)
  PROVE SessionInv'
<1> USE CallTypes DEF SessionInv
<1>1. UNCHANGED <<stored, earned, cache, refused, shown, beats, over, tab>> /\ ~tab[t].expired
  BY DEF CallApi, serverSide, browserSide
<1>2. \A y \in Calls : calls'[y] = IF y = <<t, "api">> THEN Sent ELSE calls[y]
  BY DEF CallApi, SessionTypeOK
<1>3. SessionTypeOK' BY <1>1 DEF SessionTypeOK, CallApi
<1>4. InOrder'
  <2>1. /\ Sent.at <= now /\ Sent.row.user <= earned.user /\ Sent.row.job <= earned.job
    BY DEF SessionTypeOK, Times, ActivityTimes
  <2>. QED BY <1>1, <1>2, <2>1 DEF InOrder
<1>5. ServedInv' BY <1>1, <1>2 DEF ServedInv, Served
<1>6. \A u \in Tabs : Busy(u)' <=> Busy(u) BY <1>2 DEF Busy
<1>7. ClaimInv' /\ PromptInv' BY <1>1, <1>2, <1>6 DEF ClaimInv, Claimed, PromptInv, Prompt
<1>8. CalmInv'
  <2>1. Watched BY <1>1 DEF Watched
  <2>2. \A u \in Tabs : Looked(u) => Looked(u)' BY <1>1 DEF Looked
  <2>. QED BY <1>1, <1>6, <2>1, <2>2 DEF CalmInv
<1>. QED BY <1>3, <1>4, <1>5, <1>7, <1>8

(* A tick of a tab signs out or sends what is due.                         *)
LEMMA TickStep ==
  ASSUME SessionInv, UNCHANGED <<scene, now>>, NEW t \in Tabs, NEW running \in BOOLEAN,
         TickTab(t, running)
  PROVE SessionInv'
<1> USE CallTypes DEF SessionInv
<1> DEFINE user == shown.user > beats.covers /\ now >= beats.sent + UserBeat /\ SendsUser(t)
           job == running /\ now >= beats.jobSent + JobBeat /\ SendsJob(t)
<1>1. UNCHANGED <<stored, earned, cache, refused>> /\ ~tab[t].expired
  BY DEF TickTab, serverSide
<1>2. CASE now >= SessionDeadline(shown)
  BY <1>1, <1>2, ExpireStep DEF TickTab
<1>3. CASE ~(now >= SessionDeadline(shown))
  <2> HIDE DEF user, job
  <2>1. /\ calls' = [x \in Calls |-> IF (x = <<t, "user">> /\ user) \/ (x = <<t, "job">> /\ job)
                                     THEN Sent ELSE calls[x]]
        /\ beats' = [sent |-> IF user THEN now ELSE beats.sent,
                     covers |-> IF user THEN shown.user ELSE beats.covers,
                     jobSent |-> IF job THEN now ELSE beats.jobSent]
        /\ tab' = [tab EXCEPT ![t].ran = TRUE,
                     ![t].covering = IF user THEN shown.user ELSE tab[t].covering,
                     ![t].before = IF user THEN beats.covers ELSE tab[t].before,
                     ![t].jobAt = IF job THEN now ELSE tab[t].jobAt]
        /\ UNCHANGED <<shown, over>>
    BY <1>3 DEF TickTab, user, job
  <2>2. /\ stored \in ActivityTimes /\ shown.user \in Times /\ now \in Times /\ tab[t] \in Tab
        /\ beats.covers \in Times /\ beats.sent \in Times /\ beats.jobSent \in Times
    BY DEF SessionTypeOK, ActivityTimes
  <2>3. \A x \in Calls : calls'[x] = Sent \/ calls'[x] = calls[x] BY <2>1
  <2>4. \A x \in Calls : calls'[x] \in SessionCall BY <2>3 DEF SessionTypeOK
  <2>5. \A u \in Tabs : tab'[u] = IF u = t
          THEN [tab[t] EXCEPT !.ran = TRUE,
                  !.covering = IF user THEN shown.user ELSE tab[t].covering,
                  !.before = IF user THEN beats.covers ELSE tab[t].before,
                  !.jobAt = IF job THEN now ELSE tab[t].jobAt]
          ELSE tab[u]
    BY <2>1 DEF SessionTypeOK
  <2>6. /\ tab'[t].covering = IF user THEN shown.user ELSE tab[t].covering
        /\ tab'[t].before = IF user THEN beats.covers ELSE tab[t].before
        /\ tab'[t].jobAt = IF job THEN now ELSE tab[t].jobAt
        /\ tab'[t].expired = tab[t].expired /\ tab'[t] \in Tab
    BY <2>2, <2>5 DEF Tab
  <2>7. SessionTypeOK'
    <3>1. calls' \in [Calls -> SessionCall] BY <2>1, <2>4
    <3>2. tab' \in [Tabs -> Tab]
      <4>1. DOMAIN tab' = Tabs /\ tab' = [u \in Tabs |-> tab'[u]] BY <2>1 DEF SessionTypeOK
      <4>2. \A u \in Tabs : tab'[u] \in Tab BY <2>5, <2>6 DEF SessionTypeOK
      <4>. QED BY <4>1, <4>2
    <3>. QED BY <1>1, <2>1, <2>2, <3>1, <3>2 DEF SessionTypeOK
  <2>8. InOrder'
    <3>1. \A u \in Tabs : tab'[u].jobAt <= now
      BY <2>2, <2>5, <2>6 DEF InOrder, Times
    <3>2. beats'.sent \in {beats.sent, now} /\ beats'.jobSent \in {beats.jobSent, now}
          /\ beats'.covers \in {beats.covers, shown.user}
      BY <2>1
    <3>3. beats'.sent <= now /\ beats'.jobSent <= now /\ beats'.covers <= shown.user
      BY <2>2, <3>2 DEF InOrder, Times
    <3>4. Sent.at <= now /\ Sent.row.user <= earned.user /\ Sent.row.job <= earned.job
      BY DEF SessionTypeOK, Times, ActivityTimes
    <3>. QED BY <1>1, <2>1, <2>3, <3>1, <3>3, <3>4 DEF InOrder
  <2>9. ServedInv' /\ PromptInv'
    <3>1. ServedInv'
      <4>. SUFFICES ASSUME NEW y \in Calls, calls'[y] # Sent PROVE Served(y)'
        BY <2>3 DEF ServedInv, Served
      <4>1. y \in Tabs \X {"user", "job", "api"} /\ y = <<y[1], y[2]>> BY DEF Calls
      <4>2. calls'[y] = calls[y] BY <2>3
      <4>3. y[2] = "user" => tab'[y[1]].covering = tab[y[1]].covering
        BY <2>1, <2>5, <2>6, <4>1
      <4>4. y[2] = "job" => tab'[y[1]].jobAt = tab[y[1]].jobAt
        BY <2>1, <2>5, <2>6, <4>1
      <4>. QED BY <1>1, <4>1, <4>2, <4>3, <4>4 DEF ServedInv, Served
    <3>2. \A y \in Calls : Prompt(y) => Prompt(y)' BY <1>1, <2>3 DEF Prompt
    <3>3. (scene.slow = {} /\ \E u \in Tabs : Busy(u)') => beats'.sent = now
      BY <2>1 DEF Busy, PromptInv
    <3>. QED BY <1>1, <3>1, <3>2, <3>3 DEF PromptInv
  <2>10. CASE user
    <3>1. Busy(t)' BY <2>1, <2>10 DEF Busy
    <3>2. \A u \in Tabs : u # t => (Busy(u)' <=> Busy(u)) /\ tab'[u] = tab[u]
      BY <2>1, <2>5 DEF Busy
    <3>3. beats'.sent = now /\ beats'.covers = shown.user /\ shown' = shown
      BY <2>1, <2>10
    <3>4. beats.covers < shown.user BY <2>2, <2>10 DEF user, Times
    <3>5. shown.user <= now /\ now \in Nat /\ shown.user <= shown.user
      BY <2>2 DEF InOrder, Times
    <3>6. ClaimInv' /\ CalmInv'
      BY <1>1, <2>6, <2>7, <2>10, <3>1, <3>2, <3>3, <3>4, <3>5, ClaimStep
    <3>. QED BY <2>7, <2>8, <2>9, <3>6
  <2>11. CASE ~user
    <3>1. \A u \in Tabs : Busy(u)' <=> Busy(u) BY <2>1, <2>11 DEF Busy
    <3>2. beats'.sent = beats.sent /\ beats'.covers = beats.covers /\ shown' = shown
      BY <2>1, <2>11
    <3>3. \A u \in Tabs : tab'[u].covering = tab[u].covering /\ tab'[u].before = tab[u].before
      BY <2>5, <2>6, <2>11
    <3>4. ClaimInv' BY <1>1, <3>1, <3>2, <3>3 DEF ClaimInv, Claimed
    <3>5. scene.slow = {} => Looked(t)'
      <4>. SUFFICES ASSUME scene.slow = {} PROVE Looked(t)' OBVIOUS
      <4>1. CASE ~SendsUser(t)
        <5>1. beats.sent = now BY <4>1 DEF SendsUser, Busy, PromptInv
        <5>. QED BY <2>2, <3>2, <5>1, SessionAssumption DEF Looked, Times
      <4>2. CASE SendsUser(t)
        BY <2>2, <2>11, <3>2, <4>2, SessionAssumption DEF user, Looked, Times
      <4>. QED BY <4>1, <4>2
    <3>6. CalmInv'
      <4>1. Watched BY <1>1 DEF Watched
      <4>2. \A u \in Tabs : u # t /\ Looked(u) => Looked(u)'
        BY <1>1, <2>5, <3>2 DEF Looked
      <4>. QED BY <1>1, <3>1, <3>2, <3>5, <4>1, <4>2 DEF CalmInv
    <3>. QED BY <2>7, <2>8, <2>9, <3>4, <3>6
  <2>. QED BY <2>10, <2>11
<1>. QED BY <1>2, <1>3

(* The answer to a call.  A lost heartbeat gives its claim up; what one    *)
(* that was recorded reports is no later than what was ever in the row.    *)
LEMMA HearStep ==
  ASSUME SessionInv, UNCHANGED <<scene, now>>, NEW t \in Tabs, NEW k \in {"user", "job", "api"},
         HearResult(t, k)
  PROVE SessionInv'
<1> USE CallTypes DEF SessionInv
<1> DEFINE x == <<t, k>>
<1>1. UNCHANGED <<stored, earned, cache, refused>> /\ calls[x].pc \in {"ok", "idle", "failed"} /\ x \in Calls
  BY DEF HearResult, serverSide, Calls
<1>2. /\ stored \in ActivityTimes /\ shown \in ActivityTimes /\ now \in Times /\ tab[t] \in Tab
      /\ beats.covers \in Times /\ beats.sent \in Times /\ beats.jobSent \in Times
  BY DEF SessionTypeOK
<1>3. \A y \in Calls : calls'[y] = IF y = x THEN NoCall ELSE calls[y]
  BY DEF HearResult, SessionTypeOK
<1>4. /\ beats' = IF k = "user" /\ calls[x].pc = "failed" /\ beats.covers = tab[t].covering
                  THEN [beats EXCEPT !.covers = tab[t].before] ELSE beats
      /\ beats'.sent = beats.sent /\ beats'.jobSent = beats.jobSent
      /\ beats'.covers = IF k = "user" /\ calls[x].pc = "failed" /\ beats.covers = tab[t].covering
                         THEN tab[t].before ELSE beats.covers
  BY DEF HearResult, SessionTypeOK
<1>5. /\ shown'.user = shown.user /\ shown' \in ActivityTimes
      /\ shown'.job \in {shown.job, tab[t].jobAt}
      /\ shown'.job # shown.job => k = "job" /\ calls[x].pc = "ok"
  BY <1>2 DEF HearResult, ActivityTimes, Later, Tab
<1>6. \A u \in Tabs : tab'[u] = IF u = t
        THEN [tab[t] EXCEPT !.expired = @ \/ calls[x].pc = "idle",
                            !.covering = IF k = "user" THEN 0 ELSE @,
                            !.before = IF k = "user" THEN 0 ELSE @,
                            !.jobAt = IF k = "job" THEN 0 ELSE @]
        ELSE tab[u]
  BY DEF HearResult, SessionTypeOK
<1>7. /\ tab'[t] \in Tab /\ tab'[t].ran = tab[t].ran
      /\ ~tab'[t].expired => ~tab[t].expired
      /\ k # "user" => tab'[t].covering = tab[t].covering /\ tab'[t].before = tab[t].before
      /\ tab'[t].jobAt \in {0, tab[t].jobAt}
  <2>1. 0 \in Times BY SessionAssumption DEF Times
  <2>2. PICK e \in BOOLEAN : e = (tab[t].expired \/ calls[x].pc = "idle") OBVIOUS
  <2>3. tab'[t] = [tab[t] EXCEPT !.expired = e,
                                 !.covering = IF k = "user" THEN 0 ELSE @,
                                 !.before = IF k = "user" THEN 0 ELSE @,
                                 !.jobAt = IF k = "job" THEN 0 ELSE @]
    BY <1>6, <2>2
  <2>4. ~e => ~tab[t].expired BY <2>2
  <2>. QED BY <1>2, <2>1, <2>3, <2>4 DEF Tab
<1>8. SessionTypeOK'
  <2>1. tab' \in [Tabs -> Tab]
    <3>1. tab' = [u \in Tabs |-> tab'[u]] BY DEF HearResult, SessionTypeOK
    <3>2. \A u \in Tabs : tab'[u] \in Tab BY <1>6, <1>7 DEF SessionTypeOK
    <3>. QED BY <3>1, <3>2
  <2>2. calls' \in [Calls -> SessionCall] BY DEF HearResult, SessionTypeOK
  <2>3. beats' \in [sent : Times, covers : Times, jobSent : Times]
    BY <1>2, <1>4 DEF SessionTypeOK, Tab
  <2>4. over' \in BOOLEAN BY DEF HearResult, SessionTypeOK
  <2>. QED BY <1>1, <1>5, <2>1, <2>2, <2>3, <2>4 DEF SessionTypeOK
<1>9. k = "user" => Busy(t) /\ Claimed(t) BY <1>1 DEF Busy, ClaimInv
<1>10. beats'.covers <= beats.covers /\ beats'.covers <= shown.user
  <2>1. CASE beats'.covers = beats.covers BY <1>2, <2>1 DEF InOrder, Times, ActivityTimes
  <2>2. CASE beats'.covers # beats.covers
    BY <1>2, <1>4, <1>9, <2>2 DEF Claimed, Times, ActivityTimes, Tab
  <2>. QED BY <2>1, <2>2
<1>11. InOrder'
  <2>1. shown'.job <= earned.job
    <3>1. CASE shown'.job = shown.job BY <3>1 DEF InOrder
    <3>2. CASE shown'.job # shown.job
      <4>1. x[2] = "job" /\ calls[x].pc = "ok" BY <1>5, <3>2
      <4>2. tab[t].jobAt <= earned.job BY <1>1, <4>1 DEF ServedInv, Served
      <4>. QED BY <1>5, <3>2, <4>2
    <3>. QED BY <3>1, <3>2
  <2>2. \A u \in Tabs : tab'[u].jobAt <= now
    BY <1>2, <1>6, <1>7 DEF InOrder, Times
  <2>3. NoCall.at <= now /\ NoCall.row.user <= earned.user /\ NoCall.row.job <= earned.job
    BY DEF SessionTypeOK, Times, ActivityTimes
  <2>4. beats.covers \in Nat /\ shown.user \in Nat /\ now \in Nat
    BY <1>2 DEF Times, ActivityTimes
  <2>. QED BY <1>1, <1>3, <1>4, <1>5, <1>10, <2>1, <2>2, <2>3, <2>4 DEF InOrder
<1>12. ServedInv' /\ PromptInv'
  <2>1. ServedInv'
    <3>. SUFFICES ASSUME NEW y \in Calls, y # x PROVE Served(y)' BY <1>3 DEF ServedInv, Served
    <3>1. y \in Tabs \X {"user", "job", "api"} /\ y = <<y[1], y[2]>> BY DEF Calls
    <3>2. y[2] = "user" => tab'[y[1]].covering = tab[y[1]].covering BY <1>6, <1>7, <3>1
    <3>3. y[2] = "job" => tab'[y[1]].jobAt = tab[y[1]].jobAt BY <1>2, <1>6, <3>1 DEF Tab
    <3>. QED BY <1>1, <1>3, <3>1, <3>2, <3>3 DEF ServedInv, Served
  <2>2. \A y \in Calls : Prompt(y) => Prompt(y)' BY <1>1, <1>3 DEF Prompt
  <2>3. \A u \in Tabs : Busy(u)' => Busy(u) BY <1>3 DEF Busy
  <2>. QED BY <1>1, <1>4, <2>1, <2>2, <2>3 DEF PromptInv
<1>13. \A u \in Tabs : u # t \/ k # "user" =>
         /\ Busy(u)' <=> Busy(u)
         /\ tab'[u].covering = tab[u].covering /\ tab'[u].before = tab[u].before
  BY <1>3, <1>6, <1>7 DEF Busy
<1>14. k = "user" => ~Busy(t)' BY <1>3 DEF Busy
<1>15. ClaimInv'
  <2>1. \A u \in Tabs : Claimed(u)'
    <3>. SUFFICES ASSUME NEW u \in Tabs, Busy(u)' PROVE Claimed(u)' BY DEF Claimed
    <3>1. u # t \/ k # "user" BY <1>14
    <3>. QED BY <1>4, <1>5, <1>13, <3>1 DEF ClaimInv, Claimed
  <2>2. ASSUME ~refused, shown.user <= beats'.covers, earned.user < shown.user
        PROVE \E u \in Tabs : Busy(u)' /\ tab'[u].covering = beats'.covers
    <3>1. beats'.covers = beats.covers /\ shown.user <= beats.covers
      <4>1. SUFFICES ASSUME beats'.covers # beats.covers PROVE FALSE BY <2>2
      <4>2. tab[t].before < tab[t].covering /\ tab[t].covering <= shown.user
        BY <1>4, <1>9, <4>1 DEF Claimed
      <4>. QED BY <1>2, <1>4, <2>2, <4>1, <4>2 DEF Tab, Times, ActivityTimes
    <3>2. PICK u \in Tabs : Busy(u) /\ tab[u].covering = beats.covers
      BY <2>2, <3>1 DEF ClaimInv
    <3>3. u # t \/ k # "user"
      <4>1. SUFFICES ASSUME u = t, k = "user" PROVE FALSE OBVIOUS
      <4>2. CASE calls[x].pc = "failed"
        <5>1. beats'.covers = tab[t].before BY <1>4, <3>2, <4>1, <4>2
        <5>2. tab[t].before < tab[t].covering BY <1>9, <4>1 DEF Claimed
        <5>. QED BY <1>2, <3>1, <3>2, <4>1, <5>1, <5>2 DEF Tab, Times
      <4>3. CASE calls[x].pc = "ok"
        <5>1. x[1] = t /\ x[2] = "user" BY <4>1
        <5>2. tab[t].covering <= earned.user BY <1>1, <4>3, <5>1 DEF ServedInv, Served
        <5>3. earned.user \in Nat BY DEF SessionTypeOK, ActivityTimes, Times
        <5>. QED BY <1>2, <2>2, <3>1, <3>2, <4>1, <5>2, <5>3 DEF Times, ActivityTimes
      <4>4. CASE calls[x].pc = "idle" BY <1>1, <2>2, <4>4 DEF ServedInv, Served
      <4>. QED BY <1>1, <4>2, <4>3, <4>4
    <3>. QED BY <1>13, <3>1, <3>2, <3>3
  <2>. QED BY <1>1, <1>5, <2>1, <2>2 DEF ClaimInv
<1>16. CalmInv'
  <2>. SUFFICES ASSUME scene.hitches = {}, scene.slow = {}, ~refused
       PROVE /\ beats'.sent <= stored.user \/ \E u \in Tabs : Busy(u)'
             /\ \A u \in Tabs : Looked(u)'
             /\ shown.user <= stored.user \/ now < SessionDeadline(stored)
    BY <1>1, <1>5 DEF CalmInv
  <2>1. Watched BY <1>1 DEF Watched
  <2>2. calls[x].pc = "ok" BY <1>1 DEF ServedInv, Served
  <2>3. beats'.covers = beats.covers BY <1>4, <2>2
  <2>4. \A u \in Tabs : (tab'[u].ran => tab[u].ran) /\ (~tab'[u].expired => ~tab[u].expired)
    BY <1>6, <1>7
  <2>5. \A u \in Tabs : Looked(u)' BY <1>1, <1>4, <1>5, <2>3, <2>4 DEF CalmInv, Looked
  <2>6. beats.sent <= stored.user \/ \E u \in Tabs : Busy(u)'
    <3>1. CASE k = "user"
      <4>1. x[2] = "user" BY <3>1
      <4>2. stored.user = now BY <1>1, <2>2, <4>1 DEF PromptInv, Prompt
      <4>. QED BY <4>2 DEF InOrder
    <3>2. CASE k # "user" BY <1>13, <3>2 DEF CalmInv
    <3>. QED BY <3>1, <3>2
  <2>. QED BY <1>4, <2>1, <2>5, <2>6 DEF CalmInv
<1>. QED BY <1>8, <1>11, <1>12, <1>15, <1>16

(* Between two ticks every call is answered, if none is slow, and every    *)
(* tab but one asleep has looked: what is shown is recorded, or recent.    *)
LEMMA ClockStep ==
  ASSUME SessionInv, ClockTicks
  PROVE SessionInv'
<1> USE DEF SessionInv
<1>1. /\ UNCHANGED <<scene, stored, earned, cache, refused, calls, shown, beats, over>>
      /\ now' = now + 1 /\ now < LastTime
      /\ scene.slow = {} => \A x \in Calls : calls[x].pc = "none"
  BY DEF ClockTicks, serverSide
<1>2. /\ stored \in ActivityTimes /\ now \in Times
      /\ beats.covers \in Times /\ beats.sent \in Times /\ shown.user \in Times
  BY DEF SessionTypeOK, ActivityTimes
<1>3. now' \in Times BY <1>1, <1>2, SessionAssumption DEF Times
<1>4. \A u \in Tabs : tab'[u] = [tab[u] EXCEPT !.ran = FALSE] BY DEF ClockTicks
<1>5. \A u \in Tabs : /\ tab'[u] \in Tab /\ ~tab'[u].ran /\ tab'[u].expired = tab[u].expired
                      /\ tab'[u].jobAt = tab[u].jobAt
                      /\ tab'[u].covering = tab[u].covering /\ tab'[u].before = tab[u].before
  <2>. SUFFICES ASSUME NEW u \in Tabs
       PROVE /\ tab'[u] \in Tab /\ ~tab'[u].ran /\ tab'[u].expired = tab[u].expired
             /\ tab'[u].jobAt = tab[u].jobAt
             /\ tab'[u].covering = tab[u].covering /\ tab'[u].before = tab[u].before
    OBVIOUS
  <2>1. tab[u] \in Tab BY DEF SessionTypeOK
  <2>. QED BY <1>4, <2>1 DEF Tab
<1>6. SessionTypeOK'
  <2>1. tab' \in [Tabs -> Tab] BY <1>5 DEF ClockTicks
  <2>. QED BY <1>1, <1>3, <2>1 DEF SessionTypeOK
<1>7. InOrder'
  <2>1. \A a \in Times : a <= now => a <= now' BY <1>1, <1>2 DEF Times
  <2>2. \A u \in Tabs : tab[u].jobAt \in Times BY DEF SessionTypeOK, Tab
  <2>3. UserBeat <= now' /\ beats.jobSent \in Times /\ earned.user \in Times /\ earned.job \in Times
        /\ \A x \in Calls : calls[x].at \in Times
    BY <1>1, <1>2, SessionAssumption DEF SessionTypeOK, SessionCall, InOrder, Times, ActivityTimes
  <2>. QED BY <1>1, <1>2, <1>5, <2>1, <2>2, <2>3 DEF InOrder
<1>8. ServedInv'
  <2>1. \A x \in Calls : x[1] \in Tabs BY DEF Calls
  <2>. QED BY <1>1, <1>5, <2>1 DEF ServedInv, Served
<1>9. \A u \in Tabs : (Busy(u)' <=> Busy(u)) /\ (scene.slow = {} => ~Busy(u))
  BY <1>1, CallTypes DEF Busy
<1>10. PromptInv'
  <2>1. (scene.slow = {} /\ refused) => SessionDeadline(stored) <= now'
    BY <1>1, <1>2, DeadlineType DEF PromptInv, Times
  <2>. QED BY <1>1, <1>9, <2>1 DEF PromptInv, Prompt
<1>11. ClaimInv' BY <1>1, <1>5, <1>9 DEF ClaimInv, Claimed
<1>12. CalmInv'
  <2>. SUFFICES ASSUME scene.hitches = {}, scene.slow = {}, ~refused
       PROVE /\ beats.sent <= stored.user
             /\ Watched' => (shown.user <= stored.user \/ now' < SessionDeadline(stored))
    BY <1>1, <1>5 DEF CalmInv, Looked
  <2>1. beats.sent <= stored.user BY <1>9 DEF CalmInv
  <2>2. ASSUME Watched' PROVE shown.user <= stored.user \/ now + 1 < SessionDeadline(stored)
    <3>1. PICK u \in Tabs : ~tab[u].expired BY <1>1, <1>5, <2>2 DEF Watched
    <3>2. tab[u].ran BY <3>1 DEF ClockTicks
    <3>3. CASE shown.user <= beats.covers
      <4>1. ~(stored.user < shown.user) BY <1>9, <3>3 DEF ClaimInv, PromptInv
      <4>. QED BY <1>2, <4>1 DEF Times, ActivityTimes
    <3>4. CASE now < beats.sent + UserBeat
      <4>1. stored.user + IdleTimeout <= SessionDeadline(stored) /\ SessionDeadline(stored) \in Nat
        BY <1>2, DeadlineType
      <4>. QED BY <1>2, <2>1, <3>4, <4>1, SessionAssumption DEF Times, ActivityTimes
    <3>. QED BY <3>1, <3>2, <3>3, <3>4 DEF CalmInv, Looked
  <2>. QED BY <1>1, <2>1, <2>2
<1>. QED BY <1>6, <1>7, <1>8, <1>10, <1>11, <1>12
-----------------------------------------------------------------------------
(* A new sign-in.                                                          *)
LEMMA SessionStarts == SessionInit => SessionInv
<1> SUFFICES ASSUME SessionInit PROVE SessionInv OBVIOUS
<1> USE CallTypes, SessionAssumption
<1>1. /\ scene \in SessionScenarios /\ now = UserBeat /\ stored = NoTimes /\ earned = NoTimes /\ refused = FALSE /\ over = FALSE
      /\ cache = [i \in Instances |-> NoTimes]
      /\ shown = [user |-> now, job |-> 0]
      /\ beats = [sent |-> 0, covers |-> 0, jobSent |-> 0]
  BY DEF SessionInit
<1>2. NoTimes \in ActivityTimes /\ NoTimes.user = 0 /\ NoTimes.job = 0 /\ 0 \in Times /\ now \in Times
  BY <1>1 DEF NoTimes, ActivityTimes, Times
<1>3. /\ calls \in [Calls -> SessionCall]
      /\ \A x \in Calls : calls[x].pc \in {"none", "sent"} /\ calls[x].at = 0 /\ calls[x].row = NoTimes
  <2>1. [NoCall EXCEPT !.pc = "sent"] = Sent BY DEF Sent
  <2>. QED BY <2>1 DEF SessionInit
<1>4. \A t \in Tabs : ~Busy(t)
  <2>. SUFFICES ASSUME NEW t \in Tabs PROVE ~Busy(t) OBVIOUS
  <2>1. <<t, "user">>[2] = "user" OBVIOUS
  <2>. QED BY <2>1 DEF SessionInit, Busy
<1>5. tab \in [Tabs -> Tab] /\ \A t \in Tabs : ~tab[t].ran /\ tab[t].jobAt = 0
  <2>1. NewTab \in Tab /\ ~NewTab.ran /\ NewTab.jobAt = 0 BY <1>2 DEF NewTab, Tab
  <2>2. \A e \in BOOLEAN : LET v == [NewTab EXCEPT !.expired = e]
                           IN  v \in Tab /\ ~v.ran /\ v.jobAt = 0
    BY <1>2 DEF NewTab, Tab
  <2>3. \A t \in Tabs : (t \notin scene.tabs) \in BOOLEAN OBVIOUS
  <2>. QED BY <2>2, <2>3 DEF SessionInit
<1>6. SessionTypeOK
  BY <1>1, <1>2, <1>3, <1>5 DEF SessionTypeOK, ActivityTimes
<1>7. InOrder BY <1>1, <1>2, <1>3, <1>5 DEF InOrder, Times
<1>8. ServedInv BY <1>1, <1>3 DEF ServedInv, Served
<1>9. ClaimInv /\ PromptInv BY <1>1, <1>3, <1>4 DEF ClaimInv, Claimed, PromptInv, Prompt
<1>10. CalmInv
  <2>1. SessionDeadline(stored) = IdleTimeout BY <1>1, <1>2 DEF SessionDeadline
  <2>. QED BY <1>1, <1>2, <1>5, <2>1 DEF CalmInv, Looked
<1>. QED BY <1>6, <1>7, <1>8, <1>9, <1>10 DEF SessionInv

(* The server and the tabs take their steps within a tick.                 *)
LEMMA SessionSteps == SessionInv /\ [SessionNext]_sessionVars => SessionInv'
<1> SUFFICES ASSUME SessionInv, [SessionNext]_sessionVars PROVE SessionInv' OBVIOUS
<1>1. CASE UNCHANGED <<scene, now>> /\ \E x \in Calls : Serves(x) \/ CallLost(x)
  <2>1. PICK x \in Calls : Serves(x) \/ CallLost(x) BY <1>1
  <2>2. CASE \E i \in scene.instances : Arrive(x, i)
    <3>1. PICK i \in scene.instances : Arrive(x, i) BY <2>2
    <3>2. i \in Instances
      BY SessionAssumption DEF SessionInv, SessionTypeOK
    <3>. QED BY <1>1, <3>1, <3>2, ArriveStep
  <2>. QED BY <1>1, <2>1, <2>2, ReadStep, FirstStep, DecideStep, StampStep, RecordStep,
               RememberStep, LostStep
       DEF Serves
<1>2. CASE UNCHANGED <<scene, now>> /\ \E t \in Tabs : Acts(t)
  <2>1. PICK t \in Tabs : Acts(t) BY <1>2
  <2>2. CASE SignOutNow(t) \/ HearExpired(t)
    BY <1>2, <2>2, ExpireStep DEF SignOutNow, HearExpired
  <2>3. CASE \E running \in {FALSE, scene.flows} : TickTab(t, running)
    <3>1. PICK running \in {FALSE, scene.flows} : TickTab(t, running) BY <2>3
    <3>2. running \in BOOLEAN BY SessionAssumption DEF SessionInv, SessionTypeOK
    <3>. QED BY <1>2, <3>1, <3>2, TickStep
  <2>. QED BY <1>2, <2>1, <2>2, <2>3, ActStep, StayStep, ApiStep, HearStep DEF Acts
<1>3. CASE UNCHANGED sessionVars
  BY <1>3 DEF sessionVars, serverSide, browserSide, SessionInv, SessionTypeOK, InOrder, ServedInv,
       Served, PromptInv, Prompt, ClaimInv, Claimed, CalmInv, Watched, Looked, Busy
<1>. QED BY <1>1, <1>2, <1>3, ClockStep DEF SessionNext

(* Every state of a session is one of these.                               *)
THEOREM SessionInvariant == SessionSpec => []SessionInv
BY SessionStarts, SessionSteps, PTL DEF SessionSpec

(* Times are ticks of the clock, calls are at one of their steps.          *)
THEOREM SessionTypes == SessionSpec => []SessionTypeOK
<1>1. SessionInv => SessionTypeOK BY DEF SessionInv
<1>. QED BY <1>1, SessionInvariant, PTL

(* Once a session is past its deadline and the requests from before are    *)
(* over, no cache, no row and no request says otherwise, ever.             *)
LEMMA OverdueTyped ==
  ASSUME SessionTypeOK, NEW x \in Calls
  PROVE /\ SessionDeadline(calls[x].row) \in Nat /\ SessionDeadline(stored) \in Nat
        /\ calls[x].at \in Nat /\ now \in Nat /\ calls[x].inst \in Instances
<1>1. calls[x] \in SessionCall /\ stored \in ActivityTimes /\ now \in Times BY DEF SessionTypeOK
<1>2. calls[x].row \in ActivityTimes /\ calls[x].at \in Times /\ calls[x].inst \in Instances
  BY <1>1 DEF SessionCall
<1>. QED BY <1>1, <1>2, DeadlineType DEF Times

LEMMA ServesEnded ==
  ASSUME SessionTypeOK, Ended, UNCHANGED now, NEW x \in Calls, Serves(x)
  PROVE Ended' /\ UNCHANGED stored
<1> USE CallTypes
<1>1. stored.user > 0 /\ SessionDeadline(stored) <= now /\ Overdue(x)
  BY DEF Ended
<1>2. calls[x] \in SessionCall /\ calls[x].at \in Times /\ calls[x].row \in ActivityTimes
  BY DEF SessionTypeOK, SessionCall
<1>3. UNCHANGED stored /\ calls[x].pc \notin {"first", "passed", "write"}
      /\ Overdue(x)' /\ (\A i \in Instances : ~Trusted(i)')
      /\ \A y \in Calls : y # x => calls'[y] = calls[y]
  <2>1. CASE \E i \in scene.instances : Arrive(x, i)
    <3>1. PICK i \in scene.instances : Arrive(x, i) BY <2>1
    <3>2. i \in Instances BY SessionAssumption DEF SessionTypeOK
    <3>3. UNCHANGED <<stored, cache>> /\ calls[x].pc = "sent"
          /\ calls' = [calls EXCEPT ![x] = [NoCall EXCEPT !.pc = "read", !.inst = i, !.at = now]]
      BY <3>1, <3>2 DEF Arrive, Reads, Ended, serverSide
    <3>4. calls'[x].pc = "read" /\ calls'[x].at = now
          /\ \A y \in Calls : y # x => calls'[y] = calls[y]
      BY <3>3 DEF SessionTypeOK, NoCall
    <3>. QED BY <1>1, <3>3, <3>4 DEF Overdue, Ended, Trusted
  <2>2. CASE ReadTimes(x)
    <3>. stored.user # 0 BY <1>1
    <3>1. UNCHANGED <<stored, cache>> /\ calls[x].pc = "read"
          /\ calls' = [calls EXCEPT ![x] = [calls[x] EXCEPT !.pc = "told", !.row = stored]]
      <4>1. UNCHANGED <<stored, cache>> /\ calls[x].pc = "read" /\ Told(x, stored, "told")
        BY <2>2 DEF ReadTimes, serverSide
      <4>. QED BY <4>1 DEF Told, SessionTypeOK
    <3>2. calls'[x].pc = "told" /\ calls'[x].at = calls[x].at /\ calls'[x].row = stored
          /\ \A y \in Calls : y # x => calls'[y] = calls[y]
      BY <1>2, <3>1 DEF SessionTypeOK, SessionCall
    <3>. QED BY <1>1, <3>1, <3>2 DEF Overdue, Ended, Trusted
  <2>3. CASE Decide(x)
    <3>1. calls[x].pc = "told" /\ SessionDeadline(calls[x].row) <= calls[x].at
      BY <1>1, <2>3 DEF Decide, Overdue
    <3>2. UNCHANGED stored /\ cache' = [cache EXCEPT ![calls[x].inst] = NoTimes]
          /\ calls' = [calls EXCEPT ![x] = [NoCall EXCEPT !.pc = "idle"]]
      BY <2>3, <3>1 DEF Decide
    <3>3. calls'[x].pc = "idle" /\ \A y \in Calls : y # x => calls'[y] = calls[y]
      BY <3>2 DEF SessionTypeOK, NoCall
    <3>4. \A i \in Instances : cache'[i] = NoTimes \/ cache'[i] = cache[i]
      BY <3>2 DEF SessionTypeOK
    <3>. QED BY <3>1, <3>2, <3>3, <3>4 DEF Overdue, Ended, Trusted
  <2>4. CASE Remember(x)
    <3>1. calls[x].pc = "kept" /\ SessionDeadline(calls[x].row) <= now
      BY <1>1, <2>4 DEF Remember, Overdue
    <3>2. UNCHANGED stored /\ cache' = [cache EXCEPT ![calls[x].inst] = calls[x].row]
          /\ calls' = [calls EXCEPT ![x] = [NoCall EXCEPT !.pc = "ok"]]
      BY <2>4 DEF Remember
    <3>3. calls'[x].pc = "ok" /\ \A y \in Calls : y # x => calls'[y] = calls[y]
      BY <3>2 DEF SessionTypeOK, NoCall
    <3>4. \A i \in Instances : cache'[i] = calls[x].row \/ cache'[i] = cache[i]
      BY <3>2 DEF SessionTypeOK
    <3>5. ~(SessionDeadline(calls[x].row) > now) BY <3>1, OverdueTyped
    <3>. QED BY <3>1, <3>2, <3>3, <3>4, <3>5 DEF Overdue, Ended, Trusted
  <2>. QED BY <1>1, <2>1, <2>2, <2>3, <2>4
       DEF Serves, FirstWrite, Stamp, RecordActivity, Overdue
<1>4. \A y \in Calls : Overdue(y)' BY <1>3 DEF Ended, Overdue
<1>. QED BY <1>1, <1>3, <1>4 DEF Ended

LEMMA EndedStep ==
  SessionTypeOK /\ [SessionNext]_sessionVars /\ Ended => Ended' /\ UNCHANGED stored
<1> SUFFICES ASSUME SessionTypeOK, [SessionNext]_sessionVars, Ended
    PROVE Ended' /\ UNCHANGED stored
  OBVIOUS
<1> USE CallTypes
<1>1. ASSUME NEW x \in Calls, CallLost(x), UNCHANGED now PROVE Ended' /\ UNCHANGED stored
  <2>1. UNCHANGED <<stored, cache>> /\ calls' = [calls EXCEPT ![x] = [NoCall EXCEPT !.pc = "failed"]]
    BY <1>1 DEF CallLost, serverSide
  <2>2. \A y \in Calls : calls'[y] = calls[y] \/ calls'[y].pc = "failed"
    BY <2>1 DEF SessionTypeOK, NoCall
  <2>. QED BY <1>1, <2>1, <2>2 DEF Ended, Overdue, Trusted
<1>2. ASSUME NEW t \in Tabs, Acts(t), UNCHANGED now PROVE Ended' /\ UNCHANGED stored
  <2>1. UNCHANGED <<stored, cache>>
    BY <1>2 DEF Acts, TickTab, UserActs, StaySignedIn, SignOutNow, CallApi, HearExpired, HearResult,
                serverSide
  <2>2. \A y \in Calls : calls'[y] = calls[y] \/ calls'[y].pc \in {"none", "sent"}
    <3>1. CASE \E running \in {FALSE, scene.flows} : TickTab(t, running)
      BY <3>1 DEF TickTab
    <3>2. CASE StaySignedIn(t) \/ CallApi(t) BY <3>2 DEF StaySignedIn, CallApi, SessionTypeOK
    <3>3. CASE UserActs(t) \/ SignOutNow(t) \/ HearExpired(t)
      BY <3>3 DEF UserActs, SignOutNow, HearExpired
    <3>4. CASE \E k \in {"user", "job", "api"} : HearResult(t, k)
      BY <3>4 DEF HearResult, SessionTypeOK
    <3>. QED BY <1>2, <3>1, <3>2, <3>3, <3>4 DEF Acts
  <2>. QED BY <1>2, <2>1, <2>2 DEF Ended, Overdue, Trusted
<1>3. CASE ClockTicks
  <2>1. UNCHANGED <<stored, cache, calls>> /\ now' = now + 1 BY <1>3 DEF ClockTicks, serverSide
  <2>2. \A i \in Instances : SessionDeadline(cache[i]) \in Nat
    BY DeadlineType DEF SessionTypeOK
  <2>3. now \in Nat /\ SessionDeadline(stored) \in Nat
    BY DeadlineType DEF SessionTypeOK, Times
  <2>4. \A i \in Instances : ~Trusted(i)' BY <2>1, <2>2, <2>3 DEF Ended, Trusted
  <2>5. \A x \in Calls : Overdue(x)'
    <3>. SUFFICES ASSUME NEW x \in Calls PROVE Overdue(x)' OBVIOUS
    <3>1. Overdue(x) /\ SessionDeadline(calls[x].row) \in Nat BY OverdueTyped DEF Ended
    <3>2. SessionDeadline(calls[x].row) <= now => SessionDeadline(calls[x].row) <= now'
      BY <2>1, <2>3, <3>1
    <3>. QED BY <2>1, <3>1, <3>2 DEF Overdue
  <2>6. stored.user > 0 /\ SessionDeadline(stored) <= now' BY <2>1, <2>3 DEF Ended
  <2>. QED BY <2>1, <2>4, <2>5, <2>6 DEF Ended
<1>4. CASE UNCHANGED sessionVars
  BY <1>4 DEF sessionVars, serverSide, Ended, Overdue, Trusted
<1>. QED BY <1>1, <1>2, <1>3, <1>4, ServesEnded DEF SessionNext

(* "A session past its deadline is rejected, and keeps being rejected: its *)
(* stored deadline does not move", but by a request from before.           *)
THEOREM EndedStaysEnded == SessionSpec => EndsForGood
<1>1. SessionTypeOK /\ [SessionNext]_sessionVars
        => [Ended => Ended' /\ UNCHANGED stored]_sessionVars
  BY EndedStep
<1>. QED BY <1>1, SessionTypes, PTL DEF SessionSpec, EndsForGood

(* Only these steps let a request pass, and each by a deadline that was    *)
(* recorded.                                                               *)
LEMMA PassStep ==
  ASSUME SessionInv, [SessionNext]_sessionVars, NEW x \in Calls,
         calls[x].pc \in {"sent", "read", "first", "told"}, calls'[x].pc \in {"none", "passed"}
  PROVE CameAt(x) < SessionDeadline(earned)
<1> USE CallTypes DEF SessionInv
<1>1. earned \in ActivityTimes /\ now \in Nat /\ calls[x] \in SessionCall
      /\ calls[x].row \in ActivityTimes /\ calls[x].at \in Nat
  BY DEF SessionTypeOK, SessionCall, Times
<1>2. calls'[x] # calls[x] /\ calls'[x].pc # "sent" OBVIOUS
<1>3. PICK y \in Calls : Serves(y) \/ CallLost(y)
  <2>1. ~ClockTicks BY <1>2 DEF ClockTicks
  <2>2. ~UNCHANGED sessionVars BY <1>2 DEF sessionVars
  <2>3. \A t \in Tabs : ~Acts(t)
    <3>. SUFFICES ASSUME NEW t \in Tabs, Acts(t) PROVE FALSE OBVIOUS
    <3>1. CASE \E running \in {FALSE, scene.flows} : TickTab(t, running)
      BY <1>2, <3>1 DEF TickTab
    <3>2. CASE StaySignedIn(t) \/ CallApi(t)
      BY <1>2, <3>2 DEF StaySignedIn, CallApi, SessionTypeOK
    <3>3. CASE UserActs(t) \/ SignOutNow(t) \/ HearExpired(t)
      BY <1>2, <3>3 DEF UserActs, SignOutNow, HearExpired
    <3>4. CASE \E k \in {"user", "job", "api"} : HearResult(t, k)
      BY <1>2, <3>4 DEF HearResult, SessionTypeOK
    <3>. QED BY <3>1, <3>2, <3>3, <3>4 DEF Acts
  <2>. QED BY <2>1, <2>2, <2>3 DEF SessionNext
<1>4. y = x
  BY <1>2, <1>3 DEF Serves, Arrive, Passes, Reads, ReadTimes, Told, FirstWrite, Decide, Stamp,
                    RecordActivity, Remember, CallLost, SessionTypeOK
<1>5. CASE \E i \in scene.instances : Arrive(x, i)
  <2>1. PICK i \in scene.instances : Arrive(x, i) BY <1>5
  <2>2. i \in Instances BY SessionAssumption DEF SessionTypeOK
  <2>3. Trusted(i)
    <3>. SUFFICES ASSUME ~Trusted(i) PROVE FALSE OBVIOUS
    <3>1. calls' = [calls EXCEPT ![x] = [NoCall EXCEPT !.pc = "read", !.inst = i, !.at = now]]
      BY <2>1 DEF Arrive, Reads
    <3>. QED BY <3>1 DEF SessionTypeOK, NoCall
  <2>4. cache[i] \in ActivityTimes BY <2>2 DEF SessionTypeOK
  <2>5. SessionDeadline(cache[i]) <= SessionDeadline(earned)
    BY <1>1, <2>2, <2>4, DeadlineMonotone DEF InOrder
  <2>. QED BY <1>1, <2>1, <2>3, <2>4, <2>5, DeadlineType DEF Trusted, CameAt, Arrive
<1>6. CASE Decide(x)
  <2>1. calls[x].pc = "told" BY <1>6 DEF Decide
  <2>2. ~(SessionDeadline(calls[x].row) <= calls[x].at)
    <3>. SUFFICES ASSUME SessionDeadline(calls[x].row) <= calls[x].at PROVE FALSE OBVIOUS
    <3>1. calls' = [calls EXCEPT ![x] = [NoCall EXCEPT !.pc = "idle"]] BY <1>6 DEF Decide
    <3>. QED BY <3>1 DEF SessionTypeOK, NoCall
  <2>3. SessionDeadline(calls[x].row) <= SessionDeadline(earned)
    BY <1>1, DeadlineMonotone DEF InOrder
  <2>. QED BY <1>1, <2>1, <2>2, <2>3, DeadlineType DEF CameAt
<1>7. ~ReadTimes(x)
  <2>. SUFFICES ASSUME ReadTimes(x) PROVE FALSE OBVIOUS
  <2>1. calls'[x].pc \in {"first", "told"} BY <1>1 DEF ReadTimes, Told, SessionTypeOK, SessionCall
  <2>. QED BY <2>1
<1>8. ~FirstWrite(x)
  <2>. SUFFICES ASSUME FirstWrite(x) PROVE FALSE OBVIOUS
  <2>1. calls'[x].pc = "told" BY <1>1 DEF FirstWrite, Told, SessionTypeOK, SessionCall
  <2>. QED BY <2>1
<1>9. ~CallLost(x)
  <2>. SUFFICES ASSUME CallLost(x) PROVE FALSE OBVIOUS
  <2>1. calls'[x].pc = "failed" BY DEF CallLost, SessionTypeOK, NoCall
  <2>. QED BY <2>1
<1>. QED BY <1>3, <1>4, <1>5, <1>6, <1>7, <1>8, <1>9 DEF Serves, Stamp, RecordActivity, Remember

(* "Trusting it while it is still in the future is always safe": whatever  *)
(* order rows are written and cached in, what passes the guard comes       *)
(* before a deadline that was recorded.                                    *)
THEOREM CachesAreSafe == SessionSpec => PassesInTime
<1>1. ASSUME SessionInv, [SessionNext]_sessionVars
      PROVE [\A x \in Calls :
               calls[x].pc \in {"sent", "read", "first", "told"} /\ calls'[x].pc \in {"none", "passed"}
                 => CameAt(x) < SessionDeadline(earned)]_sessionVars
  BY <1>1, PassStep
<1>. QED BY <1>1, SessionInvariant, PTL DEF SessionSpec, PassesInTime

(* The last input, once claimed, is recorded or on its way.                *)
THEOREM InputIsReported == SessionSpec => []InputReported
<1>1. SessionInv => InputReported
  <2>. SUFFICES ASSUME SessionInv, ~refused, shown.user <= beats.covers, \A t \in Tabs : ~Busy(t)
       PROVE shown.user <= earned.user
    BY DEF InputReported, Busy
  <2>1. ~(earned.user < shown.user) BY DEF SessionInv, ClaimInv
  <2>2. earned.user \in Nat /\ shown.user \in Nat
    BY DEF SessionInv, SessionTypeOK, ActivityTimes, Times
  <2>. QED BY <2>1, <2>2
<1>. QED BY <1>1, SessionInvariant, PTL

(* With nothing lost or slow and every tab awake, the server ends no       *)
(* session that a countdown still shows.                                   *)
LEMMA RefusalStep ==
  ASSUME SessionInv, [SessionNext]_sessionVars, scene.hitches = {}, scene.slow = {}, refused', ~refused
  PROVE SessionDeadline(shown) <= now
<1> USE DEF SessionInv
<1>1. PICK x \in Calls : Decide(x)
  <2>1. ~UNCHANGED sessionVars BY DEF sessionVars, serverSide
  <2>2. ~ClockTicks BY DEF ClockTicks, serverSide
  <2>3. \A t \in Tabs : ~Acts(t)
    <3>. SUFFICES ASSUME NEW t \in Tabs, Acts(t) PROVE FALSE OBVIOUS
    <3>1. CASE \E running \in {FALSE, scene.flows} : TickTab(t, running) BY <3>1 DEF TickTab, serverSide
    <3>2. CASE \E k \in {"user", "job", "api"} : HearResult(t, k) BY <3>2 DEF HearResult, serverSide
    <3>3. CASE UserActs(t) \/ StaySignedIn(t) \/ SignOutNow(t) \/ CallApi(t) \/ HearExpired(t)
      BY <3>3 DEF UserActs, StaySignedIn, SignOutNow, CallApi, HearExpired, serverSide
    <3>. QED BY <3>1, <3>2, <3>3 DEF Acts
  <2>4. PICK x \in Calls : Serves(x) \/ CallLost(x) BY <2>1, <2>2, <2>3 DEF SessionNext
  <2>. QED BY <2>4 DEF Serves, CallLost, Arrive, ReadTimes, FirstWrite, Stamp, RecordActivity, Remember,
                       Upsert, serverSide
<1>2. stored \in ActivityTimes /\ shown \in ActivityTimes /\ now \in Times
  BY DEF SessionTypeOK
<1>3. SessionDeadline(stored) <= now /\ calls[x].pc = "told"
  BY <1>1 DEF Decide, PromptInv, Prompt
<1>4. shown.user <= stored.user
  <2>1. Watched BY <1>3 DEF Watched
  <2>2. ~(now < SessionDeadline(stored)) BY <1>2, <1>3, DeadlineType DEF Times
  <2>. QED BY <2>1, <2>2 DEF CalmInv
<1>5. SessionDeadline(shown) <= SessionDeadline(stored)
  BY <1>2, <1>4, DeadlineMonotone DEF InOrder, PromptInv
<1>. QED BY <1>2, <1>3, <1>5, DeadlineType DEF Times

(* "The server always has a deadline at least as late as the one shown".   *)
THEOREM ServerOutlastsCountdown == SessionSpec => ServerOutlasts
<1>1. SessionInv /\ [SessionNext]_sessionVars
        => [(scene.hitches = {} /\ scene.slow = {} /\ refused' /\ ~refused)
              => SessionDeadline(shown) <= now]_sessionVars
  BY RefusalStep
<1>. QED BY <1>1, SessionInvariant, PTL DEF SessionSpec, ServerOutlasts
=============================================================================
