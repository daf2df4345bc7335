------------------------------ MODULE Sessions ------------------------------
(***************************************************************************)
(* The inactivity timeout of one sign-in session: the server's half        *)
(* (backend/src/common/session), which rejects the requests of a session   *)
(* past its deadline, and the browser's (lib/auth/session-idle), which     *)
(* shows a countdown and signs out, one controller a tab over one          *)
(* localStorage.  Both sides reckon with one clock; a time is a tick of it.*)
(***************************************************************************)
EXTENDS Naturals, FiniteSets

CONSTANTS
  IdleTimeout, WarningTime, JobExtension, JobGrace,   \* SESSION_IDLE_POLICY
  UserBeat, JobBeat,     \* USER_ and JOB_HEARTBEAT_INTERVAL_MS
  LastTime,              \* the clock stops here: a bound
  Instances,             \* backend processes, each with a cache
  Tabs,                  \* of one browser, each with a controller
  SessionScenarios       \* who is there, and what may go wrong

Calls == Tabs \X {"user", "job", "api"}   \* a heartbeat of a kind, or any other

(* "lost": a heartbeat, or its answer, does not arrive.  "asleep": a tab   *)
(* is not ticked every tick.  Calls that are `slow` may take longer than a *)
(* tick.  `flows`: protected flows may run.                                *)
ASSUME SessionAssumption ==
  /\ {IdleTimeout, WarningTime, JobExtension, JobGrace, UserBeat, JobBeat} \subseteq Nat \ {0}
  /\ JobBeat < JobGrace /\ JobGrace <= IdleTimeout /\ JobBeat <= UserBeat
  /\ UserBeat + WarningTime < IdleTimeout
  /\ LastTime \in Nat /\ UserBeat <= LastTime
  /\ Instances # {}
  /\ SessionScenarios \subseteq [tabs : SUBSET Tabs, instances : SUBSET Instances,
                               flows : BOOLEAN,
                               hitches : SUBSET {"lost", "asleep"}, slow : SUBSET Calls]

VARIABLES
  scene,    \* the scenario of this behaviour: never changes
  now,
  stored,   \* the session's row of user_session_activity
  earned,   \* the latest times that were ever in it: for the properties
  cache,    \* SessionActivityService.cache, by instance
  refused,  \* the server has rejected the session as idle
  calls,    \* requests under way
  shown,    \* lastActivityAt and lastJobAt in localStorage
  beats,    \* userBeatSentAt, userBeatCovers, jobBeatSentAt there
  over,     \* expiredSession is set there
  tab       \* the controllers

serverSide == <<stored, earned, cache, refused>>
browserSide == <<shown, beats, over, tab>>
sessionVars == <<scene, now, serverSide, calls, browserSide>>

Times == 0..LastTime   \* 0: null, or no row

ActivityTimes == [user : Times, job : Times]

NoTimes == [user |-> 0, job |-> 0]

(* `read`, `first` and `told` are in assertActive, with the time it began; *)
(* `write` and `kept` in recordActivity, with its own.  `row` is what the  *)
(* table answered.  The last three are answers on their way.               *)
SessionCall == [pc : {"none", "sent", "read", "first", "told", "passed", "write", "kept",
                      "ok", "idle", "failed"},
                inst : Instances, at : Times, row : ActivityTimes]

NoCall == [pc |-> "none", inst |-> CHOOSE i \in Instances : TRUE, at |-> 0, row |-> NoTimes]

(* `covering` and `before` are those of the heartbeat under way, `jobAt`   *)
(* when that of a job was sent; `ran` since the clock ticked.              *)
Tab == [expired : BOOLEAN, ran : BOOLEAN,
        covering : Times, before : Times, jobAt : Times]

NewTab == [expired |-> FALSE, ran |-> FALSE,
           covering |-> 0, before |-> 0, jobAt |-> 0]

Later(a, b) == IF a > b THEN a ELSE b
Sooner(a, b) == IF a < b THEN a ELSE b

(* sessionDeadline(), the same on both sides.                              *)
SessionDeadline(t) ==
  LET idle == t.user + IdleTimeout
  IN  IF t.job = 0 THEN idle ELSE Later(idle, Sooner(t.job + JobGrace, idle + JobExtension))

(* A new sign-in: each open tab starts its clock and asks for the policy.  *)
SessionInit ==
  /\ scene \in SessionScenarios
  /\ now = UserBeat
  /\ stored = NoTimes /\ earned = NoTimes /\ refused = FALSE
  /\ cache = [i \in Instances |-> NoTimes]
  /\ calls = [x \in Calls |-> IF x[1] \in scene.tabs /\ x[2] = "api"
                              THEN [NoCall EXCEPT !.pc = "sent"] ELSE NoCall]
  /\ shown = [user |-> now, job |-> 0]
  /\ beats = [sent |-> 0, covers |-> 0, jobSent |-> 0]
  /\ over = FALSE
  /\ tab = [t \in Tabs |-> [NewTab EXCEPT !.expired = t \notin scene.tabs]]

-----------------------------------------------------------------------------
(* The server.  A request that passes the guard is answered, unless it is  *)
(* a heartbeat: that goes on to be recorded.                               *)
Passes(x, i) ==
  calls' = [calls EXCEPT ![x] = IF x[2] = "api" THEN NoCall
                                ELSE [NoCall EXCEPT !.pc = "passed", !.inst = i]]

Trusted(i) == cache[i].user > 0 /\ SessionDeadline(cache[i]) > now

Reads(x, i) == calls' = [calls EXCEPT ![x] = [NoCall EXCEPT !.pc = "read", !.inst = i, !.at = now]]

ArriveUnguarded(x, i) ==   \* a heartbeat is recorded whatever the deadline
  /\ calls[x].pc = "sent"
  /\ IF x[2] # "api" \/ Trusted(i) THEN Passes(x, i) ELSE Reads(x, i)
  /\ UNCHANGED <<serverSide, browserSide>>

(* assertActive(), from when it takes the time: a cached deadline in the   *)
(* future is trusted.                                                      *)
Arrive(x, i) ==
  /\ calls[x].pc = "sent"
  /\ IF Trusted(i) THEN Passes(x, i) ELSE Reads(x, i)
  /\ UNCHANGED <<serverSide, browserSide>>

(* The row as the table had it then is on its way.                         *)
Told(x, times, pc) == calls' = [calls EXCEPT ![x].pc = pc, ![x].row = times]

ReadTimes(x) ==
  /\ calls[x].pc = "read"
  /\ IF stored.user = 0 THEN calls' = [calls EXCEPT ![x].pc = "first"] ELSE Told(x, stored, "told")
  /\ UNCHANGED <<serverSide, browserSide>>

(* The upsert sets its column whatever is there.                           *)
Upsert(kind, at) ==
  /\ stored' = IF kind = "job" THEN [stored EXCEPT !.job = at] ELSE [stored EXCEPT !.user = at]
  /\ earned' = [user |-> Later(earned.user, stored'.user), job |-> Later(earned.job, stored'.job)]
  /\ UNCHANGED <<cache, refused>>

(* The first request of a session starts its clock.                        *)
FirstWrite(x) ==
  /\ calls[x].pc = "first"
  /\ Upsert("user", calls[x].at)
  /\ Told(x, stored', "told")
  /\ UNCHANGED browserSide

(* The deadline that was read, or written, is compared with the time that  *)
(* assertActive() began.                                                   *)
Decide(x) ==
  LET c == calls[x] IN
  /\ c.pc = "told"
  /\ IF SessionDeadline(c.row) <= c.at
     THEN /\ cache' = [cache EXCEPT ![c.inst] = NoTimes]
          /\ refused' = TRUE
          /\ calls' = [calls EXCEPT ![x] = [NoCall EXCEPT !.pc = "idle"]]
     ELSE /\ cache' = [cache EXCEPT ![c.inst] = c.row]
          /\ refused' = refused
          /\ Passes(x, c.inst)
  /\ UNCHANGED <<stored, earned, browserSide>>

(* recordActivity() takes the time anew, ...                               *)
Stamp(x) ==
  /\ calls[x].pc = "passed"
  /\ calls' = [calls EXCEPT ![x].pc = "write", ![x].at = now]
  /\ UNCHANGED <<serverSide, browserSide>>

RecordIgnoresJobs(x) ==   \* only input is activity
  /\ calls[x].pc = "write"
  /\ IF x[2] = "user" THEN Upsert("user", calls[x].at) ELSE UNCHANGED serverSide
  /\ calls' = [calls EXCEPT ![x] = [@ EXCEPT !.pc = "kept", !.at = 0, !.row = stored']]
  /\ UNCHANGED browserSide

(* ... sets the column of its kind to it, ...                              *)
RecordActivity(x) ==
  /\ calls[x].pc = "write"
  /\ Upsert(x[2], calls[x].at)
  /\ calls' = [calls EXCEPT ![x] = [@ EXCEPT !.pc = "kept", !.at = 0, !.row = stored']]
  /\ UNCHANGED browserSide

RememberNow(x) ==   \* a heartbeat of either kind, as the cache sees it
  /\ calls[x].pc = "kept"
  /\ cache' = [cache EXCEPT ![calls[x].inst] = [calls[x].row EXCEPT !.user = now]]
  /\ calls' = [calls EXCEPT ![x] = [NoCall EXCEPT !.pc = "ok"]]
  /\ UNCHANGED <<stored, earned, refused, browserSide>>

(* ... and caches the row that came back.                                  *)
Remember(x) ==
  /\ calls[x].pc = "kept"
  /\ cache' = [cache EXCEPT ![calls[x].inst] = calls[x].row]
  /\ calls' = [calls EXCEPT ![x] = [NoCall EXCEPT !.pc = "ok"]]
  /\ UNCHANGED <<stored, earned, refused, browserSide>>

Serves(x) == \/ \E i \in scene.instances : Arrive(x, i)
             \/ ReadTimes(x) \/ FirstWrite(x) \/ Decide(x)
             \/ Stamp(x) \/ RecordActivity(x) \/ Remember(x)

CallLost(x) == /\ "lost" \in scene.hitches
               /\ x[2] # "api" /\ calls[x].pc \in {"sent", "ok"}
               /\ calls' = [calls EXCEPT ![x] = [NoCall EXCEPT !.pc = "failed"]]
               /\ UNCHANGED <<serverSide, browserSide>>

-----------------------------------------------------------------------------
(* The browser.                                                            *)
Sent == [NoCall EXCEPT !.pc = "sent"]

(* A heartbeat under way is still answered.                                *)
Expires(t) == /\ tab' = [tab EXCEPT ![t].expired = TRUE, ![t].ran = FALSE]
              /\ over' = TRUE

SendsUser(t) == calls[<<t, "user">>].pc = "none"
SendsJob(t) == calls[<<t, "job">>].pc = "none"

(* tick(), about once a second: signs out, or sends what heartbeats are    *)
(* due.  The shared fields keep the other tabs from sending the same.      *)
(* Protected flows start and end at any time: `running`, localJobCount().  *)
TickTab(t, running) ==
  LET user == /\ shown.user > beats.covers /\ now >= beats.sent + UserBeat
              /\ SendsUser(t)
      job == running /\ now >= beats.jobSent + JobBeat /\ SendsJob(t)
  IN  /\ ~tab[t].expired /\ ~tab[t].ran
      /\ IF now >= SessionDeadline(shown)
         THEN Expires(t) /\ UNCHANGED <<calls, shown, beats>>
         ELSE /\ calls' = [x \in Calls |-> IF (x = <<t, "user">> /\ user) \/ (x = <<t, "job">> /\ job)
                                           THEN Sent ELSE calls[x]]
              /\ beats' = [sent |-> IF user THEN now ELSE beats.sent,
                           covers |-> IF user THEN shown.user ELSE beats.covers,
                           jobSent |-> IF job THEN now ELSE beats.jobSent]
              /\ tab' = [tab EXCEPT ![t].ran = TRUE,
                           ![t].covering = IF user THEN shown.user ELSE tab[t].covering,
                           ![t].before = IF user THEN beats.covers ELSE tab[t].before,
                           ![t].jobAt = IF job THEN now ELSE tab[t].jobAt]
              /\ UNCHANGED <<shown, over>>
      /\ UNCHANGED serverSide

(* recordActivity(): input counts until the warning is up.                 *)
UserActs(t) ==
  /\ ~tab[t].expired
  /\ SessionDeadline(shown) > now + WarningTime
  /\ shown' = [shown EXCEPT !.user = now]
  /\ UNCHANGED <<serverSide, calls, beats, over, tab>>

(* staySignedIn(), in the warning: reported at once, unless a heartbeat is *)
(* under way.                                                              *)
StaySignedIn(t) ==
  /\ ~tab[t].expired
  /\ SessionDeadline(shown) \in now + 1 .. now + WarningTime
  /\ shown' = [shown EXCEPT !.user = now]
  /\ IF SendsUser(t)
     THEN /\ calls' = [calls EXCEPT ![<<t, "user">>] = Sent]
          /\ beats' = [beats EXCEPT !.sent = now, !.covers = now]
          /\ tab' = [tab EXCEPT ![t].covering = now, ![t].before = beats.covers]
     ELSE UNCHANGED <<calls, beats, tab>>
  /\ UNCHANGED <<serverSide, over>>

(* The other answer to the warning.                                        *)
SignOutNow(t) == /\ ~tab[t].expired
                 /\ SessionDeadline(shown) \in now + 1 .. now + WarningTime
                 /\ Expires(t)
                 /\ UNCHANGED <<serverSide, calls, shown, beats>>

(* Any other request of the page.                                          *)
CallApi(t) == /\ ~tab[t].expired /\ calls[<<t, "api">>].pc = "none"
              /\ calls' = [calls EXCEPT ![<<t, "api">>] = Sent]
              /\ UNCHANGED <<serverSide, browserSide>>

HearResultLeaves(t, k) ==   \* an undelivered heartbeat stays claimed
  LET x == <<t, k>> IN
  /\ calls[x].pc \in {"ok", "idle", "failed"}
  /\ calls' = [calls EXCEPT ![x] = NoCall]
  /\ IF calls[x].pc = "idle" /\ ~tab[t].expired THEN Expires(t) ELSE UNCHANGED <<tab, over>>
  /\ shown' = IF k = "job" THEN [shown EXCEPT !.job = now] ELSE shown
  /\ UNCHANGED <<serverSide, beats>>

(* The answer to a call.  A heartbeat that was not delivered is carried by *)
(* the next one; a job extends the countdown from when it was sent.        *)
HearResult(t, k) ==
  LET x == <<t, k>>
      result == calls[x].pc
  IN  /\ result \in {"ok", "idle", "failed"}
      /\ calls' = [calls EXCEPT ![x] = NoCall]
      /\ beats' = IF k = "user" /\ result = "failed" /\ beats.covers = tab[t].covering
                  THEN [beats EXCEPT !.covers = tab[t].before] ELSE beats
      /\ shown' = IF k = "job" /\ result = "ok"
                  THEN [shown EXCEPT !.job = Later(shown.job, tab[t].jobAt)] ELSE shown
      /\ tab' = [tab EXCEPT ![t].expired = @ \/ result = "idle",
                            ![t].covering = IF k = "user" THEN 0 ELSE @,
                            ![t].before = IF k = "user" THEN 0 ELSE @,
                            ![t].jobAt = IF k = "job" THEN 0 ELSE @]
      /\ over' = (over \/ result = "idle")
      /\ UNCHANGED serverSide

(* The storage event of another tab's expire().                            *)
HearExpired(t) == /\ over /\ ~tab[t].expired
                  /\ Expires(t)
                  /\ UNCHANGED <<serverSide, calls, shown, beats>>

(* The clock does not wait for a slow call, nor for a tab that is          *)
(* "asleep": every other tab looks at it once a tick.                      *)
ClockTicks ==
  /\ now < LastTime
  /\ \A x \in Calls \ scene.slow : calls[x].pc = "none"
  /\ "asleep" \in scene.hitches \/ \A t \in Tabs : tab[t].ran \/ tab[t].expired
  /\ now' = now + 1
  /\ tab' = [t \in Tabs |-> [tab[t] EXCEPT !.ran = FALSE]]
  /\ UNCHANGED <<scene, serverSide, calls, shown, beats, over>>

Acts(t) == \/ \E running \in {FALSE, scene.flows} : TickTab(t, running)
           \/ UserActs(t) \/ StaySignedIn(t) \/ SignOutNow(t) \/ CallApi(t)
           \/ HearExpired(t)
           \/ \E k \in {"user", "job", "api"} : HearResult(t, k)

SessionNext == \/ /\ (\E x \in Calls : Serves(x) \/ CallLost(x)) \/ (\E t \in Tabs : Acts(t))
                  /\ UNCHANGED <<scene, now>>
               \/ ClockTicks

SessionSpec == SessionInit /\ [][SessionNext]_sessionVars

-----------------------------------------------------------------------------
(* What the row, the caches, the calls and the storage can be.             *)
SessionTypeOK ==
  /\ scene \in SessionScenarios /\ now \in Times
  /\ refused \in BOOLEAN /\ over \in BOOLEAN
  /\ stored \in ActivityTimes /\ earned \in ActivityTimes /\ shown \in ActivityTimes
  /\ cache \in [Instances -> ActivityTimes]
  /\ calls \in [Calls -> SessionCall]
  /\ beats \in [sent : Times, covers : Times, jobSent : Times]
  /\ tab \in [Tabs -> Tab]

(* "An expired session can never be revived", nor does the "stored         *)
(* deadline" of a rejected one move: false, as the late heartbeat shows.   *)
NeverRevived == refused => SessionDeadline(stored) <= now

(* A session past its deadline, and no request from before it under way:   *)
(* none will be told of a deadline in the future, by the row or a cache.   *)
Overdue(x) ==
  LET c == calls[x] IN
  \/ c.pc \in {"none", "sent", "ok", "idle", "failed"}
  \/ c.pc = "read" /\ SessionDeadline(stored) <= c.at
  \/ c.pc = "told" /\ SessionDeadline(c.row) <= c.at
  \/ c.pc = "kept" /\ SessionDeadline(c.row) <= now

Ended ==
  /\ stored.user > 0 /\ SessionDeadline(stored) <= now
  /\ \A i \in Instances : ~Trusted(i)
  /\ \A x \in Calls : Overdue(x)

(* "A session past its deadline is rejected, and keeps being rejected: its *)
(* stored deadline does not move", once the requests from before are over, *)
(* whichever instance answers: nothing that is sent later revives it.      *)
EndsForGood == [][Ended => Ended' /\ UNCHANGED stored]_sessionVars

(* "Trusting it while it is still in the future is always safe": whatever  *)
(* order rows are written and cached in, no request passes the guard at a  *)
(* time that no recorded heartbeat kept the session alive to.              *)
CameAt(x) == IF calls[x].pc = "sent" THEN now ELSE calls[x].at

PassesInTime == [][
  \A x \in Calls :
    calls[x].pc \in {"sent", "read", "first", "told"} /\ calls'[x].pc \in {"none", "passed"}
      => CameAt(x) < SessionDeadline(earned)]_sessionVars

(* The last input, once a heartbeat has claimed it, was recorded or is     *)
(* under way: one that was lost is carried by the next.  An earlier input  *)
(* may stay claimed and unrecorded: two tabs claim one after the other,    *)
(* both heartbeats are lost, and the claim goes back to the first of them. *)
InputReported ==
  (~refused /\ shown.user <= beats.covers /\ \A t \in Tabs : calls[<<t, "user">>].pc = "none")
    => shown.user <= earned.user

(* "The server always has a deadline at least as late as the one shown":   *)
(* with every heartbeat sent, delivered and recorded within the tick, it   *)
(* does not end a session the browser still counts down.                   *)
ServerOutlasts == [][
  (scene.hitches = {} /\ scene.slow = {} /\ refused' /\ ~refused) => SessionDeadline(shown) <= now]_sessionVars
=============================================================================
