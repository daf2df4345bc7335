------------------------------ MODULE CadTicks ------------------------------
(***************************************************************************)
(* The loop around the CAD runner of each backend process (wake and tick,  *)
(* cad-upload-runner.ts): it claims until nothing is left, looks whether   *)
(* it was woken meanwhile, maintains and sleeps until a wake or a poll.    *)
(* What it does with a claim is BackendRunner.  Here without the Rust      *)
(* core: with it the claims are of analysed uploads, which wake nobody.    *)
(***************************************************************************)
EXTENDS Naturals

CONSTANTS
  Processes,   \* the backend processes
  Arrivals,    \* requests that queue an upload, or queue it again: a bound
  HomeOf       \* the process that handles each

ASSUME TicksAssumption == HomeOf \in [Arrivals -> Processes]

VARIABLES
  tick,      \* per process: where its tick is, wakeRequested, its claim
  arrival    \* per request: how far it is, and the row it queued

tickVars == <<tick, arrival>>

NoClaim == "no claim"

(* `empty`: the database found nothing to claim, its answer is on its way. *)
Tick == [pc : {"asleep", "claim", "work", "empty", "maintain"},
         wakeRequested : BOOLEAN, on : Arrivals \cup {NoClaim}]

(* `new`: queued and not claimed yet; `again`: to be claimed once more.    *)
Arrival == [pc : {"insert", "wake", "over"},
            row : {"none", "new", "working", "again", "ended"}]

Sleeping == [pc |-> "asleep", wakeRequested |-> FALSE, on |-> NoClaim]

TicksInit == /\ tick = [b \in Processes |-> Sleeping]
             /\ arrival = [u \in Arrivals |-> [pc |-> "insert", row |-> "none"]]

Waiting == {u \in Arrivals : arrival[u].row \in {"new", "again"}}

Drains == [pc |-> "claim", wakeRequested |-> FALSE, on |-> NoClaim]

-----------------------------------------------------------------------------
(* create() and requeue(): the row is queued, then the runner is woken.    *)
InsertRow(u) == /\ arrival[u].pc = "insert"
                /\ arrival' = [arrival EXCEPT ![u] = [pc |-> "wake", row |-> "new"]]
                /\ tick' = tick

WokenIfAsleep(b) ==   \* a tick that finds one running forgets that it was asked
  IF tick[b].pc = "asleep" THEN Drains ELSE tick[b]

(* wake(): an idle loop starts, a busy one remembers that it was asked.    *)
Woken(b) == IF tick[b].pc = "asleep" THEN Drains
            ELSE [tick[b] EXCEPT !.wakeRequested = TRUE]

Wake(u) == /\ arrival[u].pc = "wake"
           /\ arrival' = [arrival EXCEPT ![u].pc = "over"]
           /\ tick' = [tick EXCEPT ![HomeOf[u]] = Woken(HomeOf[u])]

PollTick(b) == /\ tick[b].pc = "asleep"
               /\ tick' = [tick EXCEPT ![b] = Drains]
               /\ arrival' = arrival

(* runNext(): any of the rows that wait, of whichever process.             *)
ClaimRow(b) ==
  /\ tick[b].pc = "claim"
  /\ \/ \E u \in Waiting :
          /\ arrival' = [arrival EXCEPT ![u].row = "working"]
          /\ tick' = [tick EXCEPT ![b].pc = "work", ![b].on = u]
     \/ /\ Waiting = {} /\ arrival' = arrival
        /\ tick' = [tick EXCEPT ![b].pc = "empty"]

(* The claim throws, also when it took effect: the tick is over.           *)
ClaimThrows(b) ==
  /\ tick[b].pc = "claim"
  /\ \/ arrival' = arrival
     \/ \E u \in Waiting : arrival' = [arrival EXCEPT ![u].row = "working"]
  /\ tick' = [tick EXCEPT ![b].pc = "asleep"]

(* The attempt ends, is to be retried, or how it ended is not recorded.    *)
EndAttempt(b) ==
  /\ tick[b].pc = "work"
  /\ \E row \in {"ended", "again", arrival[tick[b].on].row} :
       arrival' = [arrival EXCEPT ![tick[b].on].row = row]
  /\ tick' = [tick EXCEPT ![b].pc = "claim", ![b].on = NoClaim]

(* The do loop: once more if a wake came since it began, else maintain().  *)
LeaveDrain(b) ==
  /\ tick[b].pc = "empty"
  /\ tick' = [tick EXCEPT ![b] =
       IF tick[b].wakeRequested THEN Drains ELSE [tick[b] EXCEPT !.pc = "maintain"]]
  /\ arrival' = arrival

(* A wake since the loop was left is remembered, and reset unread.         *)
EndTick(b) == /\ tick[b].pc = "maintain"
              /\ tick' = [tick EXCEPT ![b].pc = "asleep"]
              /\ arrival' = arrival

(* A claim runs out of its window, and perhaps out of attempts.            *)
RowStale(u) == /\ arrival[u].row = "working"
               /\ \E row \in {"again", "ended"} : arrival' = [arrival EXCEPT ![u].row = row]
               /\ tick' = tick

(* A process dies, and its requests with it, and starts again.             *)
ProcessDies(b) ==
  /\ tick' = [tick EXCEPT ![b] = Sleeping]
  /\ arrival' = [u \in Arrivals |-> IF HomeOf[u] = b /\ arrival[u].pc = "wake"
                                    THEN [arrival[u] EXCEPT !.pc = "over"] ELSE arrival[u]]

TicksNext ==
  \/ \E u \in Arrivals : InsertRow(u) \/ Wake(u) \/ RowStale(u)
  \/ \E b \in Processes : \/ PollTick(b) \/ ClaimRow(b) \/ ClaimThrows(b) \/ EndAttempt(b)
                          \/ LeaveDrain(b) \/ EndTick(b) \/ ProcessDies(b)

TicksSpec == TicksInit /\ [][TicksNext]_tickVars

-----------------------------------------------------------------------------
(* What the loops and the requests can be.                                 *)
TicksTypeOK == /\ tick \in [Processes -> Tick]
               /\ arrival \in [Arrivals -> Arrival]

(* The uploads a loop was woken for that nobody has claimed yet.           *)
Unheard(b) == {u \in Arrivals : /\ HomeOf[u] = b /\ arrival[u].pc = "over"
                                /\ arrival[u].row = "new"}

(* "an upload queued while the last claim came back empty" is not left to  *)
(* the poll: a drain ends only when no upload it was woken for waits, in   *)
(* whatever order the rows, the wakes and the claims of all processes go.  *)
DrainsHeard ==
  [][\A b \in Processes :
       tick[b].pc = "empty" /\ tick'[b].pc = "maintain" => Unheard(b) = {}]_tickVars
=============================================================================
