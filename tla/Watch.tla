-------------------------------- MODULE Watch ---------------------------------
(***************************************************************************)
(* hub/watch-scheduler.mjs with hub/uptime-record.mjs, hub/receipt.mjs and *)
(* hub/idle-timer.mjs: unattended runs on a cadence, the daemon's record   *)
(* of having been up, and the freshness receipt computed from the two.     *)
(*                                                                         *)
(* One unit of the clock is a minute, which is the period of the poll and  *)
(* of the heartbeat and the tolerance of the uptime check.  A tick of the  *)
(* poll runs in one turn of the event loop up to the first watch it fires, *)
(* and from each executeRun that returns to the next; ticks may overlap.   *)
(* The run itself is RunEngine's subject: it returns, or throws.  A watch  *)
(* whose pack is gone throws before it starts a run.  Every watch has the  *)
(* same cadence here.  A machine asleep fires no timer.                    *)
(***************************************************************************)
EXTENDS Naturals, Sequences, FiniteSets, SequencesExt

CONSTANTS Ids,          \* watch ids
          Gone,         \* the ones whose pack no longer resolves
          Throwing,     \* the ones whose run throws
          TickIds,      \* bound: ticks of the poll under way at a time
          Cadence,      \* one interval of a watch
          IdleTimeout,  \* config.idleTimeoutMs
          NoWatch,      \* no watch, no run, no time
          MaxMade,      \* bound: times a watch is created under one id
          MaxRevoked,   \* bound: ids out of use because their watch was revoked
          Requests,     \* bound: whether requests other than about watches leave a tab open or not
          MaxStops,     \* bound: times the operator stops the daemon
          MaxCrashes,   \* bound: crashes of the daemon
          MaxSleeps,    \* bound: minutes the machine is asleep
          MaxTime       \* bound: last instant of the clock

ASSUME WatchAssumption ==
    /\ Gone \subseteq Ids /\ Throwing \subseteq Ids
    /\ Cadence \in Nat \ {0} /\ IdleTimeout \in Nat \ {0}
    /\ NoWatch \notin Nat \cup [id : Ids, created : Nat] \cup [at : Nat, expectedBy : Nat]
    /\ Requests \subseteq BOOLEAN /\ MaxRevoked \in Nat
    /\ MaxMade \in Nat /\ MaxStops \in Nat /\ MaxCrashes \in Nat /\ MaxSleeps \in Nat /\ MaxTime \in Nat

VARIABLES watches,      \* watches.json, in the order of creation
          watchRuns,    \* table watch_runs: id -> last_fired_at, expected_by
          uptime,       \* stream helmd_uptime of the journal: intervals
          up,           \* the daemon is running
          periodStart,  \* in memory: start of the heartbeat's interval
          polled,       \* the poll of this minute has come
          ticks,        \* tick -> its instant, what it still has to look at, what it fires
          idleCheck,    \* when the idle timer goes off
          tab,          \* something holds the daemon open: a tab, a run, a pairing window
          clock,
          started,      \* id -> of its runs so far [n, at, now, alone]: how many, when the last one
                        \* started, the instant of its tick, no other under way then (history)
          ended,        \* id -> the last run that returned with no other one of its watch under
                        \* way from start to end (history)
          awake,        \* instants at which the daemon did something (history)
          made, stops, crashes,  \* how many so far
          slept         \* minutes the machine spent asleep, by their first instant

disk == <<watches, watchRuns, uptime>>
bounds == <<made, stops, crashes, slept>>
vars == <<disk, up, periodStart, polled, ticks, idleCheck, tab, clock, started, ended, awake, bounds>>

Tolerance == 1
Idle == [now |-> 0, todo |-> <<>>, firing |-> NoWatch, expectedBy |-> 0]
-----------------------------------------------------------------------------
(* watches.json.  A request that passes the server's authentication puts   *)
(* the idle timer back.                                                    *)

authenticated == idleCheck' = clock + IdleTimeout

WatchIds == {watches[i].id : i \in DOMAIN watches}

CreateWatch(id) ==
    /\ up
    /\ id \notin WatchIds
    /\ made[id] < MaxMade
    /\ made' = [made EXCEPT ![id] = @ + 1]
    /\ watches' = Append(watches, [id |-> id, created |-> clock])
    /\ authenticated
    /\ UNCHANGED <<watchRuns, uptime, up, periodStart, polled, ticks, tab, clock,
                   started, ended, awake, stops, crashes, slept>>

RevokeWatch(id) ==
    /\ up
    /\ Cardinality({w \in Ids : made[w] > 0} \ WatchIds) < MaxRevoked
    /\ \E i \in DOMAIN watches : watches[i].id = id /\ watches' = RemoveAt(watches, i)
    /\ authenticated
    /\ UNCHANGED <<watchRuns, uptime, up, periodStart, polled, ticks, tab, clock,
                   started, ended, awake, bounds>>
-----------------------------------------------------------------------------
(* The poll.                                                               *)

\* Mistaken form: a watch that never fired counts from the beginning.
BaselineFromZero(w, runs) == IF runs[w.id] = NoWatch THEN 0 ELSE runs[w.id].at

watchBaseline(w, runs) == IF runs[w.id] = NoWatch THEN w.created ELSE runs[w.id].at

isWatchDue(w, now, runs) == now >= watchBaseline(w, runs) + Cadence

\* the first watch of the list that is due and starts a run
FirstToFire(todo, now, runs) ==
    LET Fires(i) == isWatchDue(todo[i], now, runs) /\ todo[i].id \notin Gone
    IN  {i \in DOMAIN todo : Fires(i) /\ \A j \in 1..(i - 1) : ~Fires(j)}

BeingFired(id) == \E t \in TickIds : ticks[t] # Idle /\ ticks[t].firing.id = id

\* from the start of the tick, or the end of a run, to the next run or the end of the list
Proceed(t, now, todo, runs) ==
    LET first == FirstToFire(todo, now, runs)
    IN  \/ /\ first = {}
           /\ ticks' = [ticks EXCEPT ![t] = Idle]
           /\ UNCHANGED started
        \/ \E i \in first :
              /\ ticks' = [ticks EXCEPT ![t] =
                    [now |-> now, todo |-> SubSeq(todo, i + 1, Len(todo)), firing |-> todo[i],
                     expectedBy |-> watchBaseline(todo[i], runs) + Cadence]]
              /\ started' = [started EXCEPT ![todo[i].id] =
                    [n |-> @.n + 1, at |-> clock, now |-> now, alone |-> ~BeingFired(todo[i].id)]]

StartTick(t) ==
    /\ up /\ ~polled
    /\ ticks[t] = Idle
    /\ polled' = TRUE
    /\ Proceed(t, clock, watches, watchRuns)
    /\ UNCHANGED <<disk, up, periodStart, idleCheck, tab, clock, ended, awake, bounds>>

\* Mistaken form: the window the run was for is not kept.
RecordNoWindow(t) ==
    watchRuns' = [watchRuns EXCEPT ![ticks[t].firing.id] =
                     [at |-> ticks[t].now, expectedBy |-> NoWatch]]

\* Mistaken form: nothing is recorded.
RecordNothing(t) == watchRuns' = watchRuns

recordFired(t) ==
    watchRuns' = [watchRuns EXCEPT ![ticks[t].firing.id] =
                     [at |-> ticks[t].now, expectedBy |-> ticks[t].expectedBy]]

FireReturns(t) ==
    /\ ticks[t] # Idle /\ ticks[t].firing.id \notin Throwing
    /\ recordFired(t)
    /\ LET id == ticks[t].firing.id
       IN  ended' = IF started[id].alone THEN [ended EXCEPT ![id] = started[id].n] ELSE ended
    /\ Proceed(t, ticks[t].now, ticks[t].todo, watchRuns')
    /\ UNCHANGED <<watches, uptime, up, periodStart, polled, idleCheck, tab, clock,
                   awake, bounds>>

\* Mistaken form: a run that throws ends the tick for the watches after it.
FireThrowsEndsTick(t) ==
    /\ ticks[t] # Idle /\ ticks[t].firing.id \in Throwing
    /\ ticks' = [ticks EXCEPT ![t] = Idle]
    /\ UNCHANGED <<disk, up, periodStart, polled, idleCheck, tab, clock, started, ended,
                   awake, bounds>>

FireThrows(t) ==
    /\ ticks[t] # Idle /\ ticks[t].firing.id \in Throwing
    /\ Proceed(t, ticks[t].now, ticks[t].todo, watchRuns)
    /\ UNCHANGED <<disk, up, periodStart, polled, idleCheck, tab, clock, ended, awake,
                   bounds>>
-----------------------------------------------------------------------------
(* The freshness receipt.                                                  *)

\* Mistaken form: the gaps between the intervals are not looked at.
UpAtBothEnds(from, to) ==
    LET inWindow == {u \in uptime : u.to > from /\ u.from < to}
    IN  /\ \E u \in inWindow : u.from <= from + Tolerance
        /\ \E u \in inWindow : u.to + Tolerance >= to

\* Mistaken form: the end of the window is not looked at.
UpSinceItsStart(from, to) ==
    LET inWindow == {u \in uptime : u.to > from /\ u.from < to}
        Joined(u) == \E v \in inWindow : v.from < u.from /\ u.from <= v.to + Tolerance
    IN  /\ \E u \in inWindow : u.from <= from + Tolerance
        /\ \A u \in inWindow : Joined(u) \/ \A v \in inWindow : u.from <= v.from

\* sorted by their start, each interval begins before the ones before it have left a gap
isWindowContinuouslyUp(from, to) ==
    LET inWindow == {u \in uptime : u.to > from /\ u.from < to}
        Joined(u) == \E v \in inWindow : v.from < u.from /\ u.from <= v.to + Tolerance
    IN  /\ \E u \in inWindow : u.from <= from + Tolerance
        /\ \A u \in inWindow : Joined(u) \/ \A v \in inWindow : u.from <= v.from
        /\ \E u \in inWindow : u.to + Tolerance >= to

\* Mistaken form: any earlier run will do.
ReceiptOfAnyRun(w) ==
    IF watchRuns[w.id] # NoWatch THEN "ran"
    ELSE IF isWindowContinuouslyUp(watchBaseline(w, watchRuns),
                                   watchBaseline(w, watchRuns) + Cadence)
         THEN "evidence_of_non_run"
         ELSE "no_evidence_of_run"

computeFreshnessReceipt(w) ==
    IF ~isWatchDue(w, clock, watchRuns) /\ watchRuns[w.id] # NoWatch THEN "ran"
    ELSE IF isWindowContinuouslyUp(watchBaseline(w, watchRuns),
                                   watchBaseline(w, watchRuns) + Cadence)
         THEN "evidence_of_non_run"
         ELSE "no_evidence_of_run"
-----------------------------------------------------------------------------
(* The heartbeat, the idle timer, and how the daemon starts and ends.      *)

closeInterval == uptime' = uptime \cup {[from |-> periodStart, to |-> clock]}

Heartbeat ==
    /\ up /\ periodStart < clock
    /\ closeInterval
    /\ periodStart' = clock
    /\ awake' = awake \cup {clock}
    /\ UNCHANGED <<watches, watchRuns, up, polled, ticks, idleCheck, tab, clock, started,
                   ended, bounds>>

\* the first poll and heartbeat come a period after the start
Start ==
    /\ ~up
    /\ up' = TRUE /\ polled' = TRUE /\ periodStart' = clock /\ idleCheck' = clock + IdleTimeout
    /\ awake' = awake \cup {clock}
    /\ UNCHANGED <<disk, ticks, tab, clock, started, ended, bounds>>

Down ==
    /\ up' = FALSE /\ tab' = FALSE
    /\ ticks' = [t \in TickIds |-> Idle]

\* process.exit: the exit handler closes the interval, runs under way are dropped
GracefulExit ==
    /\ Down /\ closeInterval
    /\ awake' = awake \cup {clock}
    /\ UNCHANGED <<watches, watchRuns, periodStart, polled, idleCheck, clock, started,
                   ended, made, crashes, slept>>

StopVerb == up /\ stops < MaxStops /\ stops' = stops + 1 /\ GracefulExit

IdleDefers ==
    /\ up /\ clock >= idleCheck /\ tab
    /\ idleCheck' = clock + IdleTimeout
    /\ UNCHANGED <<disk, up, periodStart, polled, ticks, tab, clock, started, ended,
                   awake, bounds>>

IdleExits == up /\ clock >= idleCheck /\ ~tab /\ UNCHANGED stops /\ GracefulExit

\* an authenticated request, with which a tab may be opened or closed
Activity(open) ==
    /\ up
    /\ authenticated
    /\ tab' = open
    /\ <<idleCheck, tab>>' # <<idleCheck, tab>>
    /\ UNCHANGED <<disk, up, periodStart, polled, ticks, clock, started, ended, awake,
                   bounds>>

Crash ==
    /\ up /\ crashes < MaxCrashes
    /\ crashes' = crashes + 1
    /\ Down
    /\ UNCHANGED <<disk, periodStart, polled, idleCheck, clock, started, ended, awake,
                   made, stops, slept>>

\* a minute passes; while the daemon runs its timers have gone off
Minute ==
    /\ clock < MaxTime
    /\ up => polled /\ periodStart = clock /\ idleCheck > clock
    /\ clock' = clock + 1
    /\ polled' = FALSE
    /\ UNCHANGED <<disk, up, periodStart, ticks, idleCheck, tab, started, ended, awake,
                   bounds>>

\* a minute passes with the machine asleep
Sleep ==
    /\ clock < MaxTime
    /\ up /\ Cardinality(slept) < MaxSleeps
    /\ slept' = slept \cup {clock}
    /\ clock' = clock + 1
    /\ polled' = FALSE
    /\ UNCHANGED <<disk, up, periodStart, ticks, idleCheck, tab, started, ended, awake,
                   made, stops, crashes>>

Init ==
    /\ watches = <<>> /\ uptime = {}
    /\ watchRuns = [id \in Ids |-> NoWatch]
    /\ up = FALSE /\ periodStart = 0 /\ polled = TRUE /\ idleCheck = 0 /\ tab = FALSE
    /\ ticks = [t \in TickIds |-> Idle]
    /\ clock = 0 /\ awake = {}
    /\ started = [id \in Ids |-> [n |-> 0, at |-> 0, now |-> 0, alone |-> FALSE]]
    /\ ended = [id \in Ids |-> 0]
    /\ made = [id \in Ids |-> 0] /\ stops = 0 /\ crashes = 0 /\ slept = {}

Next ==
    \/ \E id \in Ids : CreateWatch(id) \/ RevokeWatch(id)
    \/ \E t \in TickIds : StartTick(t) \/ FireReturns(t) \/ FireThrows(t)
    \/ Heartbeat
    \/ Start \/ StopVerb \/ Crash
    \/ IdleDefers \/ IdleExits
    \/ \E open \in Requests : Activity(open)
    \/ Minute \/ Sleep

Spec == Init /\ [][Next]_vars

\* Timers go off, runs return and time passes while the daemon is up.
Fairness ==
    /\ WF_vars(Heartbeat) /\ WF_vars(Minute) /\ WF_vars(IdleDefers) /\ WF_vars(IdleExits)
    /\ WF_vars(\E t \in TickIds : StartTick(t))
    /\ \A t \in TickIds : WF_vars(FireReturns(t) \/ FireThrows(t))

FairSpec == Spec /\ Fairness
-----------------------------------------------------------------------------
Active == {watches[i] : i \in DOMAIN watches}

WatchRecord == [id : Ids, created : 0..MaxTime]

\* Every variable holds values of its kind, and no two watches in force share an id.
WatchTypeOK ==
    /\ Active \subseteq WatchRecord
    /\ \A i, j \in DOMAIN watches : watches[i].id = watches[j].id => i = j
    /\ watchRuns \in [Ids -> [at : 0..MaxTime, expectedBy : Nat] \cup {NoWatch}]
    /\ uptime \subseteq [from : 0..MaxTime, to : 0..MaxTime]
    /\ up \in BOOLEAN /\ polled \in BOOLEAN /\ tab \in BOOLEAN
    /\ \A t \in TickIds : ticks[t] # Idle => up /\ ticks[t].firing \in WatchRecord

\* After a run that was the only one of its watch from start to end, and did not throw,
\* the next is one of a tick at least a cadence later than its own, whatever other ticks
\* did meanwhile, however long they and the runs before it in the list took. Runs start
\* closer together only by that wait, or when one was overtaken by another or cut off.
\* (A watch whose runs throw is started again at every poll.)
SpacedByCadence ==
    [][ \A id \in Ids \ Throwing : started'[id] # started[id]
            => \/ started[id].n = 0 \/ ended[id] # started[id].n
               \/ started'[id].now >= started[id].now + Cadence ]_vars

Firing(w) == \E t \in TickIds : ticks[t].firing = w

\* A watch does not run before its operator has had one cadence to look at it, if no
\* earlier watch had its id.
GracePeriod ==
    [][ \A w \in WatchRecord : ~Firing(w) /\ Firing(w)' => clock >= w.created + Cadence ]_vars

\* A watch fires once per cadence, counted from its creation.
FiresOncePerCadence == SpacedByCadence /\ GracePeriod

\* A receipt that says "ran" is about a run of this watch, started since it was created
\* and no longer ago than one cadence.
RanIsRecent ==
    \A w \in Active : computeFreshnessReceipt(w) = "ran"
        => /\ started[w.id].n > 0
           /\ started[w.id].at >= w.created
           /\ clock < started[w.id].at + Cadence

\* The daemon being down never shows as a missed run: "evidence_of_non_run" needs the
\* process to have been there at every minute within the window, seen running or on a
\* machine that was asleep, whatever crashes, stops and restarts the record is made of.
MissNeedsUptime ==
    \A w \in Active : computeFreshnessReceipt(w) = "evidence_of_non_run"
        => LET b == watchBaseline(w, watchRuns)
           IN  (b + 1)..(b + Cadence - 1) \subseteq awake \cup slept

\* A watch is never reported as missed while its window has longer to go than the minute
\* of tolerance of the uptime check, however often the daemon was restarted within it.
MissNearlyDue ==
    \A w \in Active : computeFreshnessReceipt(w) = "evidence_of_non_run"
        => isWatchDue(w, clock + Tolerance, watchRuns)

\* A receipt states what the daemon was there to see: a recent run, or a window that
\* passed without one.
ReceiptIsEvidence == RanIsRecent /\ MissNeedsUptime /\ MissNearlyDue

\* A watch that is due fires, unless it is revoked or the daemon goes down, also when the
\* runs of the watches before it throw.
DueWatchFires ==
    \A id \in Ids \ Gone :
        (\E w \in Active : w.id = id /\ up /\ clock < MaxTime /\ isWatchDue(w, clock, watchRuns))
            ~> (~up \/ id \notin WatchIds \/ BeingFired(id))
-----------------------------------------------------------------------------
(* What comments of the code say and the code does not do: see the README. *)

\* A watch fires once per cadence: two runs of it start at least one apart. One that
\* stood behind a slow run started late, and what is recorded is the tick's instant.
StartsACadenceApart ==
    [][ \A id \in Ids \ Throwing : started'[id] # started[id]
            => \/ started[id].n = 0 \/ ended[id] # started[id].n
               \/ started'[id].at >= started[id].at + Cadence ]_vars

\* The machine being asleep never shows as a missed run either.
MissNeedsWaking ==
    \A w \in Active : computeFreshnessReceipt(w) = "evidence_of_non_run"
        => LET b == watchBaseline(w, watchRuns) IN (b + 1)..(b + Cadence - 1) \subseteq awake

\* A watch whose run started in the window and ended is never reported as missed, however
\* it ended.
MissMeansNoRun ==
    \A w \in Active : computeFreshnessReceipt(w) = "evidence_of_non_run" /\ ~Firing(w)
        => started[w.id].n = 0 \/ started[w.id].at <= watchBaseline(w, watchRuns)

\* A watch that was revoked starts no run any more.
RevokedNeverFires ==
    [][ \A w \in WatchRecord : ~Firing(w) /\ Firing(w)' => w \in Active ]_vars

\* The idle timer never ends the daemon while a run is under way.
RunHoldsDaemonOpen == [][ IdleExits => \A t \in TickIds : ticks[t] = Idle ]_vars
=============================================================================
