----------------------------- MODULE WatchProofs -----------------------------
(***************************************************************************)
(* Watches, their receipts and the record of having been up, for any       *)
(* watches, ticks that overlap in any way, stops, crashes and sleeps. An   *)
(* id is created once: one that is created again takes over what was       *)
(* recorded under it, as the README says.                                  *)
(***************************************************************************)
EXTENDS Watch, SequenceTheorems, WellFoundedInduction, FiniteSetTheorems, TLAPS

-----------------------------------------------------------------------------
(* The record of having been up. What an interval says is covered: at each *)
(* of its instants the daemon did something, or the machine was asleep.    *)

\* A set of numbers that is not empty has a least one.
LEMMA LeastInstant ==
    ASSUME NEW T, T \subseteq Nat, T # {}
    PROVE  \E m \in T : \A n \in T : m <= n
<1> DEFINE less == {ss \in Nat \X Nat : ss[1] < ss[2]}
<1>1. OpToRel(<, Nat) = less
  BY Zenon DEF OpToRel
<1>2. IsWellFoundedOn(less, Nat)
  BY <1>1, NatLessThanWellFounded, Zenon
<1> HIDE DEF less
<1>3. PICK m \in T : \A y \in T : ~(<<y, m>> \in less)
  BY <1>2, WFMin, Zenon
<1>4. \A x, y \in Nat : x < y => <<x, y>> \in less
  BY Zenon DEF less
<1>5. \A y \in T : ~(y < m)
  BY <1>3, <1>4
<1>6. QED
  BY <1>5

Interval_ == [from : Nat, to : Nat]

UptimeInv ==
    /\ clock \in Nat /\ periodStart \in Nat /\ uptime \subseteq Interval_
    /\ \A u \in uptime : u.to <= clock /\ \A x \in u.from..u.to : x \in awake \cup slept
    /\ up => /\ periodStart <= clock /\ periodStart \in awake
             /\ \A x \in Nat : periodStart <= x /\ x < clock => x \in awake \cup slept

\* The heartbeat and the exit close the interval that is open.
LEMMA ClosesCovered ==
    ASSUME UptimeInv, up, closeInterval, awake' = awake \cup {clock}, UNCHANGED <<clock, slept>>
    PROVE  /\ uptime' \subseteq Interval_
           /\ \A u \in uptime' : u.to <= clock' /\ \A x \in u.from..u.to : x \in awake' \cup slept'
<1> DEFINE new == [from |-> periodStart, to |-> clock]
<1>1. uptime' = uptime \cup {new} /\ clock \in Nat /\ periodStart \in Nat
  BY DEF closeInterval, UptimeInv
<1>2. new \in Interval_ /\ new.from = periodStart /\ new.to = clock
  BY <1>1 DEF Interval_
<1>3. ASSUME NEW x \in periodStart..clock PROVE x \in awake' \cup slept'
  <2>1. x \in Nat /\ periodStart <= x /\ (x < clock \/ x = clock)
    BY <1>1
  <2>2. QED
    BY <2>1 DEF UptimeInv
<1> HIDE DEF new
<1>4. QED
  BY <1>1, <1>2, <1>3 DEF UptimeInv

\* Every step keeps the record covered.
LEMMA UptimeStep == ASSUME UptimeInv, [Next]_vars PROVE UptimeInv'
<1>1. CASE UNCHANGED <<clock, periodStart, uptime, awake, slept>> /\ (up' => up)
  BY <1>1 DEF UptimeInv
<1>2. CASE Heartbeat
  <2>1. up /\ closeInterval /\ awake' = awake \cup {clock} /\ periodStart' = clock /\ UNCHANGED <<clock, slept, up>>
    BY <1>2 DEF Heartbeat, bounds
  <2>2. clock \in Nat
    BY DEF UptimeInv
  <2>3. \A x \in Nat : ~(clock <= x /\ x < clock)
    BY <2>2
  <2>4. QED
    BY <2>1, <2>2, <2>3, ClosesCovered DEF UptimeInv
<1>3. CASE Start
  <2>1. /\ periodStart' = clock /\ awake' = awake \cup {clock} /\ UNCHANGED <<clock, slept, uptime>>
    BY <1>3 DEF Start, bounds, disk
  <2>2. clock \in Nat
    BY DEF UptimeInv
  <2>3. \A x \in Nat : ~(clock <= x /\ x < clock)
    BY <2>2
  <2>4. QED
    BY <2>1, <2>2, <2>3 DEF UptimeInv
<1>4. CASE up /\ GracefulExit
  <2>1. ~up' /\ closeInterval /\ awake' = awake \cup {clock} /\ UNCHANGED <<clock, slept, periodStart>>
    BY <1>4 DEF GracefulExit, Down
  <2>2. QED
    BY <1>4, <2>1, ClosesCovered DEF UptimeInv
<1>5. CASE Minute
  <2>1. /\ clock' = clock + 1 /\ UNCHANGED <<up, periodStart, uptime, awake, slept>>
        /\ up => periodStart = clock
    BY <1>5 DEF Minute, bounds, disk
  <2>2. clock \in Nat /\ clock' \in Nat
    BY <2>1 DEF UptimeInv
  <2>3. \A u \in uptime : u.to \in Nat /\ u.to <= clock'
    BY <2>1, <2>2 DEF UptimeInv, Interval_
  <2>4. \A x \in Nat : clock <= x /\ x < clock' => x = clock
    BY <2>1, <2>2
  <2>5. QED
    BY <2>1, <2>2, <2>3, <2>4 DEF UptimeInv
<1>6. CASE Sleep
  <2>1. /\ clock' = clock + 1 /\ UNCHANGED <<up, periodStart, uptime, awake>> /\ slept' = slept \cup {clock}
    BY <1>6 DEF Sleep, bounds, disk
  <2>2. clock \in Nat /\ clock' \in Nat
    BY <2>1 DEF UptimeInv
  <2>3. \A u \in uptime : u.to \in Nat /\ u.to <= clock'
    BY <2>1, <2>2 DEF UptimeInv, Interval_
  <2>4. \A x \in Nat : x < clock' => x < clock \/ x = clock
    BY <2>1, <2>2
  <2>5. up => periodStart <= clock'
    BY <2>1, <2>2 DEF UptimeInv
  <2>6. QED
    BY <2>1, <2>2, <2>3, <2>4, <2>5 DEF UptimeInv
<1>7. QED
  <2>1. Next \/ UNCHANGED vars
    OBVIOUS
  <2>2. CASE UNCHANGED vars
    BY <1>1, <2>2 DEF vars, disk, bounds
  <2>3. ASSUME NEW id \in Ids, CreateWatch(id) \/ RevokeWatch(id) PROVE UptimeInv'
    BY <1>1, <2>3 DEF CreateWatch, RevokeWatch, bounds
  <2>4. ASSUME NEW t \in TickIds, StartTick(t) \/ FireReturns(t) \/ FireThrows(t) PROVE UptimeInv'
    BY <1>1, <2>4 DEF StartTick, FireReturns, FireThrows, disk, bounds
  <2>5. CASE StopVerb \/ IdleExits
    BY <1>4, <2>5 DEF StopVerb, IdleExits
  <2>6. CASE Crash \/ IdleDefers
    BY <1>1, <2>6 DEF Crash, IdleDefers, Down, disk, bounds
  <2>7. ASSUME NEW open \in Requests, Activity(open) PROVE UptimeInv'
    BY <1>1, <2>7 DEF Activity, disk, bounds
  <2>8. QED
    BY <1>2, <1>3, <1>5, <1>6, <2>1, <2>2, <2>3, <2>4, <2>5, <2>6, <2>7 DEF Next

\* A window that is taken for continuously up was covered but for its two ends.
LEMMA WindowCovered ==
    ASSUME UptimeInv, NEW b \in Nat, NEW e \in Nat, isWindowContinuouslyUp(b, e), NEW x \in Nat,
           b < x, x < e
    PROVE  x \in awake \cup slept
<1> DEFINE W == {u \in uptime : u.to > b /\ u.from < e}
           Joined(u) == \E v \in W : v.from < u.from /\ u.from <= v.to + Tolerance
<1>1. /\ \E u \in W : u.from <= b + Tolerance
      /\ \A u \in W : Joined(u) \/ \A v \in W : u.from <= v.from
      /\ \E u \in W : u.to + Tolerance >= e
  BY DEF isWindowContinuouslyUp
<1>2. W \subseteq uptime /\ \A u \in W : u.from \in Nat /\ u.to \in Nat
  BY DEF UptimeInv, Interval_
<1>3. Tolerance = 1
  BY DEF Tolerance
<1>4. SUFFICES \E u \in W : u.from <= x /\ x <= u.to
  <2>1. PICK u \in W : u.from <= x /\ x <= u.to
    BY <1>4
  <2>2. x \in u.from..u.to
    BY <1>2, <2>1
  <2>3. QED
    BY <1>2, <2>1, <2>2 DEF UptimeInv
<1>5. SUFFICES ASSUME \A u \in W : ~(u.from <= x /\ x <= u.to) PROVE FALSE
  OBVIOUS
<1> DEFINE later == {u.from : u \in {v \in W : v.from > x}}
<1>6. PICK f \in later : \A g \in later : f <= g
  <2>1. PICK u \in W : u.to + 1 >= e
    BY <1>1, <1>3
  <2>2. u.from > x
    BY <1>2, <1>5, <2>1
  <2>3. later \subseteq Nat /\ later # {}
    BY <1>2, <2>1, <2>2
  <2> HIDE DEF later
  <2>4. QED
    BY <2>3, LeastInstant
<1>7. PICK u \in W : u.from > x /\ u.from = f
  BY <1>6
<1>8. \A v \in W : v.from > x => u.from <= v.from
  BY <1>6, <1>7
<1> HIDE DEF W, later
<1>9. CASE Joined(u)
  <2>1. PICK v \in W : v.from < u.from /\ u.from <= v.to + 1
    BY <1>3, <1>9
  <2>2. ~(v.from > x)
    BY <1>2, <1>7, <1>8, <2>1
  <2>3. QED
    BY <1>2, <1>5, <1>7, <2>1, <2>2
<1>10. CASE \A v \in W : u.from <= v.from
  <2>1. PICK v \in W : v.from <= b + 1
    BY <1>1, <1>3
  <2>2. QED
    BY <1>2, <1>7, <1>10, <2>1
<1>11. QED
  BY <1>1, <1>7, <1>9, <1>10
-----------------------------------------------------------------------------
(* What a watch's runs leave behind. A tick may still fire a watch that    *)
(* was revoked, so the argument is about every watch somebody still knows. *)

Elements(s) == {s[i] : i \in DOMAIN s}
MadeWatch == [id : Ids, created : Nat]
Run == [at : Nat, expectedBy : Nat]
Starts == [n : Nat, at : Nat, now : Nat, alone : BOOLEAN]
TickRecord == [now : Nat, todo : Seq(MadeWatch), firing : MadeWatch \cup {NoWatch}, expectedBy : Nat]

WatchTyped ==
    /\ clock \in Nat /\ watches \in Seq(MadeWatch) /\ watchRuns \in [Ids -> Run \cup {NoWatch}]
    /\ ticks \in [TickIds -> TickRecord] /\ made \in [Ids -> Nat]
    /\ started \in [Ids -> Starts]

\* A tick that is under way knows the watch it fires and those it has yet to look at.
KnownTo(tick) == IF tick = Idle THEN {} ELSE Elements(tick.todo) \cup {tick.firing}
Known == Elements(watches) \cup UNION {KnownTo(ticks[t]) : t \in TickIds}

\* A run of the watch was started, at this instant or after it.
Since(starts, at) == starts.n > 0 /\ starts.at >= at

RunsInv ==
    /\ \A v, w \in Known : v.id = w.id => v = w
    /\ \A w \in Known : w \in MadeWatch /\ made[w.id] > 0 /\ w.created <= clock
    /\ \A w \in Known : watchRuns[w.id] # NoWatch => watchRuns[w.id].at >= w.created
    /\ \A w \in Ids : watchRuns[w] # NoWatch => made[w] > 0 /\ Since(started[w], watchRuns[w].at)
    /\ \A w \in Ids : started[w].at <= clock
    /\ \A t \in TickIds : ticks[t] # Idle =>
          /\ ticks[t].now <= clock /\ Since(started[ticks[t].firing.id], ticks[t].now)
          /\ \A w \in KnownTo(ticks[t]) : w.created <= ticks[t].now

\* A part of a list has no elements of its own.
LEMMA RestOf ==
    ASSUME NEW s \in Seq(MadeWatch), NEW i \in DOMAIN s
    PROVE  /\ SubSeq(s, i + 1, Len(s)) \in Seq(MadeWatch)
           /\ Elements(SubSeq(s, i + 1, Len(s))) \subseteq Elements(s)
           /\ Len(SubSeq(s, i + 1, Len(s))) = Len(s) - i
           /\ \A j \in 1..(Len(s) - i) : SubSeq(s, i + 1, Len(s))[j] = s[i + j]
<1>1. Len(s) \in Nat /\ i \in 1..Len(s) /\ i + 1 \in 1..(Len(s) + 1) /\ DOMAIN s = 1..Len(s)
  OBVIOUS
<1> DEFINE r == SubSeq(s, i + 1, Len(s))
<1>2. /\ r \in Seq(MadeWatch) /\ Len(r) = Len(s) - i
      /\ \A j \in 1..(Len(s) - i) : r[j] = s[i + j]
  <2>1. CASE i + 1 <= Len(s)
    <3>1. \A j \in (i + 1)..Len(s) : s[j] \in MadeWatch
      BY <1>1
    <3>2. /\ r \in Seq(MadeWatch) /\ Len(r) = Len(s) - (i + 1) + 1
          /\ \A j \in 1..(Len(s) - (i + 1) + 1) : r[j] = s[(i + 1) + j - 1]
      BY <1>1, <2>1, <3>1, SubSeqProperties
    <3>3. QED
      BY <1>1, <3>2
  <2>2. CASE i = Len(s)
    <3>1. r = <<>>
      BY <1>1, <2>2
    <3>2. QED
      BY <1>1, <2>2, <3>1
  <2>3. QED
    BY <1>1, <2>1, <2>2
<1> HIDE DEF r
<1>3. \A j \in DOMAIN r : i + j \in DOMAIN s /\ r[j] = s[i + j]
  BY <1>1, <1>2
<1>4. QED
  BY <1>2, <1>3 DEF Elements, r

\* What is left when one is taken out.
LEMMA RemoveOne ==
    ASSUME NEW s \in Seq(MadeWatch), NEW i \in DOMAIN s
    PROVE  /\ RemoveAt(s, i) \in Seq(MadeWatch) /\ Len(RemoveAt(s, i)) = Len(s) - 1
           /\ \A j \in 1..(Len(s) - 1) : RemoveAt(s, i)[j] = IF j < i THEN s[j] ELSE s[j + 1]
<1>1. Len(s) \in Nat /\ i \in 1..Len(s) /\ DOMAIN s = 1..Len(s) /\ i \in Nat /\ i <= Len(s) /\ 1 <= i
  OBVIOUS
<1> DEFINE p == SubSeq(s, 1, i - 1)
           q == SubSeq(s, i + 1, Len(s))
<1>2. p \in Seq(MadeWatch) /\ Len(p) = i - 1 /\ \A j \in 1..(i - 1) : p[j] = s[j]
  OBVIOUS
<1>3. q \in Seq(MadeWatch) /\ Len(q) = Len(s) - i /\ \A j \in 1..(Len(s) - i) : q[j] = s[i + j]
  BY RestOf
<1> HIDE DEF p, q
<1>4. /\ p \o q \in Seq(MadeWatch) /\ Len(p \o q) = Len(p) + Len(q)
      /\ \A j \in 1..(Len(p) + Len(q)) : (p \o q)[j] = IF j <= Len(p) THEN p[j] ELSE q[j - Len(p)]
  BY <1>2, <1>3, ConcatProperties
<1>5. RemoveAt(s, i) = p \o q
  BY DEF RemoveAt, p, q
<1>6. ASSUME NEW j \in 1..(Len(s) - 1) PROVE (p \o q)[j] = IF j < i THEN s[j] ELSE s[j + 1]
  <2>1. Len(p) + Len(q) = Len(s) - 1
    BY <1>1, <1>2, <1>3
  <2>2. CASE j < i
    BY <1>1, <1>2, <1>4, <2>1, <2>2
  <2>3. CASE ~(j < i)
    <3>1. j - (i - 1) \in 1..(Len(s) - i) /\ i + (j - (i - 1)) = j + 1 /\ ~(j <= i - 1)
      BY <1>1, <2>3
    <3>2. (p \o q)[j] = q[j - (i - 1)]
      BY <1>1, <1>2, <1>4, <2>1, <3>1
    <3>3. QED
      BY <1>3, <2>3, <3>1, <3>2
  <2>4. QED
    BY <2>2, <2>3
<1>7. Len(p \o q) = Len(s) - 1
  BY <1>1, <1>2, <1>3, <1>4
<1>8. QED
  BY <1>4, <1>5, <1>6, <1>7

\* The tick has gone to its end, or up to the next watch that is due, and fired it.
Fired(t, now, todo, runs, i) ==
    /\ ticks'[t] # Idle /\ ticks'[t].now = now /\ ticks'[t].firing = todo[i]
    /\ ticks'[t].todo = SubSeq(todo, i + 1, Len(todo))
    /\ isWatchDue(todo[i], now, runs)
    /\ started'[todo[i].id].n > 0 /\ started'[todo[i].id].at = clock
    /\ started'[todo[i].id].n = started[todo[i].id].n + 1 /\ started'[todo[i].id].now = now
    /\ started'[todo[i].id].alone = ~BeingFired(todo[i].id)
    /\ \A w \in Ids \ {todo[i].id} : started'[w] = started[w]

WentOn(t, now, todo, runs) ==
    /\ ticks' \in [TickIds -> TickRecord] /\ started' \in [Ids -> Starts]
    /\ \A s \in TickIds \ {t} : ticks'[s] = ticks[s]
    /\ \/ ticks'[t] = Idle /\ started' = started
       \/ \E i \in DOMAIN todo : Fired(t, now, todo, runs, i)

\* That is what Proceed does.
LEMMA Proceeds ==
    ASSUME WatchTyped, NEW t \in TickIds, NEW now \in Nat, NEW todo \in Seq(MadeWatch),
           NEW runs \in [Ids -> Run \cup {NoWatch}], Proceed(t, now, todo, runs)
    PROVE  WentOn(t, now, todo, runs)
<1>1. Idle \in TickRecord
  BY DEF Idle, TickRecord
<1>2. CASE ticks' = [ticks EXCEPT ![t] = Idle] /\ started' = started
  <2>1. ticks' \in [TickIds -> TickRecord] /\ ticks'[t] = Idle /\ \A s \in TickIds \ {t} : ticks'[s] = ticks[s]
    BY <1>1, <1>2 DEF WatchTyped
  <2>2. QED
    BY <1>2, <2>1 DEF WatchTyped, WentOn
<1>3. ASSUME NEW i \in FirstToFire(todo, now, runs),
             ticks' = [ticks EXCEPT ![t] =
                    [now |-> now, todo |-> SubSeq(todo, i + 1, Len(todo)), firing |-> todo[i],
                     expectedBy |-> watchBaseline(todo[i], runs) + Cadence]],
             started' = [started EXCEPT ![todo[i].id] =
                    [n |-> @.n + 1, at |-> clock, now |-> now, alone |-> ~BeingFired(todo[i].id)]]
      PROVE  WentOn(t, now, todo, runs)
  <2>1. i \in DOMAIN todo /\ isWatchDue(todo[i], now, runs)
    BY <1>3 DEF FirstToFire
  <2>2. todo[i] \in MadeWatch /\ todo[i].id \in Ids /\ todo[i].created \in Nat
    <3>1. todo[i] \in MadeWatch
      BY <2>1
    <3>2. QED
      BY <3>1 DEF MadeWatch
  <2>3. SubSeq(todo, i + 1, Len(todo)) \in Seq(MadeWatch)
    BY <2>1, RestOf
  <2>4. watchBaseline(todo[i], runs) + Cadence \in Nat
    <3>1. watchBaseline(todo[i], runs) \in Nat
      BY <2>2 DEF watchBaseline, Run
    <3>2. QED
      BY <3>1, WatchAssumption
  <2> DEFINE new == [now |-> now, todo |-> SubSeq(todo, i + 1, Len(todo)), firing |-> todo[i],
                     expectedBy |-> watchBaseline(todo[i], runs) + Cadence]
  <2>5. new \in TickRecord
    BY <2>2, <2>3, <2>4 DEF TickRecord
  <2>6. new # Idle /\ new.now = now /\ new.firing = todo[i] /\ new.todo = SubSeq(todo, i + 1, Len(todo))
    <3>1. new.firing = todo[i] /\ new.now = now /\ new.todo = SubSeq(todo, i + 1, Len(todo))
      OBVIOUS
    <3>2. Idle.firing = NoWatch
      BY DEF Idle
    <3>3. todo[i] # NoWatch
      BY <2>2, WatchAssumption DEF MadeWatch
    <3> HIDE DEF new
    <3>4. QED
      BY <3>1, <3>2, <3>3
  <2>7. ticks' = [ticks EXCEPT ![t] = new]
    BY <1>3
  <2> HIDE DEF new
  <2>8. ticks' \in [TickIds -> TickRecord] /\ ticks'[t] = new /\ \A s \in TickIds \ {t} : ticks'[s] = ticks[s]
    BY <2>5, <2>7 DEF WatchTyped
  <2>9. /\ started' \in [Ids -> Starts] /\ started'[todo[i].id].n > 0 /\ started'[todo[i].id].at = clock
        /\ started'[todo[i].id].n = started[todo[i].id].n + 1 /\ started'[todo[i].id].now = now
        /\ started'[todo[i].id].alone = ~BeingFired(todo[i].id)
        /\ \A w \in Ids \ {todo[i].id} : started'[w] = started[w]
    <3> DEFINE id == todo[i].id
               one == ~BeingFired(id)
               run == [n |-> started[id].n + 1, at |-> clock, now |-> now, alone |-> one]
    <3>1. id \in Ids /\ started[id].n \in Nat /\ started \in [Ids -> Starts] /\ clock \in Nat
      BY <2>2 DEF WatchTyped, Starts
    <3>a. one \in BOOLEAN
      OBVIOUS
    <3>3. started' = [started EXCEPT ![id] = run]
      BY <1>3
    <3> HIDE DEF id, one
    <3>2. /\ run \in Starts /\ run.n > 0 /\ run.at = clock
          /\ run.n = started[id].n + 1 /\ run.now = now /\ run.alone = one
      BY <3>1, <3>a DEF Starts
    <3> HIDE DEF run
    <3>4. started' \in [Ids -> Starts] /\ started'[id] = run /\ \A w \in Ids \ {id} : started'[w] = started[w]
      BY <3>1, <3>2, <3>3
    <3>5. QED
      BY <3>2, <3>4 DEF id, one
  <2>10. Fired(t, now, todo, runs, i)
    BY <2>1, <2>6, <2>8, <2>9 DEF Fired
  <2>11. QED
    BY <2>1, <2>8, <2>9, <2>10 DEF WentOn
<1>4. QED
  BY <1>2, <1>3 DEF Proceed

\* Nothing is known that was not, and no run starts or is recorded.
LEMMA RunsStay ==
    ASSUME WatchTyped, RunsInv, Known' \subseteq Known, UNCHANGED <<watchRuns, started, made>>,
           clock' \in Nat, clock <= clock', \A t \in TickIds : ticks'[t] # Idle => ticks'[t] = ticks[t]
    PROVE  RunsInv'
<1>1. \A w \in Known' : w \in MadeWatch /\ made'[w.id] > 0 /\ w.created <= clock'
  BY DEF RunsInv, WatchTyped, MadeWatch
<1>2. \A w \in Ids : started'[w].at <= clock'
  BY DEF RunsInv, WatchTyped, Starts
<1>3. ASSUME NEW t \in TickIds, ticks'[t] # Idle
      PROVE  /\ ticks'[t].now <= clock' /\ Since(started'[ticks'[t].firing.id], ticks'[t].now)
             /\ \A w \in KnownTo(ticks'[t]) : w.created <= ticks'[t].now
  <2>1. ticks'[t] = ticks[t] /\ ticks[t].now \in Nat
    BY <1>3 DEF WatchTyped, TickRecord
  <2>2. /\ ticks[t].now <= clock /\ Since(started[ticks[t].firing.id], ticks[t].now)
        /\ \A w \in KnownTo(ticks[t]) : w.created <= ticks[t].now
    BY <1>3, <2>1 DEF RunsInv
  <2>3. QED
    BY <2>1, <2>2 DEF Since, WatchTyped
<1>4. /\ \A v, w \in Known' : v.id = w.id => v = w
      /\ \A w \in Known' : watchRuns'[w.id] # NoWatch => watchRuns'[w.id].at >= w.created
  BY DEF RunsInv
<1>5. \A w \in Ids : watchRuns'[w] # NoWatch => made'[w] > 0 /\ Since(started'[w], watchRuns'[w].at)
  BY DEF RunsInv, Since
<1>6. QED
  BY <1>1, <1>2, <1>3, <1>4, <1>5 DEF RunsInv

\* A tick goes on, with what the run that ended left behind.
LEMMA RunsProceed ==
    ASSUME WatchTyped, RunsInv, UNCHANGED <<watches, clock, made>>, NEW t \in TickIds, NEW now \in Nat,
           now <= clock, NEW todo \in Seq(MadeWatch), Elements(todo) \subseteq Known,
           \A w \in Elements(todo) : w.created <= now,
           watchRuns' \in [Ids -> Run \cup {NoWatch}],
           \A w \in Known : watchRuns'[w.id] # NoWatch => watchRuns'[w.id].at >= w.created,
           \A w \in Ids : watchRuns'[w] # NoWatch => made[w] > 0 /\ Since(started[w], watchRuns'[w].at),
           Proceed(t, now, todo, watchRuns')
    PROVE  WatchTyped' /\ RunsInv'
<1>0. WentOn(t, now, todo, watchRuns')
  BY Proceeds
<1>1. /\ ticks' \in [TickIds -> TickRecord] /\ started' \in [Ids -> Starts]
      /\ \A s \in TickIds \ {t} : ticks'[s] = ticks[s]
      /\ \/ ticks'[t] = Idle /\ started' = started
         \/ \E i \in DOMAIN todo :
               /\ ticks'[t] # Idle /\ ticks'[t].now = now /\ ticks'[t].firing = todo[i]
               /\ ticks'[t].todo = SubSeq(todo, i + 1, Len(todo))
               /\ started'[todo[i].id].n > 0 /\ started'[todo[i].id].at = clock
               /\ \A w \in Ids \ {todo[i].id} : started'[w] = started[w]
  BY <1>0 DEF WentOn, Fired
<1>2. WatchTyped'
  BY <1>1 DEF WatchTyped
<1>3. clock \in Nat /\ \A w \in Ids : started[w].n \in Nat /\ started[w].at \in Nat /\ started[w].at <= clock
  BY DEF WatchTyped, RunsInv, Starts
<1>4. \A w \in Ids : /\ started'[w].n \in Nat /\ started'[w].at \in Nat /\ started'[w].at <= clock
                     /\ started[w].n > 0 => started'[w].n > 0
                     /\ started'[w].at >= started[w].at
  <2> SUFFICES ASSUME NEW w \in Ids
               PROVE  /\ started'[w].n \in Nat /\ started'[w].at \in Nat /\ started'[w].at <= clock
                      /\ started[w].n > 0 => started'[w].n > 0
                      /\ started'[w].at >= started[w].at
    OBVIOUS
  <2>1. started'[w].n \in Nat /\ started'[w].at \in Nat
    BY <1>1 DEF Starts
  <2>2. started'[w] = started[w] \/ (started'[w].n > 0 /\ started'[w].at = clock)
    BY <1>1
  <2>3. QED
    BY <1>3, <2>1, <2>2
<1>5. KnownTo(ticks'[t]) \subseteq Elements(todo)
  <2>1. CASE ticks'[t] = Idle
    BY <2>1 DEF KnownTo
  <2>2. ASSUME NEW i \in DOMAIN todo, ticks'[t].todo = SubSeq(todo, i + 1, Len(todo)), ticks'[t].firing = todo[i]
        PROVE  KnownTo(ticks'[t]) \subseteq Elements(todo)
    <3>1. Elements(ticks'[t].todo) \subseteq Elements(todo)
      BY <2>2, RestOf
    <3>2. todo[i] \in Elements(todo)
      BY DEF Elements
    <3>3. QED
      BY <2>2, <3>1, <3>2 DEF KnownTo
  <2>3. QED
    BY <1>1, <2>1, <2>2
<1>6. Known' \subseteq Known
  <2>1. \A s \in TickIds : KnownTo(ticks'[s]) \subseteq Known
    BY <1>1, <1>5 DEF Known
  <2>2. QED
    BY <2>1 DEF Known
<1>7. \A w \in Known' : w \in MadeWatch /\ made'[w.id] > 0 /\ w.created <= clock'
  BY <1>6 DEF RunsInv
<1>8. ASSUME NEW s \in TickIds, ticks'[s] # Idle
      PROVE  /\ ticks'[s].now <= clock' /\ Since(started'[ticks'[s].firing.id], ticks'[s].now)
             /\ \A w \in KnownTo(ticks'[s]) : w.created <= ticks'[s].now
  <2>1. CASE s = t
    <3>1. PICK i \in DOMAIN todo :
               /\ ticks'[t].now = now /\ ticks'[t].firing = todo[i]
               /\ started'[todo[i].id].n > 0 /\ started'[todo[i].id].at = clock
      BY <1>1, <1>8, <2>1
    <3>2. Since(started'[ticks'[s].firing.id], ticks'[s].now)
      BY <2>1, <3>1 DEF Since
    <3>3. QED
      BY <1>5, <2>1, <3>1, <3>2
  <2>2. CASE s # t
    <3>1. ticks'[s] = ticks[s] /\ ticks[s] \in TickRecord
      BY <1>1, <2>2 DEF WatchTyped
    <3>2. /\ ticks[s].now <= clock /\ Since(started[ticks[s].firing.id], ticks[s].now)
          /\ \A w \in KnownTo(ticks[s]) : w.created <= ticks[s].now
      BY <1>8, <3>1 DEF RunsInv
    <3>3. ticks[s].firing.id \in Ids /\ ticks[s].now \in Nat
      <4>1. ticks[s].firing \in Known
        BY <1>8, <3>1 DEF Known, KnownTo
      <4>2. QED
        BY <3>1, <4>1 DEF RunsInv, MadeWatch, TickRecord
    <3>4. Since(started'[ticks'[s].firing.id], ticks'[s].now)
      <4> DEFINE w == ticks[s].firing.id
      <4>1. started[w].n > 0 /\ started[w].at >= ticks[s].now
        BY <3>2 DEF Since
      <4> HIDE DEF w
      <4>2. w \in Ids
        BY <3>3 DEF w
      <4>3. started'[w].n > 0 /\ started'[w].at >= ticks[s].now
        BY <1>3, <1>4, <3>3, <4>1, <4>2
      <4>4. QED
        BY <3>1, <4>3 DEF Since, w
    <3>5. QED
      BY <3>1, <3>2, <3>4
  <2>3. QED
    BY <2>1, <2>2
<1>9. \A w \in Ids : watchRuns'[w] # NoWatch => made'[w] > 0 /\ Since(started'[w], watchRuns'[w].at)
  <2> SUFFICES ASSUME NEW w \in Ids, watchRuns'[w] # NoWatch
               PROVE  made'[w] > 0 /\ started'[w].n > 0 /\ started'[w].at >= watchRuns'[w].at
    BY DEF Since
  <2>1. watchRuns'[w].at \in Nat
    BY DEF Run
  <2>2. QED
    BY <1>3, <1>4, <2>1 DEF Since
<1>10. /\ \A v, w \in Known' : v.id = w.id => v = w
       /\ \A w \in Known' : watchRuns'[w.id] # NoWatch => watchRuns'[w.id].at >= w.created
  BY <1>6 DEF RunsInv
<1>11. RunsInv'
  BY <1>4, <1>7, <1>8, <1>9, <1>10 DEF RunsInv
<1>12. QED
  BY <1>2, <1>11

\* A watch is created under an id nobody knows a watch by.
LEMMA CreateKeeps ==
    ASSUME MaxMade <= 1, WatchTyped, RunsInv, NEW id \in Ids, CreateWatch(id)
    PROVE  WatchTyped' /\ RunsInv'
<1> DEFINE new == [id |-> id, created |-> clock]
<1>1. /\ made[id] < MaxMade /\ made' = [made EXCEPT ![id] = @ + 1] /\ watches' = Append(watches, new)
      /\ UNCHANGED <<watchRuns, ticks, clock, started>>
  BY DEF CreateWatch
<1>2. made[id] = 0 /\ \A w \in Ids : made'[w] \in Nat /\ made'[w] >= made[w] /\ made'[id] > 0
  BY <1>1, WatchAssumption DEF WatchTyped
<1>3. new \in MadeWatch /\ new.id = id /\ new.created = clock
  BY DEF WatchTyped, MadeWatch
<1> HIDE DEF new
<1>4. watches' \in Seq(MadeWatch) /\ Elements(watches') = Elements(watches) \cup {new}
  <2>1. /\ watches \in Seq(MadeWatch) /\ watches' \in Seq(MadeWatch) /\ Len(watches') = Len(watches) + 1
        /\ watches'[Len(watches) + 1] = new /\ \A i \in 1..Len(watches) : watches'[i] = watches[i]
    BY <1>1, <1>3, AppendProperties DEF WatchTyped
  <2>2. DOMAIN watches = 1..Len(watches) /\ DOMAIN watches' = 1..(Len(watches) + 1) /\ Len(watches) \in Nat
    BY <2>1
  <2>3. DOMAIN watches' = DOMAIN watches \cup {Len(watches) + 1}
    BY <2>2
  <2>4. QED
    BY <2>1, <2>2, <2>3 DEF Elements
<1>5. Known' = Known \cup {new}
  BY <1>1, <1>4 DEF Known
<1>6. \A w \in Known : w \in MadeWatch /\ w.id \in Ids /\ w.id # id /\ made'[w.id] > 0 /\ w.created <= clock
  <2> SUFFICES ASSUME NEW w \in Known
               PROVE  w \in MadeWatch /\ w.id \in Ids /\ w.id # id /\ made'[w.id] > 0 /\ w.created <= clock
    OBVIOUS
  <2>1. w \in MadeWatch /\ made[w.id] > 0 /\ w.created <= clock
    BY DEF RunsInv
  <2>2. w.id \in Ids
    BY <2>1 DEF MadeWatch
  <2>3. made[w.id] \in Nat /\ made'[w.id] \in Nat
    BY <1>2, <2>2 DEF WatchTyped
  <2>4. QED
    BY <1>2, <2>1, <2>2, <2>3
<1>7. watchRuns[id] = NoWatch
  BY <1>2 DEF RunsInv
<1>8. \A w \in Ids : watchRuns[w] # NoWatch => made'[w] > 0
  <2>1. \A w \in Ids : made[w] \in Nat
    BY DEF WatchTyped
  <2>2. QED
    BY <1>2, <2>1 DEF RunsInv
<1>9. WatchTyped'
  BY <1>1, <1>2, <1>4 DEF WatchTyped
<1>10. /\ \A v, w \in Known' : v.id = w.id => v = w
       /\ \A w \in Known' : watchRuns'[w.id] # NoWatch => watchRuns'[w.id].at >= w.created
  BY <1>1, <1>3, <1>5, <1>6, <1>7 DEF RunsInv
<1>11. \A w \in Known' : w \in MadeWatch /\ made'[w.id] > 0 /\ w.created <= clock'
  <2>1. new.created <= clock /\ made'[new.id] > 0
    BY <1>2, <1>3 DEF WatchTyped
  <2>2. QED
    BY <1>1, <1>3, <1>5, <1>6, <2>1
<1>12. RunsInv'
  BY <1>1, <1>8, <1>10, <1>11 DEF RunsInv
<1>13. QED
  BY <1>9, <1>12

\* A watch that is revoked is out of the list; a tick may still know it.
LEMMA RevokeKeeps ==
    ASSUME WatchTyped, RunsInv, NEW id \in Ids, RevokeWatch(id) PROVE WatchTyped' /\ RunsInv'
<1>1. PICK i \in DOMAIN watches : watches' = RemoveAt(watches, i)
  BY DEF RevokeWatch
<1>2. UNCHANGED <<watchRuns, ticks, clock, started, made>>
  BY DEF RevokeWatch, bounds
<1>3. /\ watches' \in Seq(MadeWatch) /\ Len(watches') = Len(watches) - 1
      /\ \A j \in 1..(Len(watches) - 1) : watches'[j] = IF j < i THEN watches[j] ELSE watches[j + 1]
  BY <1>1, RemoveOne DEF WatchTyped
<1>4. Len(watches) \in Nat /\ DOMAIN watches = 1..Len(watches) /\ DOMAIN watches' = 1..(Len(watches) - 1)
  BY <1>3 DEF WatchTyped
<1>5. \A j \in 1..(Len(watches) - 1) : j \in 1..Len(watches) /\ j + 1 \in 1..Len(watches)
  BY <1>4
<1>6. Elements(watches') \subseteq Elements(watches)
  BY <1>3, <1>4, <1>5 DEF Elements
<1>7. Known' \subseteq Known
  BY <1>2, <1>6 DEF Known
<1>8. clock \in Nat
  BY DEF WatchTyped
<1>9. WatchTyped'
  BY <1>2, <1>3 DEF WatchTyped
<1>10. RunsInv'
  BY <1>2, <1>7, <1>8, RunsStay
<1>11. QED
  BY <1>9, <1>10

\* The poll looks at the list as it is.
LEMMA StartTickKeeps ==
    ASSUME WatchTyped, RunsInv, NEW t \in TickIds, StartTick(t) PROVE WatchTyped' /\ RunsInv'
<1>1. Proceed(t, clock, watches, watchRuns') /\ UNCHANGED <<watches, watchRuns, clock, made>>
  BY DEF StartTick, disk, bounds
<1>2. clock \in Nat /\ clock <= clock /\ watches \in Seq(MadeWatch) /\ watchRuns' \in [Ids -> Run \cup {NoWatch}]
  BY <1>1 DEF WatchTyped
<1>3. Elements(watches) \subseteq Known /\ \A w \in Elements(watches) : w.created <= clock
  BY DEF Known, RunsInv
<1>4. /\ \A w \in Known : watchRuns'[w.id] # NoWatch => watchRuns'[w.id].at >= w.created
      /\ \A w \in Ids : watchRuns'[w] # NoWatch => made[w] > 0 /\ Since(started[w], watchRuns'[w].at)
  BY <1>1 DEF RunsInv
<1>5. QED
  BY <1>1, <1>2, <1>3, <1>4, RunsProceed

\* What a tick under way is about.
LEMMA UnderWay ==
    ASSUME WatchTyped, RunsInv, NEW t \in TickIds, ticks[t] # Idle
    PROVE  /\ ticks[t].now \in Nat /\ ticks[t].now <= clock /\ ticks[t].todo \in Seq(MadeWatch)
           /\ ticks[t].expectedBy \in Nat /\ ticks[t].firing \in Known /\ ticks[t].firing.id \in Ids
           /\ Elements(ticks[t].todo) \subseteq Known
           /\ \A w \in Elements(ticks[t].todo) \cup {ticks[t].firing} : w.created <= ticks[t].now
           /\ made[ticks[t].firing.id] > 0 /\ Since(started[ticks[t].firing.id], ticks[t].now)
<1>1. ticks[t] \in TickRecord
  BY DEF WatchTyped
<1>2. KnownTo(ticks[t]) = Elements(ticks[t].todo) \cup {ticks[t].firing} /\ KnownTo(ticks[t]) \subseteq Known
  BY DEF Known, KnownTo
<1>3. /\ ticks[t].now <= clock /\ Since(started[ticks[t].firing.id], ticks[t].now)
      /\ \A w \in KnownTo(ticks[t]) : w.created <= ticks[t].now
  BY DEF RunsInv
<1>4. ticks[t].firing \in MadeWatch /\ made[ticks[t].firing.id] > 0
  BY <1>2 DEF RunsInv
<1>5. ticks[t].firing.id \in Ids
  BY <1>4 DEF MadeWatch
<1>6. ticks[t].now \in Nat /\ ticks[t].todo \in Seq(MadeWatch) /\ ticks[t].expectedBy \in Nat
  BY <1>1 DEF TickRecord
<1>7. QED
  BY <1>2, <1>3, <1>4, <1>5, <1>6

\* A run throws: nothing is recorded, and the tick goes on.
LEMMA ThrowsKeeps ==
    ASSUME WatchTyped, RunsInv, NEW t \in TickIds, FireThrows(t) PROVE WatchTyped' /\ RunsInv'
<1>1. /\ Proceed(t, ticks[t].now, ticks[t].todo, watchRuns') /\ ticks[t] # Idle
      /\ UNCHANGED <<watches, watchRuns, clock, made>>
  BY DEF FireThrows, disk, bounds
<1>2. /\ watchRuns' \in [Ids -> Run \cup {NoWatch}]
      /\ \A w \in Known : watchRuns'[w.id] # NoWatch => watchRuns'[w.id].at >= w.created
      /\ \A w \in Ids : watchRuns'[w] # NoWatch => made[w] > 0 /\ Since(started[w], watchRuns'[w].at)
  BY <1>1 DEF RunsInv, WatchTyped
<1>3. QED
  BY <1>1, <1>2, UnderWay, RunsProceed

\* A run returns: it is recorded at the instant of its tick.
LEMMA ReturnsKeeps ==
    ASSUME WatchTyped, RunsInv, NEW t \in TickIds, FireReturns(t) PROVE WatchTyped' /\ RunsInv'
<1> DEFINE id == ticks[t].firing.id
           run == [at |-> ticks[t].now, expectedBy |-> ticks[t].expectedBy]
<1>1. /\ Proceed(t, ticks[t].now, ticks[t].todo, watchRuns') /\ ticks[t] # Idle
      /\ UNCHANGED <<watches, clock, made>> /\ watchRuns' = [watchRuns EXCEPT ![id] = run]
  BY DEF FireReturns, recordFired, bounds
<1>2. /\ id \in Ids /\ run \in Run /\ run.at = ticks[t].now /\ ticks[t].firing \in Known
      /\ ticks[t].firing.created <= run.at /\ made[id] > 0 /\ Since(started[id], run.at)
  BY <1>1, UnderWay DEF Run
<1> HIDE DEF run
<1>3. \A w \in Known : w.id = id => w = ticks[t].firing
  BY <1>2 DEF RunsInv
<1> HIDE DEF id
<1>4. /\ watchRuns' \in [Ids -> Run \cup {NoWatch}] /\ watchRuns'[id] = run
      /\ \A w \in Ids : w # id => watchRuns'[w] = watchRuns[w]
  BY <1>1, <1>2 DEF WatchTyped
<1>5. ASSUME NEW w \in Known, watchRuns'[w.id] # NoWatch PROVE watchRuns'[w.id].at >= w.created
  <2>1. w \in MadeWatch /\ w.id \in Ids /\ w.created \in Nat
    BY DEF RunsInv, MadeWatch
  <2>2. CASE w.id = id
    BY <1>2, <1>3, <1>4, <2>1, <2>2 DEF Run
  <2>3. CASE w.id # id
    BY <1>4, <1>5, <2>1, <2>3 DEF RunsInv
  <2>4. QED
    BY <2>2, <2>3
<1>6. \A w \in Ids : watchRuns'[w] # NoWatch => made[w] > 0 /\ Since(started[w], watchRuns'[w].at)
  BY <1>2, <1>4 DEF RunsInv
<1>7. QED
  BY <1>1, <1>4, <1>5, <1>6, UnderWay, RunsProceed

\* What the other steps leave alone; ending the daemon drops its ticks.
LEMMA OthersKeep ==
    ASSUME WatchTyped, RunsInv, UNCHANGED <<watches, watchRuns, started, made>>,
           clock' \in Nat, clock <= clock', ticks' = ticks \/ ticks' = [t \in TickIds |-> Idle]
    PROVE  WatchTyped' /\ RunsInv'
<1>1. Idle \in TickRecord
  BY DEF Idle, TickRecord
<1>2. WatchTyped'
  BY <1>1 DEF WatchTyped
<1>3. \A t \in TickIds : ticks'[t] = Idle \/ ticks'[t] = ticks[t]
  OBVIOUS
<1>4. \A t \in TickIds : KnownTo(ticks'[t]) \subseteq KnownTo(ticks[t])
  BY <1>3 DEF KnownTo
<1>5. Known' \subseteq Known
  BY <1>4 DEF Known
<1>6. \A t \in TickIds : ticks'[t] # Idle => ticks'[t] = ticks[t]
  BY <1>3
<1>7. QED
  BY <1>2, <1>5, <1>6, RunsStay

\* Every step keeps what is known of the runs.
LEMMA RunsStep ==
    ASSUME MaxMade <= 1, WatchTyped, RunsInv, [Next]_vars PROVE WatchTyped' /\ RunsInv'
<1>0. clock \in Nat /\ clock <= clock /\ clock + 1 \in Nat /\ clock <= clock + 1
  BY DEF WatchTyped
<1>1. Next \/ UNCHANGED vars
  OBVIOUS
<1>2. CASE UNCHANGED vars
  <2>1. UNCHANGED <<watches, watchRuns, started, made, clock, ticks>>
    BY <1>2 DEF vars, disk, bounds
  <2>2. QED
    BY <1>0, <2>1, OthersKeep
<1>3. ASSUME NEW id \in Ids, CreateWatch(id) \/ RevokeWatch(id) PROVE WatchTyped' /\ RunsInv'
  BY <1>3, CreateKeeps, RevokeKeeps
<1>4. ASSUME NEW t \in TickIds, StartTick(t) \/ FireReturns(t) \/ FireThrows(t)
      PROVE  WatchTyped' /\ RunsInv'
  BY <1>4, StartTickKeeps, ReturnsKeeps, ThrowsKeeps
<1>5. CASE Heartbeat \/ Start \/ IdleDefers \/ \E open \in Requests : Activity(open)
  <2>1. UNCHANGED <<watches, watchRuns, started, made, clock, ticks>>
    BY <1>5 DEF Heartbeat, Start, IdleDefers, Activity, disk, bounds
  <2>2. QED
    BY <1>0, <2>1, OthersKeep
<1>6. CASE StopVerb \/ IdleExits \/ Crash
  <2>1. UNCHANGED <<watches, watchRuns, started, made, clock>> /\ ticks' = [t \in TickIds |-> Idle]
    BY <1>6 DEF StopVerb, IdleExits, Crash, GracefulExit, Down, disk
  <2>2. QED
    BY <1>0, <2>1, OthersKeep
<1>7. CASE Minute \/ Sleep
  <2>1. UNCHANGED <<watches, watchRuns, started, made, ticks>> /\ clock' = clock + 1
    BY <1>7 DEF Minute, Sleep, disk, bounds
  <2>2. QED
    BY <1>0, <2>1, OthersKeep
<1>8. QED
  BY <1>1, <1>2, <1>3, <1>4, <1>5, <1>6, <1>7 DEF Next

ReceiptInv == UptimeInv /\ WatchTyped /\ RunsInv

LEMMA ReceiptStart == ASSUME Init PROVE ReceiptInv
<1>1. UptimeInv
  BY DEF Init, UptimeInv
<1>2. WatchTyped
  <2>1. Idle \in TickRecord /\ <<>> \in Seq(MadeWatch)
    BY DEF Idle, TickRecord
  <2>2. QED
    BY <2>1 DEF Init, WatchTyped, Starts
<1>3. Known = {}
  <2>1. Elements(watches) = {} /\ \A t \in TickIds : KnownTo(ticks[t]) = {}
    BY DEF Init, Elements, KnownTo
  <2>2. QED
    BY <2>1 DEF Known
<1>4. RunsInv
  BY <1>3 DEF Init, RunsInv
<1>5. QED
  BY <1>1, <1>2, <1>4 DEF ReceiptInv

\* What a receipt says follows.
LEMMA ReceiptsSay == ASSUME ReceiptInv PROVE ReceiptIsEvidence
<1>1. Tolerance = 1 /\ Cadence \in Nat /\ Cadence > 0 /\ clock \in Nat
  BY WatchAssumption DEF Tolerance, ReceiptInv, WatchTyped
<1>2. ASSUME NEW w \in Active
      PROVE  /\ w.id \in Ids /\ w.created \in Nat
             /\ watchRuns[w.id] # NoWatch =>
                    /\ watchRuns[w.id].at \in Nat /\ watchRuns[w.id].at >= w.created
                    /\ started[w.id].n > 0 /\ started[w.id].at >= watchRuns[w.id].at
             /\ started[w.id].at \in Nat
  <2>1. w \in Known
    BY DEF Active, Known, Elements
  <2>2. w.id \in Ids /\ w.created \in Nat
    BY <2>1 DEF ReceiptInv, RunsInv, MadeWatch
  <2>3. started[w.id].at \in Nat /\ (watchRuns[w.id] # NoWatch => watchRuns[w.id].at \in Nat)
    BY <2>2 DEF ReceiptInv, WatchTyped, Run, Starts
  <2>4. QED
    BY <2>1, <2>2, <2>3 DEF ReceiptInv, RunsInv, Since
<1>3. \A w \in Active : watchBaseline(w, watchRuns) \in Nat
  BY <1>2 DEF watchBaseline
<1>4. ASSUME NEW w \in Active, computeFreshnessReceipt(w) = "ran"
      PROVE  started[w.id].n > 0 /\ started[w.id].at >= w.created /\ clock < started[w.id].at + Cadence
  <2>1. ~isWatchDue(w, clock, watchRuns) /\ watchRuns[w.id] # NoWatch
    BY <1>4 DEF computeFreshnessReceipt
  <2>2. clock < watchRuns[w.id].at + Cadence
    BY <1>1, <1>2, <2>1 DEF isWatchDue, watchBaseline
  <2>3. QED
    BY <1>1, <1>2, <2>1, <2>2
<1>5. ASSUME NEW w \in Active, computeFreshnessReceipt(w) = "evidence_of_non_run"
      PROVE  isWindowContinuouslyUp(watchBaseline(w, watchRuns), watchBaseline(w, watchRuns) + Cadence)
  BY <1>5 DEF computeFreshnessReceipt
<1>6. MissNeedsUptime
  <2>1. ASSUME NEW w \in Active, computeFreshnessReceipt(w) = "evidence_of_non_run", NEW b \in Nat,
               b = watchBaseline(w, watchRuns)
        PROVE  (b + 1)..(b + Cadence - 1) \subseteq awake \cup slept
    <3>1. isWindowContinuouslyUp(b, b + Cadence) /\ b + Cadence \in Nat
      BY <1>1, <1>5, <2>1
    <3>2. ASSUME NEW x \in (b + 1)..(b + Cadence - 1) PROVE x \in Nat /\ b < x /\ x < b + Cadence
      BY <1>1
    <3>3. UptimeInv
      BY DEF ReceiptInv
    <3>4. QED
      BY <3>1, <3>2, <3>3, WindowCovered
  <2>2. QED
    BY <1>3, <2>1 DEF MissNeedsUptime
<1>7. MissNearlyDue
  <2>1. ASSUME NEW w \in Active, computeFreshnessReceipt(w) = "evidence_of_non_run"
        PROVE  isWatchDue(w, clock + Tolerance, watchRuns)
    <3>1. PICK u \in uptime : u.to + Tolerance >= watchBaseline(w, watchRuns) + Cadence
      BY <1>5, <2>1 DEF isWindowContinuouslyUp
    <3>2. u.to \in Nat /\ u.to <= clock
      BY DEF ReceiptInv, UptimeInv, Interval_
    <3>3. QED
      BY <1>1, <1>3, <3>1, <3>2 DEF isWatchDue
  <2>2. QED
    BY <2>1 DEF MissNearlyDue
<1>8. QED
  BY <1>4, <1>6, <1>7 DEF ReceiptIsEvidence, RanIsRecent

\* A receipt states what the daemon was there to see: "ran" is about a run of this watch,
\* no longer ago than one cadence, and "evidence_of_non_run" needs every minute within the
\* window to be accounted for, and the window to have gone by but for the tolerance.
THEOREM ReceiptsAreEvidence == ASSUME MaxMade <= 1 PROVE Spec => []ReceiptIsEvidence
<1>1. Init => ReceiptInv
  BY ReceiptStart
<1>2. ReceiptInv /\ [Next]_vars => ReceiptInv'
  BY UptimeStep, RunsStep DEF ReceiptInv
<1>3. ReceiptInv => ReceiptIsEvidence
  BY ReceiptsSay
<1>4. QED
  BY <1>1, <1>2, <1>3, PTL DEF Spec
-----------------------------------------------------------------------------
(* When runs start.                                                        *)

\* A run that starts is one of a watch that is due at the instant of the tick.
LEMMA RunStarts ==
    ASSUME WatchTyped, RunsInv, [Next]_vars, NEW t \in TickIds, ticks'[t] # Idle, ticks'[t] # ticks[t]
    PROVE  /\ clock' = clock
           /\ \E now \in Nat, w \in MadeWatch :
                 now <= clock /\ ticks'[t].firing = w /\ isWatchDue(w, now, watchRuns')
<1>1. ASSUME NEW s \in TickIds, NEW now \in Nat, now <= clock, NEW todo \in Seq(MadeWatch),
             watchRuns' \in [Ids -> Run \cup {NoWatch}], Proceed(s, now, todo, watchRuns')
      PROVE  \E n \in Nat, w \in MadeWatch :
                n <= clock /\ ticks'[t].firing = w /\ isWatchDue(w, n, watchRuns')
  <2>1. WentOn(s, now, todo, watchRuns')
    BY <1>1, Proceeds
  <2>2. t = s
    BY <2>1 DEF WentOn
  <2>3. PICK i \in DOMAIN todo : Fired(t, now, todo, watchRuns', i)
    BY <2>1, <2>2 DEF WentOn
  <2>4. ticks'[t].firing = todo[i] /\ isWatchDue(todo[i], now, watchRuns') /\ todo[i] \in MadeWatch
    BY <2>3 DEF Fired
  <2>5. QED
    BY <1>1, <2>4
<1>2. Next \/ UNCHANGED vars
  OBVIOUS
<1>3. ASSUME NEW s \in TickIds, StartTick(s) \/ FireReturns(s) \/ FireThrows(s)
      PROVE  /\ clock' = clock
             /\ \E n \in Nat, w \in MadeWatch :
                   n <= clock /\ ticks'[t].firing = w /\ isWatchDue(w, n, watchRuns')
  <2>0. clock' = clock
    BY <1>3 DEF StartTick, FireReturns, FireThrows
  <2>1. clock \in Nat /\ clock <= clock /\ watches \in Seq(MadeWatch)
    BY DEF WatchTyped
  <2>2. CASE StartTick(s)
    <3>1. Proceed(s, clock, watches, watchRuns') /\ watchRuns' \in [Ids -> Run \cup {NoWatch}]
      BY <2>2 DEF StartTick, disk, WatchTyped
    <3>2. QED
      BY <1>1, <2>0, <2>1, <3>1
  <2>3. CASE FireThrows(s)
    <3>1. /\ Proceed(s, ticks[s].now, ticks[s].todo, watchRuns') /\ ticks[s] # Idle
          /\ watchRuns' \in [Ids -> Run \cup {NoWatch}]
      BY <2>3 DEF FireThrows, disk, WatchTyped
    <3>2. ticks[s].now \in Nat /\ ticks[s].now <= clock /\ ticks[s].todo \in Seq(MadeWatch)
      BY <3>1, UnderWay
    <3>3. QED
      BY <1>1, <2>0, <3>1, <3>2
  <2>4. CASE FireReturns(s)
    <3>1. Proceed(s, ticks[s].now, ticks[s].todo, watchRuns') /\ ticks[s] # Idle /\ recordFired(s)
      BY <2>4 DEF FireReturns
    <3>2. /\ ticks[s].now \in Nat /\ ticks[s].now <= clock /\ ticks[s].todo \in Seq(MadeWatch)
          /\ ticks[s].expectedBy \in Nat
      BY <3>1, UnderWay
    <3>3. [at |-> ticks[s].now, expectedBy |-> ticks[s].expectedBy] \in Run
      BY <3>2 DEF Run
    <3>4. watchRuns' \in [Ids -> Run \cup {NoWatch}]
      BY <3>1, <3>3 DEF recordFired, WatchTyped
    <3>5. QED
      BY <1>1, <2>0, <3>1, <3>2, <3>4
  <2>5. QED
    BY <1>3, <2>2, <2>3, <2>4
<1>4. CASE UNCHANGED ticks \/ ticks' = [s \in TickIds |-> Idle]
  BY <1>4
<1>5. QED
  <2>1. CASE UNCHANGED vars
    BY <1>4, <2>1 DEF vars
  <2>2. ASSUME NEW id \in Ids, CreateWatch(id) \/ RevokeWatch(id) PROVE UNCHANGED ticks
    BY <2>2 DEF CreateWatch, RevokeWatch
  <2>3. CASE Heartbeat \/ Start \/ IdleDefers \/ Minute \/ Sleep \/ \E open \in Requests : Activity(open)
    BY <1>4, <2>3 DEF Heartbeat, Start, IdleDefers, Minute, Sleep, Activity
  <2>4. CASE StopVerb \/ IdleExits \/ Crash
    BY <1>4, <2>4 DEF StopVerb, IdleExits, Crash, GracefulExit, Down
  <2>5. QED
    BY <1>2, <1>3, <1>4, <2>1, <2>2, <2>3, <2>4 DEF Next

\* A watch's first look at the list that finds it due comes a cadence after its creation.
LEMMA GraceStep ==
    ASSUME MaxMade <= 1, ReceiptInv, [Next]_vars, NEW w \in WatchRecord, ~Firing(w), Firing(w)'
    PROVE  clock >= w.created + Cadence
<1>1. PICK t \in TickIds : ticks'[t].firing = w
  BY DEF Firing
<1>2. WatchTyped /\ RunsInv /\ WatchTyped' /\ RunsInv'
  BY RunsStep DEF ReceiptInv
<1>3. w.created \in Nat /\ w.id \in Ids /\ w # NoWatch
  <2>1. MaxTime \in Nat /\ 0..MaxTime \subseteq Nat
    BY WatchAssumption
  <2>2. w \in [id : Ids, created : Nat]
    BY <2>1 DEF WatchRecord
  <2>3. QED
    BY <2>2, WatchAssumption
<1>4. ticks'[t] # Idle
  BY <1>1, <1>3 DEF Idle
<1>5. ticks'[t] # ticks[t]
  BY <1>1 DEF Firing
<1>6. PICK now \in Nat : now <= clock /\ isWatchDue(w, now, watchRuns') /\ clock' = clock
  BY <1>1, <1>2, <1>4, <1>5, RunStarts
<1>7. w \in Known'
  BY <1>1, <1>4 DEF Known, KnownTo
<1>8. watchRuns'[w.id] # NoWatch => watchRuns'[w.id].at \in Nat /\ watchRuns'[w.id].at >= w.created
  <2>1. watchRuns'[w.id] # NoWatch => watchRuns'[w.id].at \in Nat
    BY <1>2, <1>3 DEF WatchTyped, Run
  <2>2. QED
    BY <1>2, <1>7, <2>1 DEF RunsInv
<1>9. watchBaseline(w, watchRuns') \in Nat /\ watchBaseline(w, watchRuns') >= w.created
  BY <1>3, <1>8 DEF watchBaseline
<1>10. clock \in Nat /\ Cadence \in Nat
  BY <1>2, WatchAssumption DEF WatchTyped
<1>11. QED
  BY <1>3, <1>6, <1>9, <1>10 DEF isWatchDue

\* No watch runs before one cadence has gone by since it was created, whatever stops,
\* crashes and overlapping ticks there are.
THEOREM NoRunBeforeItsTime == ASSUME MaxMade <= 1 PROVE Spec => GracePeriod
<1>1. Init => ReceiptInv
  BY ReceiptStart
<1>2. ReceiptInv /\ [Next]_vars => ReceiptInv'
  BY UptimeStep, RunsStep DEF ReceiptInv
<1>3. ReceiptInv /\ [Next]_vars =>
        [\A w \in WatchRecord : ~Firing(w) /\ Firing(w)' => clock >= w.created + Cadence]_vars
  BY GraceStep
<1>4. QED
  BY <1>1, <1>2, <1>3, PTL DEF Spec, GracePeriod

(* Spacing. A run that was alone is recorded with the instant of its tick, *)
(* and nothing records over it before the watch starts again.              *)

FiredBy(s, id) == ticks[s] # Idle /\ ticks[s].firing.id = id

Recorded(id, runs) == runs[id] # NoWatch /\ runs[id].at = started[id].now

SpacedInv ==
    /\ ended \in [Ids -> Nat] /\ \A id \in Ids : ended[id] <= started[id].n
    /\ \A id \in Ids \ Throwing : started[id].n > 0 /\ ended[id] = started[id].n
          => Recorded(id, watchRuns) /\ \A s \in TickIds : ~FiredBy(s, id)
    /\ \A t \in TickIds, id \in Ids : FiredBy(t, id) /\ started[id].alone
          => ticks[t].now = started[id].now /\ \A s \in TickIds : FiredBy(s, id) => s = t

Spaced(id) == \/ started[id].n = 0 \/ ended[id] # started[id].n
              \/ started'[id].now >= started[id].now + Cadence

\* No run starts or returns.
LEMMA SpacedStays ==
    ASSUME SpacedInv, UNCHANGED <<watchRuns, started, ended>>,
           \A t \in TickIds : ticks'[t] # Idle => ticks'[t] = ticks[t]
    PROVE  SpacedInv' /\ \A id \in Ids \ Throwing : started'[id] # started[id] => Spaced(id)
<1>1. \A s \in TickIds, id \in Ids : FiredBy(s, id)' => FiredBy(s, id) /\ ticks'[s] = ticks[s]
  BY DEF FiredBy
<1>2. \A id \in Ids : Recorded(id, watchRuns)' <=> Recorded(id, watchRuns)
  BY DEF Recorded
<1>3. QED
  BY <1>1, <1>2 DEF SpacedInv

\* A tick goes on, when each run that was alone to its end has been recorded.
LEMMA SpacedProceed ==
    ASSUME WatchTyped, SpacedInv, NEW t \in TickIds, NEW now \in Nat, NEW todo \in Seq(MadeWatch),
           watchRuns' \in [Ids -> Run \cup {NoWatch}], ended' \in [Ids -> Nat],
           \A id \in Ids : ended'[id] \in {ended[id], started[id].n},
           \A id \in Ids \ Throwing : started[id].n > 0 /\ ended'[id] = started[id].n
               => Recorded(id, watchRuns') /\ \A s \in TickIds \ {t} : ~FiredBy(s, id),
           Proceed(t, now, todo, watchRuns')
    PROVE  SpacedInv' /\ \A id \in Ids \ Throwing : started'[id] # started[id] => Spaced(id)
<1>1. ASSUME NEW id \in Ids
      PROVE  started[id].n \in Nat /\ started[id].now \in Nat /\ ended'[id] <= started[id].n
  <2>1. started[id].n \in Nat /\ started[id].now \in Nat
    BY DEF WatchTyped, Starts
  <2>2. ended[id] <= started[id].n /\ ended'[id] \in {ended[id], started[id].n}
    BY DEF SpacedInv
  <2>3. QED
    BY <2>1, <2>2
<1>2. WentOn(t, now, todo, watchRuns')
  BY Proceeds
<1>3. \A s \in TickIds \ {t}, id \in Ids : FiredBy(s, id)' <=> FiredBy(s, id)
  BY <1>2 DEF WentOn, FiredBy
<1>4. \A s \in TickIds \ {t} : ticks'[s] = ticks[s]
  BY <1>2 DEF WentOn
<1>5. CASE ticks'[t] = Idle /\ started' = started
  <2>1. \A id \in Ids : ~FiredBy(t, id)'
    BY <1>5 DEF FiredBy
  <2>2. ASSUME NEW id \in Ids \ Throwing, started'[id].n > 0, ended'[id] = started'[id].n
        PROVE  Recorded(id, watchRuns)' /\ \A s \in TickIds : ~FiredBy(s, id)'
    <3>1. Recorded(id, watchRuns') /\ \A s \in TickIds \ {t} : ~FiredBy(s, id)
      BY <1>5, <2>2
    <3>2. Recorded(id, watchRuns)'
      BY <1>5, <3>1 DEF Recorded
    <3>3. QED
      BY <1>3, <2>1, <3>1, <3>2
  <2>3. ASSUME NEW s \in TickIds, NEW id \in Ids, FiredBy(s, id)', started'[id].alone
        PROVE  ticks'[s].now = started'[id].now /\ \A r \in TickIds : FiredBy(r, id)' => r = s
    <3>1. s # t /\ FiredBy(s, id) /\ started[id].alone
      BY <1>3, <1>5, <2>1, <2>3
    <3>2. ticks[s].now = started[id].now /\ \A r \in TickIds : FiredBy(r, id) => r = s
      BY <3>1 DEF SpacedInv
    <3>3. QED
      BY <1>3, <1>4, <1>5, <2>1, <3>1, <3>2
  <2>4. \A id \in Ids : ended'[id] <= started'[id].n
    BY <1>1, <1>5
  <2>5. SpacedInv'
    BY <2>2, <2>3, <2>4 DEF SpacedInv
  <2>6. QED
    BY <1>5, <2>5
<1>6. ASSUME NEW i \in DOMAIN todo, Fired(t, now, todo, watchRuns', i)
      PROVE  SpacedInv' /\ \A id \in Ids \ Throwing : started'[id] # started[id] => Spaced(id)
  <2> DEFINE w == todo[i]
             new == w.id
  <2>1. w \in MadeWatch
    OBVIOUS
  <2>2. /\ ticks'[t] # Idle /\ ticks'[t].now = now /\ ticks'[t].firing = w
        /\ isWatchDue(w, now, watchRuns') /\ started'[new].n = started[new].n + 1
        /\ started'[new].now = now /\ started'[new].alone = ~BeingFired(new)
        /\ \A id \in Ids \ {new} : started'[id] = started[id]
    BY <1>6 DEF Fired
  <2>3. new \in Ids
    BY <2>1 DEF MadeWatch
  <2>4. \A id \in Ids : FiredBy(t, id)' <=> id = new
    BY <2>2 DEF FiredBy
  <2>5. \A s \in TickIds : FiredBy(s, new) => BeingFired(new)
    BY DEF FiredBy, BeingFired
  <2>6. ASSUME NEW id \in Ids \ Throwing, started'[id] # started[id] PROVE Spaced(id)
    <3>1. id = new
      BY <2>2, <2>6
    <3>2. CASE started[new].n > 0 /\ ended'[new] = started[new].n
      <4>1. watchRuns'[new] # NoWatch /\ watchRuns'[new].at = started[new].now
        BY <2>6, <3>1, <3>2 DEF Recorded
      <4>2. now >= started[new].now + Cadence
        BY <2>2, <4>1 DEF isWatchDue, watchBaseline
      <4>3. QED
        BY <2>2, <3>1, <4>2 DEF Spaced
    <3>3. CASE started[new].n = 0 \/ ended'[new] # started[new].n
      BY <2>3, <3>1, <3>3 DEF Spaced
    <3>4. QED
      BY <1>1, <2>3, <3>2, <3>3
  <2>7. ASSUME NEW id \in Ids \ Throwing, started'[id].n > 0, ended'[id] = started'[id].n
        PROVE  Recorded(id, watchRuns)' /\ \A s \in TickIds : ~FiredBy(s, id)'
    <3>1. id # new
      BY <1>1, <2>2, <2>3, <2>7
    <3>2. started'[id] = started[id]
      BY <2>2, <3>1
    <3>3. Recorded(id, watchRuns') /\ \A s \in TickIds \ {t} : ~FiredBy(s, id)
      BY <2>7, <3>2
    <3>4. Recorded(id, watchRuns)'
      BY <3>2, <3>3 DEF Recorded
    <3>5. QED
      BY <1>3, <2>4, <3>1, <3>3, <3>4
  <2>8. ASSUME NEW s \in TickIds, NEW id \in Ids, FiredBy(s, id)', started'[id].alone
        PROVE  ticks'[s].now = started'[id].now /\ \A r \in TickIds : FiredBy(r, id)' => r = s
    <3>1. CASE id = new
      <4>1. \A r \in TickIds : ~FiredBy(r, new)
        BY <2>2, <2>5, <2>8, <3>1
      <4>2. s = t /\ \A r \in TickIds : FiredBy(r, id)' => r = t
        BY <1>3, <2>3, <2>8, <3>1, <4>1
      <4>3. QED
        BY <2>2, <3>1, <4>2
    <3>2. CASE id # new
      <4>1. s # t /\ FiredBy(s, id) /\ started'[id] = started[id]
        BY <1>3, <2>2, <2>4, <2>8, <3>2
      <4>2. ticks[s].now = started[id].now /\ \A r \in TickIds : FiredBy(r, id) => r = s
        BY <2>8, <4>1 DEF SpacedInv
      <4>3. QED
        BY <1>3, <1>4, <2>4, <3>2, <4>1, <4>2
    <3>3. QED
      BY <3>1, <3>2
  <2>9. ASSUME NEW id \in Ids PROVE ended'[id] <= started'[id].n
    <3>1. CASE id = new
      <4>1. ended'[id] <= started[id].n /\ started[id].n \in Nat /\ ended'[id] \in Nat
        BY <1>1
      <4>2. QED
        BY <2>2, <3>1, <4>1
    <3>2. CASE id # new
      BY <1>1, <2>2, <3>2
    <3>3. QED
      BY <3>1, <3>2
  <2>10. SpacedInv'
    BY <2>7, <2>8, <2>9 DEF SpacedInv
  <2>11. QED
    BY <2>6, <2>10
<1>7. QED
  BY <1>2, <1>5, <1>6 DEF WentOn

\* Every step keeps the runs apart.
LEMMA SpacedStep ==
    ASSUME WatchTyped, RunsInv, SpacedInv, [Next]_vars
    PROVE  SpacedInv' /\ \A id \in Ids \ Throwing : started'[id] # started[id] => Spaced(id)
<1>1. CASE /\ UNCHANGED <<watchRuns, started, ended>>
           /\ UNCHANGED ticks \/ ticks' = [t \in TickIds |-> Idle]
  BY <1>1, SpacedStays
<1>2. CASE \/ UNCHANGED vars \/ Heartbeat \/ Start \/ IdleDefers \/ Minute \/ Sleep
           \/ \E open \in Requests : Activity(open)
           \/ \E id \in Ids : CreateWatch(id) \/ RevokeWatch(id)
  <2>1. UNCHANGED <<watchRuns, started, ended, ticks>>
    BY <1>2 DEF vars, disk, Heartbeat, Start, IdleDefers, Minute, Sleep, Activity, CreateWatch,
                RevokeWatch
  <2>2. QED
    BY <1>1, <2>1
<1>3. CASE StopVerb \/ IdleExits \/ Crash
  <2>1. UNCHANGED <<watchRuns, started, ended>> /\ ticks' = [t \in TickIds |-> Idle]
    BY <1>3 DEF disk, StopVerb, IdleExits, Crash, GracefulExit, Down
  <2>2. QED
    BY <1>1, <2>1
<1>4. ASSUME NEW t \in TickIds, StartTick(t) \/ FireThrows(t)
      PROVE  SpacedInv' /\ \A id \in Ids \ Throwing : started'[id] # started[id] => Spaced(id)
  <2>1. UNCHANGED <<watchRuns, ended>>
    BY <1>4 DEF StartTick, FireThrows, disk
  <2>2. PICK now \in Nat, todo \in Seq(MadeWatch) : Proceed(t, now, todo, watchRuns')
    <3>1. CASE StartTick(t)
      <4>1. Proceed(t, clock, watches, watchRuns') /\ clock \in Nat /\ watches \in Seq(MadeWatch)
        BY <2>1, <3>1 DEF StartTick, WatchTyped
      <4>2. QED
        BY <4>1
    <3>2. CASE FireThrows(t)
      <4>1. Proceed(t, ticks[t].now, ticks[t].todo, watchRuns') /\ ticks[t] # Idle
        BY <2>1, <3>2 DEF FireThrows
      <4>2. ticks[t].now \in Nat /\ ticks[t].todo \in Seq(MadeWatch)
        BY <4>1, UnderWay
      <4>3. QED
        BY <4>1, <4>2
    <3>3. QED
      BY <1>4, <3>1, <3>2
  <2>3. ended' \in [Ids -> Nat] /\ watchRuns' \in [Ids -> Run \cup {NoWatch}]
        /\ \A id \in Ids : ended'[id] \in {ended[id], started[id].n}
    BY <2>1 DEF SpacedInv, WatchTyped
  <2>4. \A id \in Ids \ Throwing : started[id].n > 0 /\ ended'[id] = started[id].n
               => Recorded(id, watchRuns') /\ \A s \in TickIds \ {t} : ~FiredBy(s, id)
    BY <2>1 DEF SpacedInv
  <2>5. QED
    BY <2>2, <2>3, <2>4, SpacedProceed
<1>5. ASSUME NEW t \in TickIds, FireReturns(t)
      PROVE  SpacedInv' /\ \A id \in Ids \ Throwing : started'[id] # started[id] => Spaced(id)
  <2> DEFINE f == ticks[t].firing.id
             run == [at |-> ticks[t].now, expectedBy |-> ticks[t].expectedBy]
  <2>1. /\ ticks[t] # Idle /\ watchRuns' = [watchRuns EXCEPT ![f] = run]
        /\ ended' = IF started[f].alone THEN [ended EXCEPT ![f] = started[f].n] ELSE ended
        /\ Proceed(t, ticks[t].now, ticks[t].todo, watchRuns')
    BY <1>5 DEF FireReturns, recordFired
  <2>2. /\ ticks[t].now \in Nat /\ ticks[t].todo \in Seq(MadeWatch) /\ f \in Ids
        /\ ticks[t].expectedBy \in Nat
    BY <2>1, UnderWay
  <2>3. run \in Run /\ run # NoWatch /\ run.at = ticks[t].now
    BY <2>2, WatchAssumption DEF Run
  <2>4. FiredBy(t, f)
    BY <2>1 DEF FiredBy
  <2> HIDE DEF f, run
  <2>5. /\ watchRuns' \in [Ids -> Run \cup {NoWatch}] /\ watchRuns'[f] = run
        /\ \A id \in Ids \ {f} : watchRuns'[id] = watchRuns[id]
    BY <2>1, <2>2, <2>3 DEF WatchTyped
  <2>6. /\ ended' \in [Ids -> Nat] /\ \A id \in Ids \ {f} : ended'[id] = ended[id]
        /\ ended'[f] = IF started[f].alone THEN started[f].n ELSE ended[f]
    <3>1. started[f].n \in Nat /\ ended \in [Ids -> Nat]
      BY <2>2 DEF WatchTyped, Starts, SpacedInv
    <3>2. CASE started[f].alone
      BY <2>1, <2>2, <3>1, <3>2
    <3>3. CASE ~started[f].alone
      BY <2>1, <3>1, <3>3
    <3>4. QED
      BY <3>2, <3>3
  <2>7. \A id \in Ids : ended'[id] \in {ended[id], started[id].n}
    BY <2>6
  <2>8. ASSUME NEW id \in Ids \ Throwing, started[id].n > 0, ended'[id] = started[id].n
        PROVE  Recorded(id, watchRuns') /\ \A s \in TickIds \ {t} : ~FiredBy(s, id)
    <3>1. CASE id # f
      <4>1. ended[id] = started[id].n
        BY <2>6, <2>8, <3>1
      <4>2. Recorded(id, watchRuns) /\ \A s \in TickIds : ~FiredBy(s, id)
        BY <2>8, <4>1 DEF SpacedInv
      <4>3. QED
        BY <2>5, <3>1, <4>2 DEF Recorded
    <3>2. CASE id = f /\ ~started[f].alone
      <4>1. ended[f] = started[f].n /\ started[f].n > 0
        BY <2>6, <2>8, <3>2
      <4>2. ~FiredBy(t, f)
        BY <2>8, <3>2, <4>1 DEF SpacedInv
      <4>3. QED
        BY <2>4, <4>2
    <3>3. CASE id = f /\ started[f].alone
      <4>1. ticks[t].now = started[f].now /\ \A s \in TickIds : FiredBy(s, f) => s = t
        BY <2>2, <2>4, <3>3 DEF SpacedInv
      <4>2. QED
        BY <2>3, <2>5, <3>3, <4>1 DEF Recorded
    <3>4. QED
      BY <3>1, <3>2, <3>3
  <2>9. QED
    BY <2>1, <2>2, <2>5, <2>6, <2>7, <2>8, SpacedProceed
<1>6. QED
  BY <1>2, <1>3, <1>4, <1>5 DEF Next

\* After a run that was alone and returned, the next is one of a tick a cadence later than
\* its own, and the first one comes a cadence after the watch was created, whatever stops,
\* crashes, sleeps, slow runs and overlapping ticks there are.
THEOREM FiresOncePerWindow == ASSUME MaxMade <= 1 PROVE Spec => FiresOncePerCadence
<1>1. Init => ReceiptInv /\ SpacedInv
  <2>1. Init => SpacedInv
    BY DEF Init, SpacedInv, FiredBy
  <2>2. QED
    BY <2>1, ReceiptStart
<1>2. ReceiptInv /\ SpacedInv /\ [Next]_vars => ReceiptInv' /\ SpacedInv'
  BY UptimeStep, RunsStep, SpacedStep DEF ReceiptInv
<1>3. ReceiptInv /\ SpacedInv /\ [Next]_vars =>
        [\A id \in Ids \ Throwing : started'[id] # started[id]
            => \/ started[id].n = 0 \/ ended[id] # started[id].n
               \/ started'[id].now >= started[id].now + Cadence]_vars
  BY SpacedStep DEF ReceiptInv, Spaced
<1>4. Spec => SpacedByCadence
  BY <1>1, <1>2, <1>3, PTL DEF Spec, SpacedByCadence
<1>5. Spec => GracePeriod
  BY NoRunBeforeItsTime
<1>6. QED
  BY <1>4, <1>5 DEF FiresOncePerCadence
=============================================================================
