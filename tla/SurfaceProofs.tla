---------------------------- MODULE SurfaceProofs ---------------------------
(***************************************************************************)
(* The gate of the daemon, the pages, the MCP endpoint, the inbound        *)
(* webhook, the external signer, the desktop and the plan of a manifest,   *)
(* for any number of tickets, bearers, tabs, requests, retries, restarts   *)
(* and steps.                                                              *)
(***************************************************************************)
EXTENDS Gate, Shell, Mcp, InboundWebhook, Signer, Desktop, Plan,
        FiniteSetTheorems, SequenceTheorems, WellFoundedInduction, TLAPS

-----------------------------------------------------------------------------
(* What the gate of the daemon guarantees for any number of tickets,       *)
(* bearers, restarts and lost state directories.                           *)

Life == {"none", "fresh", "late", "gone"}

\* Names are where names belong.
NamesTyped ==
    /\ minted \in [Ticket -> [kind : Kinds \union {Unset}, life : Life]]
    /\ redeeming \in Ticket \union {Unset}
    /\ \A l \in links : l.nonce \in Ticket

\* A name that was honoured was honoured once, as what it is, and is gone.
SpentNames ==
    /\ honoured \in [Ticket -> SUBSET (Kinds \X {0})]
    /\ \A t \in Ticket : honoured[t] # {} =>
          minted[t].life = "gone" /\ honoured[t] = {<<minted[t].kind, 0>>}

ConsentInv == NamesTyped /\ SpentNames

\* A step that grants nothing leaves what was granted, if names that are gone
\* stay gone and keep their map.
LEMMA GrantsNothing ==
    ASSUME SpentNames, honoured' = honoured,
           \A t \in Ticket : minted[t].life = "gone" =>
               minted'[t].life = "gone" /\ minted'[t].kind = minted[t].kind
    PROVE  SpentNames'
  BY DEF SpentNames

\* A name that is minted was not there before.
LEMMA Issued ==
    ASSUME NamesTyped, NEW t \in Ticket, NEW kind \in Kinds, issues(t, kind)
    PROVE  /\ minted' \in [Ticket -> [kind : Kinds \union {Unset}, life : Life]]
           /\ \A u \in Ticket : minted[u].life = "gone" =>
                 minted'[u].life = "gone" /\ minted'[u].kind = minted[u].kind
  BY DEF NamesTyped, issues, Life

\* A name that is presented changes at most to being gone.
LEMMA Presented ==
    ASSUME NamesTyped, NEW t \in Ticket, NEW kind \in Kinds, redeem(t, kind)
    PROVE  /\ minted' \in [Ticket -> [kind : Kinds \union {Unset}, life : Life]]
           /\ \A u \in Ticket : minted'[u].kind = minted[u].kind
           /\ \A u \in Ticket : minted[u].life = "gone" => minted'[u].life = "gone"
           /\ \A u \in Ticket : u # t => minted'[u] = minted[u]
           /\ valid(t, kind) => minted'[t].life = "gone"
  BY DEF NamesTyped, redeem, valid, Life

\* A request that is granted spends its name.
LEMMA Granted ==
    ASSUME ConsentInv, NEW t \in Ticket, NEW kind \in Kinds,
           valid(t, kind), redeem(t, kind), honours(t, kind)
    PROVE  SpentNames'
<1>1. minted[t].kind = kind /\ minted[t].life = "fresh"
  BY DEF valid
<1>2. honoured[t] = {}
  BY <1>1 DEF ConsentInv, SpentNames
<1>3. Cardinality(honoured[t]) = 0
  BY <1>2, FS_EmptySet
<1>4. honoured' = [honoured EXCEPT ![t] = {<<kind, 0>>}]
  BY <1>2, <1>3 DEF honours
<1>5. minted'[t].kind = kind /\ minted'[t].life = "gone"
  BY <1>1, Presented DEF ConsentInv
<1>6. honoured' \in [Ticket -> SUBSET (Kinds \X {0})]
  BY <1>4 DEF ConsentInv, SpentNames
<1>7. ASSUME NEW u \in Ticket, honoured'[u] # {}
      PROVE  minted'[u].life = "gone" /\ honoured'[u] = {<<minted'[u].kind, 0>>}
  <2>1. CASE u = t
    BY <2>1, <1>4, <1>5 DEF ConsentInv, SpentNames
  <2>2. CASE u # t
    <3>1. honoured'[u] = honoured[u]
      BY <2>2, <1>4 DEF ConsentInv, SpentNames
    <3>2. minted'[u] = minted[u]
      BY <2>2, Presented DEF ConsentInv
    <3>3. QED
      BY <1>7, <3>1, <3>2 DEF ConsentInv, SpentNames
  <2>3. QED
    BY <2>1, <2>2
<1>8. QED
  BY <1>6, <1>7 DEF SpentNames

\* A request with a name keeps the invariant, granted or not.
LEMMA Asked ==
    ASSUME ConsentInv, NEW t \in Ticket, NEW kind \in Kinds, redeem(t, kind),
           honoured' = honoured \/ (valid(t, kind) /\ honours(t, kind))
    PROVE  SpentNames'
<1>1. CASE honoured' = honoured
  BY <1>1, Presented, GrantsNothing DEF ConsentInv
<1>2. CASE valid(t, kind) /\ honours(t, kind)
  BY <1>2, Granted
<1>3. QED
  BY <1>1, <1>2

\* No name is issued or honoured before the daemon has run.
LEMMA ConsentStart == GateInit => ConsentInv
  BY DEF GateInit, ConsentInv, NamesTyped, SpentNames, Life

\* Every step keeps a name that was honoured gone.
LEMMA ConsentStep == ConsentInv /\ [GateNext]_gateVars => ConsentInv'
<1> SUFFICES ASSUME ConsentInv, [GateNext]_gateVars PROVE ConsentInv'
  OBVIOUS
<1> USE DEF ConsentInv
<1>k. "pair" \in Kinds /\ "export" \in Kinds /\ "signer" \in Kinds
  BY DEF Kinds
<1>1. ASSUME NEW t \in Ticket, Expire(t) PROVE ConsentInv'
  <2>1. NamesTyped'
    BY <1>1 DEF Expire, NamesTyped, Life
  <2>2. \A u \in Ticket : minted[u].life = "gone" =>
            minted'[u].life = "gone" /\ minted'[u].kind = minted[u].kind
    BY <1>1 DEF Expire, NamesTyped
  <2>3. QED
    BY <1>1, <2>1, <2>2, GrantsNothing DEF Expire
<1>2. ASSUME NEW t \in Ticket, handsOutLink(t) PROVE ConsentInv'
  <2>1. issues(t, "pair") /\ honoured' = honoured /\ redeeming' = redeeming
        /\ links' = links \union {pairingUrl(t)}
    BY <1>2 DEF handsOutLink
  <2>2. NamesTyped'
    BY <2>1, <1>k, Issued DEF NamesTyped, pairingUrl
  <2>3. QED
    BY <2>1, <2>2, <1>k, Issued, GrantsNothing
<1>3. ASSUME NEW t \in Ticket, NEW kind \in {"export", "signer"}, mintsTicket(t, kind)
      PROVE  ConsentInv'
  <2>1. issues(t, kind) /\ honoured' = honoured /\ redeeming' = redeeming /\ links' = links
    BY <1>3 DEF mintsTicket
  <2>2. kind \in Kinds
    BY DEF Kinds
  <2>3. NamesTyped'
    BY <2>1, <2>2, Issued DEF NamesTyped
  <2>4. QED
    BY <2>1, <2>2, <2>3, Issued, GrantsNothing
<1>4. ASSUME NEW t \in Ticket, NEW k \in Credential, cmdStart(t, k) PROVE ConsentInv'
  <2>1. issues(t, "pair") /\ honoured' = honoured /\ redeeming' = redeeming
        /\ links' = links \union {[bearer |-> tokenFile', nonce |-> t]}
    BY <1>4 DEF cmdStart
  <2>2. NamesTyped'
    BY <2>1, <1>k, Issued DEF NamesTyped
  <2>3. QED
    BY <2>1, <2>2, <1>k, Issued, GrantsNothing
<1>5. ASSUME NEW t \in Ticket, evidenceExport(t) PROVE ConsentInv'
  <2>1. redeem(t, "export") /\ redeeming' = redeeming /\ links' = links
        /\ (honoured' = honoured \/ (valid(t, "export") /\ honours(t, "export")))
    BY <1>5 DEF evidenceExport
  <2>2. NamesTyped'
    BY <2>1, <1>k, Presented DEF NamesTyped
  <2>3. QED
    BY <2>1, <2>2, <1>k, Asked
<1>6. ASSUME NEW t \in Ticket, NEW config \in 0..1, handleSignerConfigUpdate(t, config)
      PROVE  ConsentInv'
  <2>1. redeem(t, "signer") /\ redeeming' = redeeming /\ links' = links
        /\ (honoured' = honoured \/ (valid(t, "signer") /\ honours(t, "signer")))
    BY <1>6 DEF handleSignerConfigUpdate
  <2>2. NamesTyped'
    BY <2>1, <1>k, Presented DEF NamesTyped
  <2>3. QED
    BY <2>1, <2>2, <1>k, Asked
<1>7. CASE handlePairRedeem
  <2>1. redeeming \in Ticket
    BY <1>7 DEF handlePairRedeem, NamesTyped
  <2>2. redeem(redeeming, "pair") /\ redeeming' = Unset /\ links' = links
        /\ (honoured' = honoured \/ (valid(redeeming, "pair") /\ honours(redeeming, "pair")))
    BY <1>7 DEF handlePairRedeem
  <2>3. NamesTyped'
    BY <2>1, <2>2, <1>k, Presented DEF NamesTyped
  <2>4. QED
    BY <2>1, <2>2, <2>3, <1>k, Asked
<1>8. CASE leaves
  <2>1. minted' = [t \in Ticket |-> IF minted[t].life = "none" THEN minted[t]
                                    ELSE [minted[t] EXCEPT !.life = "gone"]]
        /\ honoured' = honoured /\ redeeming' = redeeming /\ links' = links
    BY <1>8 DEF leaves
  <2>2. minted' \in [Ticket -> [kind : Kinds \union {Unset}, life : Life]]
    BY <2>1 DEF NamesTyped, Life
  <2>3. \A u \in Ticket : minted[u].life = "gone" =>
            minted'[u].life = "gone" /\ minted'[u].kind = minted[u].kind
    BY <2>1 DEF NamesTyped
  <2>4. QED
    BY <2>1, <2>2, <2>3, GrantsNothing DEF NamesTyped
<1>9. ASSUME NEW l \in links, bootTab(l) PROVE ConsentInv'
  BY <1>9 DEF bootTab, NamesTyped, SpentNames
<1>10. ASSUME minted' = minted, honoured' = honoured, links' = links,
              redeeming' = redeeming \/ redeeming' = Unset
       PROVE  ConsentInv'
  BY <1>10 DEF NamesTyped, SpentNames
<1>11. CASE unpair \/ redeemFails \/ runsOn \/ approve \/ handleRunResume \/ wipe
  BY <1>10, <1>11 DEF unpair, redeemFails, runsOn, approve, handleRunResume, wipe
<1>12. ASSUME NEW dry \in BOOLEAN, NEW hold \in {"none", "approval", "data"},
              handleRunStart(dry, hold) \/ callTool(dry, hold)
       PROVE  ConsentInv'
  BY <1>10, <1>12 DEF handleRunStart, callTool, launches
<1>13. CASE UNCHANGED gateVars
  BY <1>10, <1>13 DEF gateVars
<1>14. QED
  BY <1>1, <1>2, <1>3, <1>4, <1>5, <1>6, <1>7, <1>8, <1>9, <1>11, <1>12, <1>13
     DEF GateNext, handlePairRelink, cmdOpen, idleExit, stopped

\* A nonce or a ticket is honoured at most once and for what it was minted for, in
\* whatever order any number of callers present any number of names, through
\* restarts (the redeem functions of hub/token.mjs).
THEOREM GateConsentSpentOnce == GateSpec => []ConsentSpentOnce
<1>1. ConsentInv => ConsentSpentOnce
  <2> SUFFICES ASSUME ConsentInv, NEW t \in Ticket
               PROVE  /\ Cardinality(honoured[t]) <= 1
                      /\ \A g \in honoured[t] : g[1] = minted[t].kind /\ minted[t].life = "gone"
    BY DEF ConsentSpentOnce
  <2>1. CASE honoured[t] = {}
    BY <2>1, FS_EmptySet
  <2>2. CASE honoured[t] # {}
    <3>1. honoured[t] = {<<minted[t].kind, 0>>} /\ minted[t].life = "gone"
      BY <2>2 DEF ConsentInv, SpentNames
    <3>2. Cardinality(honoured[t]) = 1
      BY <3>1, FS_Singleton
    <3>3. QED
      BY <3>1, <3>2
  <2>3. QED
    BY <2>1, <2>2
<1>2. QED
  BY <1>1, ConsentStart, ConsentStep, PTL DEF GateSpec
-----------------------------------------------------------------------------
(* Runs.                                                                   *)
\* A run has a dispatcher only if a REST call started it or took it up; this
\* is what executes looks at.
JobInv ==
    /\ job \in [dry : BOOLEAN, hold : {"none", "approval", "data"},
                state : {"none", "running", "awaiting_data", "failed", "completed"},
                dispatcher : BOOLEAN, sent : BOOLEAN, rest : BOOLEAN]
    /\ job.dispatcher => job.rest
    /\ AgentSendsNothing

\* The steps of a run that are executed.
LEMMA Executed ==
    ASSUME NEW j \in [dry : BOOLEAN, hold : {"none", "approval", "data"},
                      state : {"none", "running", "awaiting_data", "failed", "completed"},
                      dispatcher : BOOLEAN, sent : BOOLEAN, rest : BOOLEAN],
           j.dispatcher => j.rest, j.sent => ~j.dry /\ j.rest, job' = executes(j)
    PROVE  JobInv'
<1>1. CASE j.hold # "none"
  BY <1>1 DEF executes, JobInv, AgentSendsNothing
<1>2. CASE j.hold = "none" /\ ~j.dispatcher
  BY <1>2 DEF executes, JobInv, AgentSendsNothing
<1>3. CASE j.hold = "none" /\ j.dispatcher
  BY <1>3 DEF executes, JobInv, AgentSendsNothing
<1>4. QED
  BY <1>1, <1>2, <1>3

\* Nothing is sent for an agent's run, or in a dry run, however starts, approvals,
\* resumes and restarts follow each other (callTool of hub/mcp.mjs passes no
\* callerOrigin; handleRunResume of hub/server.mjs gives a dispatcher).
THEOREM GateAgentSendsNothing == GateSpec => []AgentSendsNothing
<1>1. GateInit => JobInv
  BY DEF GateInit, JobInv, NoJob, AgentSendsNothing
<1>2. JobInv /\ [GateNext]_gateVars => JobInv'
  <2> SUFFICES ASSUME JobInv, [GateNext]_gateVars PROVE JobInv'
    OBVIOUS
  <2>1. ASSUME NEW dry \in BOOLEAN, NEW hold \in {"none", "approval", "data"}, handleRunStart(dry, hold)
        PROVE  JobInv'
    BY <2>1 DEF handleRunStart, launches, JobInv, AgentSendsNothing
  <2>2. ASSUME NEW dry \in BOOLEAN, NEW hold \in {"none", "approval", "data"}, callTool(dry, hold)
        PROVE  JobInv'
    BY <2>2, GateAssumption DEF callTool, launches, JobInv, AgentSendsNothing
  <2>3. CASE runsOn
    BY <2>3, Executed DEF runsOn, JobInv, AgentSendsNothing
  <2>4. CASE approve
    BY <2>4 DEF approve, JobInv, AgentSendsNothing
  <2>5. CASE handleRunResume
    <3>1. CASE job.hold = "data"
      BY <2>5, <3>1 DEF handleRunResume, JobInv, AgentSendsNothing
    <3>2. CASE job.hold # "data"
      <4> DEFINE j == [job EXCEPT !.dispatcher = TRUE, !.rest = TRUE]
      <4>1. j \in [dry : BOOLEAN, hold : {"none", "approval", "data"},
                   state : {"none", "running", "awaiting_data", "failed", "completed"},
                   dispatcher : BOOLEAN, sent : BOOLEAN, rest : BOOLEAN]
        BY DEF JobInv
      <4>2. j.rest /\ (j.sent => ~j.dry)
        BY DEF JobInv, AgentSendsNothing
      <4>3. job' = executes(j)
        BY <2>5, <3>2 DEF handleRunResume
      <4> HIDE DEF j
      <4>4. QED
        BY <4>1, <4>2, <4>3, Executed
    <3>3. QED
      BY <3>1, <3>2
  <2>6. CASE wipe
    BY <2>6 DEF wipe, NoJob, JobInv, AgentSendsNothing
  <2>7. ASSUME job' = job PROVE JobInv'
    BY <2>7 DEF JobInv, AgentSendsNothing
  <2>8. CASE unpair \/ redeemFails \/ handlePairRedeem \/ leaves \/ UNCHANGED gateVars
    BY <2>7, <2>8 DEF unpair, redeemFails, handlePairRedeem, leaves, gateVars
  <2>9. ASSUME NEW t \in Ticket,
               \/ Expire(t) \/ handsOutLink(t) \/ evidenceExport(t)
               \/ \E kind \in {"export", "signer"} : mintsTicket(t, kind)
               \/ \E config \in 0..1 : handleSignerConfigUpdate(t, config)
               \/ \E k \in Credential : cmdStart(t, k)
        PROVE  JobInv'
    BY <2>7, <2>9 DEF Expire, handsOutLink, evidenceExport, mintsTicket, handleSignerConfigUpdate, cmdStart
  <2>10. ASSUME NEW l \in links, bootTab(l) PROVE JobInv'
    BY <2>7, <2>10 DEF bootTab
  <2>11. QED
    BY <2>1, <2>2, <2>3, <2>4, <2>5, <2>6, <2>8, <2>9, <2>10
       DEF GateNext, handlePairRelink, cmdOpen, idleExit, stopped
<1>3. JobInv => AgentSendsNothing
  BY DEF JobInv
<1>4. QED
  BY <1>1, <1>2, <1>3, PTL DEF GateSpec
-----------------------------------------------------------------------------
(* What a page shows as live or stale, for any number of tabs, overlapping *)
(* calls, outages, reinstallations and writes of other tabs to the cache.  *)

Value == Nat \union {Blank, Null}
CallRecord == [tab : BrowserTab \union {Blank}, kind : {"view", "health", "probe", Blank},
               bearer : Value, status : Value, data : Value, since : Value]
ViewState == {"checking", "running", "stopped", "live", "stale", "unavailable", "missing",
              "too-old", "not-paired"}
ViewRecord == [state : ViewState, data : Value, since : Value]
Daemon == [up : BOOLEAN, install : Nat, data : Nat, route : BOOLEAN]

ShellTyped ==
    /\ helmd \in Daemon
    /\ cache \in Value /\ served \subseteq Nat \union {Null}
    /\ bearer \in [BrowserTab -> Value]
    /\ calls \in [Slots -> CallRecord]
    /\ view \in [BrowserTab -> ViewRecord]

\* What an admitted call carries: something the daemon held since it was made and has
\* said, or null if the answer broke off, which its tab then knows.
Carries(q, data, said, cut) ==
    q.status = 200 => /\ q.data \in q.since .. data \/ (q.data = Null /\ q.tab \in cut)
                      /\ q.data \in said

\* A call that was made knows what the daemon held then; one that was answered is a tab's.
CallsCarryAnswers ==
    \A c \in Slots :
        /\ calls[c].tab # Blank => calls[c].since \in 0..helmd.data
        /\ calls[c].status # Blank => calls[c].tab # Blank
        /\ Carries(calls[c], helmd.data, served, broken)

CacheWasServed == cache # Blank => cache \in served

ShellInv == ShellTyped /\ CallsCarryAnswers /\ CacheWasServed /\ NeverInvents

\* The daemon answers a call with one of three statuses.
LEMMA StatusValues == ASSUME NEW q PROVE statusOf(q) \in {200, 401, 404}
  BY DEF statusOf

\* A call that is made has no answer yet.
LEMMA Asking ==
    ASSUME ShellTyped, NEW tab \in BrowserTab, NEW kind \in {"view", "health", "probe"},
           NEW b \in Value
    PROVE  /\ request(tab, kind, b) \in CallRecord
           /\ request(tab, kind, b).status = Blank
           /\ request(tab, kind, b).since = helmd.data
  BY DEF request, CallRecord, Value, ShellTyped, Daemon

\* The pairing form shows nothing of the daemon.
LEMMA EmptyTyped == Empty \in ViewRecord /\ Empty.state \notin {"live", "stale"}
  BY DEF Empty, ViewRecord, ViewState, Value

\* An answer, or its loss, changes two fields of one call.
LEMMA Answered ==
    ASSUME ShellTyped, NEW c \in Slots, NEW s \in Nat, NEW x \in Value,
           calls' = [calls EXCEPT ![c].status = s, ![c].data = x]
    PROVE  /\ calls' \in [Slots -> CallRecord]
           /\ calls'[c].tab = calls[c].tab /\ calls'[c].since = calls[c].since
           /\ calls'[c].status = s /\ calls'[c].data = x
           /\ \A d \in Slots : d # c => calls'[d] = calls[d]
<1> DEFINE r == [calls[c] EXCEPT !.status = s, !.data = x]
<1>1. calls[c] \in CallRecord /\ s \in Value
  BY DEF ShellTyped, Value
<1>2. /\ r \in CallRecord /\ r.tab = calls[c].tab /\ r.since = calls[c].since
      /\ r.status = s /\ r.data = x
  BY <1>1 DEF CallRecord
<1>3. calls' = [calls EXCEPT ![c] = r]
  BY DEF ShellTyped
<1> HIDE DEF r
<1>4. QED
  BY <1>2, <1>3 DEF ShellTyped

\* A daemon that stops or starts holds the data it held.
LEMMA DaemonUp ==
    ASSUME NEW h \in Daemon, NEW u \in BOOLEAN
    PROVE  [h EXCEPT !.up = u] \in Daemon /\ [h EXCEPT !.up = u].data = h.data
  BY DEF Daemon

\* Another version of the daemon holds the data the last one held.
LEMMA DaemonRoute ==
    ASSUME NEW h \in Daemon, NEW r \in BOOLEAN
    PROVE  [h EXCEPT !.route = r, !.up = TRUE] \in Daemon
           /\ [h EXCEPT !.route = r, !.up = TRUE].data = h.data
  BY DEF Daemon

\* What the daemon holds only grows.
LEMMA DaemonNewer ==
    ASSUME NEW h \in Daemon
    PROVE  [h EXCEPT !.data = @ + 1] \in Daemon /\ [h EXCEPT !.data = @ + 1].data >= h.data
<1>1. h.data \in Nat /\ h.data + 1 \in Nat /\ h.data + 1 >= h.data
  BY DEF Daemon
<1>2. QED
  BY <1>1 DEF Daemon

\* A daemon that is installed again holds data no tab has seen.
LEMMA DaemonAnew ==
    ASSUME NEW h \in Daemon
    PROVE  /\ [h EXCEPT !.install = @ + 1, !.data = @ + 1, !.up = TRUE] \in Daemon
           /\ [h EXCEPT !.install = @ + 1, !.data = @ + 1, !.up = TRUE].data >= h.data
<1>1. h.install + 1 \in Nat /\ h.data + 1 \in Nat /\ h.data + 1 >= h.data
  BY DEF Daemon
<1>2. QED
  BY <1>1 DEF Daemon

\* A free slot carries no answer.
LEMMA NoCallTyped == NoCall \in CallRecord /\ NoCall.status = Blank /\ NoCall.tab = Blank
  BY DEF NoCall, CallRecord, Value

\* A slot that takes a new call, or none, leaves the others as they are.
LEMMA SlotTaken ==
    ASSUME ShellInv, NEW c \in Slots, NEW r \in CallRecord, r.status = Blank,
           r.tab # Blank => r.since = helmd.data,
           calls' = [calls EXCEPT ![c] = r], helmd' = helmd, served \subseteq served',
           broken' = broken
    PROVE  CallsCarryAnswers' /\ calls' \in [Slots -> CallRecord]
<1>1. calls' \in [Slots -> CallRecord]
  BY DEF ShellInv, ShellTyped
<1>2. helmd.data \in Nat
  BY DEF ShellInv, ShellTyped, Daemon
<1>3. Blank # 200
  BY ShellAssumption
<1>4. ASSUME NEW d \in Slots
      PROVE  /\ calls'[d].tab # Blank => calls'[d].since \in 0..helmd'.data
             /\ calls'[d].status # Blank => calls'[d].tab # Blank
             /\ Carries(calls'[d], helmd'.data, served', broken')
  <2>1. CASE d = c
    BY <2>1, <1>2, <1>3 DEF ShellInv, ShellTyped, Carries
  <2>2. CASE d # c
    <3>1. calls'[d] = calls[d]
      BY <2>2 DEF ShellInv, ShellTyped
    <3>2. /\ calls[d].tab # Blank => calls[d].since \in 0..helmd.data
          /\ calls[d].status # Blank => calls[d].tab # Blank
          /\ Carries(calls[d], helmd.data, served, broken)
      BY DEF ShellInv, CallsCarryAnswers
    <3>3. Carries(calls[d], helmd.data, served', broken)
      BY <3>2 DEF Carries
    <3>4. QED
      BY <3>1, <3>2, <3>3
  <2>3. QED
    BY <2>1, <2>2
<1>5. QED
  BY <1>1, <1>4 DEF CallsCarryAnswers

\* What a page makes of an answer.
LEMMA Shown ==
    ASSUME ShellInv, NEW c \in Slots, calls[c].status # Blank
    PROVE  LET v == classifyBlockedState(fetchWithFallback(calls[c]))
           IN /\ v \in ViewRecord
              /\ v.state = "live" => \/ v.data \in v.since .. helmd.data
                                     \/ v.data = Null /\ calls[c].tab \in broken
              /\ v.state = "stale" => v.data \in served
<1> DEFINE q == calls[c]
<1> USE DEF ViewRecord, ViewState, Value
<1>1. q \in CallRecord /\ cache \in Value /\ Blank \in Value
  BY DEF ShellInv, ShellTyped
<1>2. q.status = 200 => q.data \in q.since .. helmd.data \/ (q.data = Null /\ q.tab \in broken)
  BY DEF ShellInv, CallsCarryAnswers, Carries
<1>3. CASE q.status = 200
  <2>1. fetchWithFallback(q) = [state |-> "live", data |-> q.data, since |-> q.since]
    BY <1>3 DEF fetchWithFallback
  <2>2. classifyBlockedState(fetchWithFallback(q)) = [state |-> "live", data |-> q.data, since |-> q.since]
    BY <2>1 DEF classifyBlockedState
  <2>3. QED
    BY <1>1, <1>2, <1>3, <2>2 DEF CallRecord
<1>4. CASE q.status # 200 /\ cache # Blank
  <2>1. fetchWithFallback(q) = [state |-> "stale", data |-> cache, since |-> Blank]
    BY <1>4 DEF fetchWithFallback
  <2>2. classifyBlockedState(fetchWithFallback(q)) = [state |-> "stale", data |-> cache, since |-> Blank]
    BY <2>1 DEF classifyBlockedState
  <2>3. QED
    BY <1>1, <1>4, <2>2 DEF ShellInv, CacheWasServed
<1>5. CASE q.status # 200 /\ cache = Blank
  <2>1. fetchWithFallback(q) \in {[state |-> "unavailable", data |-> Blank, since |-> Blank],
                                  [state |-> "missing", data |-> Blank, since |-> Blank]}
    BY <1>5 DEF fetchWithFallback
  <2>2. classifyBlockedState(fetchWithFallback(q)) \in
            {[state |-> "too-old", data |-> Blank, since |-> Blank],
             [state |-> "not-paired", data |-> Blank, since |-> Blank]}
    BY <2>1 DEF classifyBlockedState
  <2>3. QED
    BY <1>1, <2>2
<1>6. QED
  BY <1>3, <1>4, <1>5

\* Nothing is shown when the shell starts.
LEMMA ShellStart == ShellInit => ShellInv
<1> SUFFICES ASSUME ShellInit PROVE ShellInv
  OBVIOUS
<1>1. ShellTyped
  BY NoCallTyped, EmptyTyped DEF ShellInit, ShellTyped, Daemon, Value
<1>2. CallsCarryAnswers
  <2>1. ASSUME NEW c \in Slots PROVE calls[c] = NoCall
    BY <2>1 DEF ShellInit
  <2>2. NoCall.status = Blank /\ NoCall.tab = Blank /\ Blank # 200
    BY NoCallTyped, ShellAssumption
  <2>3. QED
    BY <2>1, <2>2 DEF CallsCarryAnswers, Carries
<1>3. QED
  BY <1>1, <1>2 DEF ShellInit, ShellInv, CacheWasServed, NeverInvents, Empty

\* Every step of a tab, of another tab or of the daemon keeps the invariant.
LEMMA ShellStep == ShellInv /\ [ShellNext]_shellVars => ShellInv'
<1> SUFFICES ASSUME ShellInv, [ShellNext]_shellVars PROVE ShellInv'
  OBVIOUS
<1>t. helmd.data \in Nat /\ Blank \notin Nat
  BY ShellAssumption DEF ShellInv, ShellTyped, Daemon
<1>1. ASSUME NEW c \in Slots, answers(c) PROVE ShellInv'
  <2> DEFINE s == statusOf(calls[c])
  <2>1. s \in {200, 401, 404}
    BY StatusValues
  <2>2. calls' = [calls EXCEPT ![c].status = s, ![c].data = IF s = 200 THEN helmd.data ELSE Blank]
        /\ served' = (IF s = 200 THEN served \union {helmd.data} ELSE served)
        /\ calls[c].tab # Blank /\ UNCHANGED <<helmd, cache, bearer, view, light, broken>>
    BY <1>1 DEF answers
  <2> HIDE DEF s
  <2>a. /\ calls' \in [Slots -> CallRecord]
        /\ calls'[c].tab = calls[c].tab /\ calls'[c].since = calls[c].since
        /\ calls'[c].status = s /\ calls'[c].data = (IF s = 200 THEN helmd.data ELSE Blank)
        /\ \A d \in Slots : d # c => calls'[d] = calls[d]
    <3>1. s \in Nat /\ (IF s = 200 THEN helmd.data ELSE Blank) \in Value
      BY <1>t, <2>1 DEF Value
    <3> DEFINE x == IF s = 200 THEN helmd.data ELSE Blank
    <3>2. x \in Value /\ calls' = [calls EXCEPT ![c].status = s, ![c].data = x]
      BY <2>2, <3>1
    <3> HIDE DEF x
    <3>3. /\ calls' \in [Slots -> CallRecord]
          /\ calls'[c].tab = calls[c].tab /\ calls'[c].since = calls[c].since
          /\ calls'[c].status = s /\ calls'[c].data = x
          /\ \A d \in Slots : d # c => calls'[d] = calls[d]
      BY <3>1, <3>2, Answered DEF ShellInv
    <3>4. QED
      BY <3>3 DEF x
  <2>3. ShellTyped'
    BY <1>t, <2>2, <2>a DEF ShellInv, ShellTyped
  <2>4. ASSUME NEW d \in Slots
        PROVE  /\ calls'[d].tab # Blank => calls'[d].since \in 0..helmd'.data
               /\ calls'[d].status # Blank => calls'[d].tab # Blank
               /\ Carries(calls'[d], helmd'.data, served', broken')
    <3>1. CASE d = c
      <4>1. calls'[d].tab = calls[d].tab /\ calls'[d].since = calls[d].since /\ calls'[d].status = s
            /\ (s = 200 => calls'[d].data = helmd.data)
        BY <3>1, <2>a
      <4>2. calls[d].since \in 0..helmd.data
        BY <3>1, <2>2 DEF ShellInv, CallsCarryAnswers
      <4>3. ASSUME s = 200
            PROVE  calls'[d].data \in calls'[d].since .. helmd'.data /\ calls'[d].data \in served'
        BY <4>1, <4>2, <4>3, <1>t, <2>2
      <4>4. Carries(calls'[d], helmd'.data, served', broken')
        BY <4>1, <4>3 DEF Carries
      <4>5. helmd' = helmd /\ calls[d].tab # Blank
        BY <3>1, <2>2
      <4>6. QED
        BY <4>1, <4>2, <4>4, <4>5
    <3>2. CASE d # c
      <4>1. calls'[d] = calls[d] /\ helmd' = helmd /\ served \subseteq served' /\ broken' = broken
        BY <3>2, <2>2, <2>a
      <4>2. QED
        BY <4>1 DEF ShellInv, CallsCarryAnswers, Carries
    <3>3. QED
      BY <3>1, <3>2
  <2>5. CallsCarryAnswers'
    BY <2>4 DEF CallsCarryAnswers
  <2>6. QED
    BY <2>2, <2>3, <2>5 DEF ShellInv, CacheWasServed, NeverInvents
<1>2. ASSUME NEW c \in Slots, aborts(c) PROVE ShellInv'
  <2>0. calls' = [calls EXCEPT ![c].status = 0, ![c].data = Blank] /\ calls[c].tab # Blank
        /\ UNCHANGED <<helmd, cache, bearer, view, served, broken>>
    BY <1>2 DEF aborts
  <2>2. /\ calls' \in [Slots -> CallRecord]
        /\ calls'[c].tab = calls[c].tab /\ calls'[c].since = calls[c].since
        /\ calls'[c].status = 0
        /\ \A d \in Slots : d # c => calls'[d] = calls[d]
    BY <2>0, Answered, 0 \in Nat, Blank \in Value DEF ShellInv, Value
  <2>1. ShellTyped'
    BY <2>0, <2>2 DEF ShellInv, ShellTyped
  <2>3. CallsCarryAnswers'
    <3>1. ASSUME NEW d \in Slots
          PROVE  /\ calls'[d].tab # Blank => calls'[d].since \in 0..helmd'.data
                 /\ calls'[d].status # Blank => calls'[d].tab # Blank
                 /\ Carries(calls'[d], helmd'.data, served', broken')
      <4>1. CASE d = c
        BY <4>1, <2>0, <2>2 DEF ShellInv, CallsCarryAnswers, Carries
      <4>2. CASE d # c
        BY <4>2, <2>0, <2>2 DEF ShellInv, CallsCarryAnswers, Carries
      <4>3. QED
        BY <4>1, <4>2
    <3>2. QED
      BY <3>1 DEF CallsCarryAnswers
  <2>4. QED
    BY <2>0, <2>1, <2>3 DEF ShellInv, CacheWasServed, NeverInvents
<1>3. ASSUME NEW c \in Slots, viewRenders(c) PROVE ShellInv'
  <2> DEFINE q == calls[c]
             v == classifyBlockedState(fetchWithFallback(q))
  <2>1. q \in CallRecord /\ q.status # Blank /\ q.tab \in BrowserTab /\ q.bearer \in Value
    BY <1>3 DEF viewRenders, ShellInv, ShellTyped, CallsCarryAnswers, CallRecord
  <2>2. /\ v \in ViewRecord
        /\ v.state = "live" => \/ v.data \in v.since .. helmd.data
                               \/ v.data = Null /\ q.tab \in broken
        /\ v.state = "stale" => v.data \in served
    BY <2>1, Shown
  <2>3. view' = [view EXCEPT ![q.tab] = v] /\ UNCHANGED <<helmd, bearer, light, served, broken>>
        /\ cache' = (IF q.status = 200 THEN q.data ELSE cache)
        /\ calls' = [calls EXCEPT ![c] = request(q.tab, "health", q.bearer)]
    BY <1>3 DEF viewRenders
  <2> HIDE DEF v
  <2>4. CallsCarryAnswers' /\ calls' \in [Slots -> CallRecord]
    <3>1. request(q.tab, "health", q.bearer) \in CallRecord
          /\ request(q.tab, "health", q.bearer).status = Blank
          /\ request(q.tab, "health", q.bearer).since = helmd.data
      BY <2>1, Asking DEF ShellInv
    <3>2. QED
      BY <2>3, <3>1, SlotTaken
  <2>5. CacheWasServed' /\ cache' \in Value
    BY <2>1, <2>3 DEF ShellInv, ShellTyped, CacheWasServed, CallsCarryAnswers, Carries, CallRecord,
                      Value
  <2>6. view' \in [BrowserTab -> ViewRecord] /\ NeverInvents'
    BY <2>1, <2>2, <2>3 DEF ShellInv, ShellTyped, NeverInvents
  <2>7. QED
    BY <2>3, <2>4, <2>5, <2>6 DEF ShellInv, ShellTyped
<1>4. ASSUME NEW c \in Slots, refreshConnectivity(c) PROVE ShellInv'
  <2>1. calls' = [calls EXCEPT ![c] = NoCall] /\ UNCHANGED <<helmd, cache, bearer, view, served, broken>>
    BY <1>4 DEF refreshConnectivity
  <2>2. CallsCarryAnswers' /\ calls' \in [Slots -> CallRecord]
    BY <2>1, NoCallTyped, SlotTaken
  <2>3. QED
    BY <2>1, <2>2 DEF ShellInv, ShellTyped, CacheWasServed, NeverInvents
<1>5. ASSUME NEW c \in Slots, probeHelmdReachable(c) PROVE ShellInv'
  <2>1. calls' = [calls EXCEPT ![c] = NoCall] /\ UNCHANGED <<helmd, cache, bearer, light, served, broken>>
    BY <1>5 DEF probeHelmdReachable
  <2>2. CallsCarryAnswers' /\ calls' \in [Slots -> CallRecord]
    BY <2>1, NoCallTyped, SlotTaken
  <2>3. calls[c].tab \in BrowserTab
    BY <1>5 DEF probeHelmdReachable, ShellInv, ShellTyped, CallsCarryAnswers, CallRecord
  <2>4. \/ view' = view
        \/ \E st \in {"running", "stopped"} : view' = [view EXCEPT ![calls[c].tab].state = st]
    BY <1>5 DEF probeHelmdReachable
  <2>5. view' \in [BrowserTab -> ViewRecord] /\ NeverInvents'
    <3>1. CASE view' = view
      BY <2>1, <3>1 DEF ShellInv, ShellTyped, NeverInvents
    <3>2. ASSUME NEW st \in {"running", "stopped"}, view' = [view EXCEPT ![calls[c].tab].state = st]
          PROVE  view' \in [BrowserTab -> ViewRecord] /\ NeverInvents'
      <4>1. view' \in [BrowserTab -> ViewRecord]
        <5>1. view[calls[c].tab] \in ViewRecord
          BY <2>3 DEF ShellInv, ShellTyped
        <5>2. [view[calls[c].tab] EXCEPT !.state = st] \in ViewRecord
          BY <5>1, <3>2 DEF ViewRecord, ViewState
        <5>3. view' = [view EXCEPT ![calls[c].tab] = [view[calls[c].tab] EXCEPT !.state = st]]
          BY <2>3, <3>2 DEF ShellInv, ShellTyped
        <5>4. QED
          BY <2>3, <5>2, <5>3 DEF ShellInv, ShellTyped
      <4>2. ASSUME NEW t \in BrowserTab
            PROVE  view'[t] = view[t] \/ view'[t].state \in {"running", "stopped"}
        BY <3>2 DEF ShellInv, ShellTyped, ViewRecord
      <4>3. QED
        BY <2>1, <4>1, <4>2 DEF ShellInv, NeverInvents
    <3>3. QED
      BY <2>4, <3>1, <3>2
  <2>6. QED
    BY <2>1, <2>2, <2>5 DEF ShellInv, ShellTyped, CacheWasServed
<1>6. ASSUME NEW c \in Slots, NEW tab \in BrowserTab, NEW b \in Value, render(c, tab, b),
             bearer' \in [BrowserTab -> Value], UNCHANGED <<helmd, cache, served, broken>>
      PROVE  ShellInv'
  <2>1. CASE b # Blank
    <3>1. calls' = [calls EXCEPT ![c] = request(tab, "view", b)] /\ view' = view
      BY <1>6, <2>1 DEF render
    <3>2. CallsCarryAnswers' /\ calls' \in [Slots -> CallRecord]
      <4>1. request(tab, "view", b) \in CallRecord /\ request(tab, "view", b).status = Blank
            /\ request(tab, "view", b).since = helmd.data
        BY Asking DEF ShellInv
      <4>2. QED
        BY <1>6, <3>1, <4>1, SlotTaken
    <3>3. QED
      BY <1>6, <3>1, <3>2 DEF ShellInv, ShellTyped, CacheWasServed, NeverInvents
  <2>2. CASE b = Blank
    <3>1. calls' = [calls EXCEPT ![c] = request(tab, "probe", Blank)]
          /\ view' = [view EXCEPT ![tab] = Empty]
      BY <1>6, <2>2 DEF render
    <3>2. CallsCarryAnswers' /\ calls' \in [Slots -> CallRecord]
      <4>1. request(tab, "probe", Blank) \in CallRecord /\ request(tab, "probe", Blank).status = Blank
            /\ request(tab, "probe", Blank).since = helmd.data
        BY Asking DEF ShellInv, Value
      <4>2. QED
        BY <1>6, <3>1, <4>1, SlotTaken
    <3>3. Empty \in ViewRecord /\ Empty.state \notin {"live", "stale"}
      BY EmptyTyped
    <3>4. view' \in [BrowserTab -> ViewRecord] /\ NeverInvents'
      BY <1>6, <3>1, <3>3 DEF ShellInv, ShellTyped, NeverInvents
    <3>5. QED
      BY <1>6, <3>2, <3>4 DEF ShellInv, ShellTyped, CacheWasServed
  <2>3. QED
    BY <2>1, <2>2
<1>7. ASSUME NEW c \in Slots, NEW tab \in BrowserTab, navigates(c, tab) PROVE ShellInv'
  BY <1>6, <1>7 DEF navigates, ShellInv, ShellTyped
<1>8. ASSUME NEW c \in Slots, NEW tab \in BrowserTab, pairs(c, tab) PROVE ShellInv'
  <2>1. helmd.install \in Value /\ bearer' \in [BrowserTab -> Value]
    BY <1>8 DEF pairs, ShellInv, ShellTyped, Value, Daemon
  <2>2. QED
    BY <1>6, <1>8, <2>1 DEF pairs
<1>9. ASSUME NEW c \in Slots, NEW tab \in BrowserTab, unpairs(c, tab) PROVE ShellInv'
  <2>1. Blank \in Value /\ bearer' \in [BrowserTab -> Value]
    BY <1>9 DEF unpairs, ShellInv, ShellTyped, Value
  <2>2. QED
    BY <1>6, <1>9, <2>1 DEF unpairs
<1>10. ASSUME NEW c \in Slots, NEW tab \in BrowserTab, asksHealth(c, tab) PROVE ShellInv'
  <2>1. bearer[tab] \in Value
    BY DEF ShellInv, ShellTyped
  <2>2. CallsCarryAnswers' /\ calls' \in [Slots -> CallRecord]
    <3>1. request(tab, "health", bearer[tab]) \in CallRecord
          /\ request(tab, "health", bearer[tab]).status = Blank
          /\ request(tab, "health", bearer[tab]).since = helmd.data
      BY <2>1, Asking DEF ShellInv
    <3>2. QED
      BY <1>10, <3>1, SlotTaken DEF asksHealth
  <2>3. QED
    BY <1>10, <2>2 DEF asksHealth, ShellInv, ShellTyped, CacheWasServed, NeverInvents
<1>11. ASSUME NEW d \in (0..helmd.data) \union {Null}, otherTabCaches(d) PROVE ShellInv'
  <2>1. d \in Nat \union {Null}
    BY <1>t
  <2>2. QED
    BY <1>11, <2>1 DEF otherTabCaches, ShellInv, ShellTyped, CallsCarryAnswers, Carries,
                       CacheWasServed, NeverInvents, Value
<1>12. ASSUME NEW h \in Daemon, h.data >= helmd.data, becomes(h)
       PROVE  ShellInv'
  <2>1. \A x \in Value : \A y \in Value : x \in y .. helmd.data => x \in y .. h.data
    BY <1>t, <1>12 DEF Value, Daemon
  <2>2. \A x \in 0 .. helmd.data : x \in 0 .. h.data
    BY <1>t, <1>12 DEF Daemon
  <2>3. \A c \in Slots : calls[c].data \in Value /\ calls[c].since \in Value
    BY DEF ShellInv, ShellTyped, CallRecord
  <2>4. \A t \in BrowserTab : view[t].data \in Value /\ view[t].since \in Value
    BY DEF ShellInv, ShellTyped, ViewRecord
  <2>5. CallsCarryAnswers'
    BY <1>12, <2>1, <2>2, <2>3 DEF becomes, ShellInv, CallsCarryAnswers, Carries
  <2>6. NeverInvents'
    BY <1>12, <2>1, <2>4 DEF becomes, ShellInv, NeverInvents
  <2>7. QED
    BY <1>12, <2>5, <2>6 DEF becomes, ShellInv, ShellTyped, CacheWasServed
<1>13. CASE dataChanges \/ goesDown \/ comesUp \/ reinstalled \/ otherVersion
  <2>0. helmd \in Daemon
    BY DEF ShellInv, ShellTyped
  <2>1. CASE dataChanges
    BY <2>0, <2>1, <1>12, DaemonNewer DEF dataChanges
  <2>2. CASE goesDown \/ comesUp
    <3>1. ASSUME NEW u \in BOOLEAN, becomes([helmd EXCEPT !.up = u]) PROVE ShellInv'
      <4>1. [helmd EXCEPT !.up = u] \in Daemon /\ [helmd EXCEPT !.up = u].data >= helmd.data
        BY <1>t, <2>0, DaemonUp
      <4>2. QED
        BY <3>1, <4>1, <1>12
    <3>2. QED
      BY <2>2, <3>1 DEF goesDown, comesUp
  <2>3. CASE reinstalled
    BY <2>0, <2>3, <1>12, DaemonAnew DEF reinstalled
  <2>4. CASE otherVersion
    <3> DEFINE h == [helmd EXCEPT !.route = ~helmd.route, !.up = TRUE]
    <3>0. helmd.route \in BOOLEAN
      BY <2>0 DEF Daemon
    <3>1. (~helmd.route) \in BOOLEAN
      BY <3>0, Zenon
    <3>2. h \in Daemon /\ h.data = helmd.data
      BY <2>0, <3>1, DaemonRoute
    <3>3. becomes(h)
      BY <2>4 DEF otherVersion
    <3> HIDE DEF h
    <3>4. QED
      BY <3>2, <3>3, <1>t, <1>12
  <2>5. QED
    BY <1>13, <2>1, <2>2, <2>3, <2>4
<1>14. CASE UNCHANGED shellVars
  BY <1>14 DEF shellVars, ShellInv, ShellTyped, CallsCarryAnswers, Carries, CacheWasServed,
                     NeverInvents
<1>15. ASSUME NEW c \in Slots, breaksOff(c) PROVE ShellInv'
  <2>0. /\ calls' = [calls EXCEPT ![c].data = Null] /\ calls[c].status = 200
        /\ served' = served \union {Null} /\ broken' = broken \union {calls[c].tab}
        /\ UNCHANGED <<helmd, cache, bearer, view, light>>
    BY <1>15 DEF breaksOff
  <2>1. calls[c] \in CallRecord /\ Null \in Value
    BY DEF ShellInv, ShellTyped, Value
  <2>2. /\ [calls[c] EXCEPT !.data = Null] \in CallRecord
        /\ calls' = [calls EXCEPT ![c] = [calls[c] EXCEPT !.data = Null]]
    BY <2>0, <2>1 DEF ShellInv, ShellTyped, CallRecord
  <2>3. /\ calls' \in [Slots -> CallRecord]
        /\ calls'[c].tab = calls[c].tab /\ calls'[c].since = calls[c].since
        /\ calls'[c].status = calls[c].status /\ calls'[c].data = Null
        /\ \A d \in Slots : d # c => calls'[d] = calls[d]
    BY <2>1, <2>2 DEF ShellInv, ShellTyped, CallRecord
  <2>4. ShellTyped'
    BY <2>0, <2>3 DEF ShellInv, ShellTyped
  <2>5. ASSUME NEW d \in Slots
        PROVE  /\ calls'[d].tab # Blank => calls'[d].since \in 0..helmd'.data
               /\ calls'[d].status # Blank => calls'[d].tab # Blank
               /\ Carries(calls'[d], helmd'.data, served', broken')
    <3>1. CASE d = c
      BY <3>1, <2>0, <2>3 DEF ShellInv, CallsCarryAnswers, Carries
    <3>2. CASE d # c
      BY <3>2, <2>0, <2>3 DEF ShellInv, CallsCarryAnswers, Carries
    <3>3. QED
      BY <3>1, <3>2
  <2>6. CallsCarryAnswers'
    BY <2>5 DEF CallsCarryAnswers
  <2>7. QED
    BY <2>0, <2>4, <2>6 DEF ShellInv, CacheWasServed, NeverInvents
<1>16. QED
  BY <1>1, <1>2, <1>15, <1>3, <1>4, <1>5, <1>7, <1>8, <1>9, <1>10, <1>11, <1>13, <1>14 DEF ShellNext

\* What is shown as live is nothing older than what the daemon held when the tab
\* asked, or null once an answer to this tab broke off; what is shown as stale has
\* come back before; in whatever order any number of calls are answered, aborted, cut
\* and overtaken (call and fetchWithFallback of ui/api.mjs, render of ui/app.mjs).
THEOREM ShellNeverInvents == ShellSpec => []NeverInvents
<1>1. ShellInv => NeverInvents
  BY DEF ShellInv
<1>2. QED
  BY <1>1, ShellStart, ShellStep, PTL DEF ShellSpec
-----------------------------------------------------------------------------
(* The MCP endpoint. A request that gets past the refusals does so without *)
(* its versions and headers too, and what dispatch makes of it depends on  *)
(* the method, the tool, the capabilities and the task alone.              *)

Ended == {"completed", "failed", "cancelled"}
TaskState == {NotGiven, "queued", "running", "awaiting_data"} \union Ended

\* What the request would get done now if it asserted nothing.
PlainWorks(q) == handleMcp(asLegacy(q)).code = 0

McpInv ==
    /\ task \in TaskState
    /\ plain # Nothing => asked # Nothing
    /\ asked # Nothing /\ asked.code = 0 => PlainWorks(asked.request)
    /\ ErasAgree

\* The fields a request has, and what is left of them when it asserts nothing.
LEMMA RequestFields ==
    ASSUME NEW q \in Requests
    PROVE  /\ q.body \in {"ok", "unparsable", "null", "notJsonRpc"}
           /\ q.header \in Versions \union {"garbled"} /\ q.meta \in Versions
           /\ q.handshake \in Versions
           /\ q.tool # NotGiven => q.method = "tools/call"
           /\ asLegacy(q).header = NotGiven /\ asLegacy(q).meta = NotGiven
           /\ asLegacy(q).methodHeader = NotGiven /\ asLegacy(q).nameHeader = NotGiven
           /\ asLegacy(q).body = q.body /\ asLegacy(q).method = q.method
           /\ asLegacy(q).tool = q.tool /\ asLegacy(q).caps = q.caps
  BY DEF asLegacy, Requests, RequestsFor, Versions

\* A request that nothing refuses: it is well formed, and of no unknown version.
LEMMA NotRefused ==
    ASSUME NEW q \in Requests, refusal(q) = 0
    PROVE  q.body = "ok" /\ q.header # "garbled" /\ assertedProtocolVersion(q) # "other"
  BY RequestFields DEF refusal

\* Without its versions and headers it is not refused either.
LEMMA PlainNotRefused ==
    ASSUME NEW q \in Requests, q.body = "ok"
    PROVE  refusal(asLegacy(q)) = 0
<1> DEFINE l == asLegacy(q)
<1>1. /\ l.header = NotGiven /\ l.meta = NotGiven /\ l.methodHeader = NotGiven
      /\ l.nameHeader = NotGiven /\ l.body = "ok"
  BY RequestFields
<1> HIDE DEF l
<1>2. assertedProtocolVersion(l) = NotGiven /\ NotGiven # "new" /\ NotGiven # "other" /\ NotGiven # "garbled"
  BY <1>1, McpAssumption DEF assertedProtocolVersion
<1>3. ~modernEra(l)
  BY <1>2 DEF modernEra
<1>4. ~headerBad(l.methodHeader, modernEra(l)) /\ ~headerBad(l.nameHeader, modernEra(l))
  BY <1>1, <1>3 DEF headerBad
<1>5. refusal(l) = 0
  BY <1>1, <1>2, <1>3, <1>4 DEF refusal
<1>6. QED
  BY <1>5 DEF l

\* What dispatch gets done for a request does not depend on what it asserts.
LEMMA PlainDispatch ==
    ASSUME NEW q \in Requests, handleMcp(q).code = 0
    PROVE  PlainWorks(q) /\ (q.method = "initialize" => handleMcp(q).says \in Supported)
<1> DEFINE l == asLegacy(q)
<1>1. l.method = q.method /\ l.tool = q.tool /\ l.caps = q.caps
  BY RequestFields
<1>2. refusal(q) = 0 /\ handleMcp(q) = dispatch(q)
  BY DEF handleMcp
<1>3. q.body = "ok" /\ q.header # "garbled" /\ assertedProtocolVersion(q) # "other"
  BY <1>2, NotRefused
<1>4. handleMcp(l) = dispatch(l)
  BY <1>3, PlainNotRefused DEF handleMcp
<1> HIDE DEF l
<1>5. declaresTasks(l) = declaresTasks(q) /\ toolAnswer(l) = toolAnswer(q)
  BY <1>1 DEF declaresTasks, toolAnswer
<1>6. dispatch(l).code = dispatch(q).code
  BY <1>1, <1>5 DEF dispatch
<1>7. ASSUME q.method = "initialize" PROVE handleMcp(q).says \in Supported
  <2>1. dispatch(q).says = negotiatedVersion(q)
    BY <1>7 DEF dispatch
  <2>2. assertedProtocolVersion(q) \in Supported \union {NotGiven} /\ q.handshake \in Versions
    BY <1>3, RequestFields DEF assertedProtocolVersion, Versions
  <2>3. negotiatedVersion(q) \in Supported
    BY <2>2 DEF negotiatedVersion, Versions, Supported
  <2>4. QED
    BY <1>2, <2>1, <2>3
<1>8. QED
  BY <1>2, <1>4, <1>6, <1>7 DEF PlainWorks, l

\* A status that says the end is the status of a run that has ended.
LEMMA StatusOfTask ==
    ASSUME task \in TaskState, task # NotGiven
    PROVE  /\ taskStatusFor(task) = "completed" <=> task = "completed"
           /\ taskStatusFor(task) = "failed" <=> task \in {"failed", "cancelled"}
  BY DEF taskStatusFor, TaskState, Ended

\* A request is answered: a task it starts is new, a status it reports is the task's.
LEMMA RequestKeeps == ASSUME McpInv, sends PROVE McpInv'
<1>0. asked = Nothing /\ plain = Nothing /\ plain' = plain /\ task \in TaskState
  BY DEF McpInv, sends
<1>1. PICK q \in Requests :
        /\ asked' = [request |-> q, code |-> handleMcp(q).code, says |-> handleMcp(q).says, task |-> task]
        /\ task' = IF handleMcp(q).code = 0 /\ q.tool = "workflow.run" /\ task = NotGiven THEN "queued" ELSE task
        /\ polled' = IF handleMcp(q).code = 0 /\ q.method = "tasks/get" THEN handleMcp(q).says ELSE polled
  BY DEF sends
<1>2. task' \in TaskState
  BY <1>0, <1>1 DEF TaskState
<1>3. asked'.request = q /\ asked'.code = handleMcp(q).code /\ asked'.says = handleMcp(q).says
  BY <1>1
<1>4. ASSUME handleMcp(q).code = 0 PROVE PlainWorks(q)'
  <2>1. PlainWorks(q)
    BY <1>4, PlainDispatch
  <2>2. CASE task' = task
    BY <2>1, <2>2 DEF PlainWorks, handleMcp, dispatch, toolAnswer, taskStatusFor
  <2>3. CASE task' # task
    <3>1. q.tool = "workflow.run" /\ asLegacy(q).tool = "workflow.run" /\ asLegacy(q).method = "tools/call"
      BY <1>1, <2>3, RequestFields, McpAssumption
    <3>2. PlainWorks(q) => refusal(asLegacy(q)) = 0 /\ declaresTasks(asLegacy(q))
      BY <3>1, McpAssumption DEF PlainWorks, handleMcp, dispatch, toolAnswer
    <3>3. QED
      BY <2>1, <3>1, <3>2, McpAssumption DEF PlainWorks, handleMcp, dispatch, toolAnswer
  <2>4. QED
    BY <2>2, <2>3
<1>5. LegacyNoStricter'
  <2>1. handleMcp(q).code = 0 /\ q.method = "initialize" => handleMcp(q).says \in Supported
    BY PlainDispatch
  <2>2. QED
    BY <1>0, <1>3, <2>1 DEF LegacyNoStricter
<1>6. PolledEndIsTheEnd'
  <2>1. CASE polled' = polled
    BY <1>1, <2>1, McpAssumption DEF McpInv, ErasAgree, PolledEndIsTheEnd
  <2>2. CASE polled' # polled
    <3>1. handleMcp(q).code = 0 /\ q.method = "tasks/get" /\ polled' = handleMcp(q).says
      BY <1>1, <2>2
    <3>2. q.tool = NotGiven /\ task' = task
      BY <1>1, <3>1, RequestFields, McpAssumption
    <3>3. task # NotGiven /\ polled' = taskStatusFor(task)
      BY <3>1 DEF handleMcp, dispatch
    <3>4. QED
      BY <1>0, <3>2, <3>3, StatusOfTask DEF PolledEndIsTheEnd
  <2>3. QED
    BY <2>1, <2>2
<1>7. QED
  BY <1>0, <1>2, <1>3, <1>4, <1>5, <1>6 DEF McpInv, ErasAgree

\* Every step keeps the eras together, and the end a client was told of the end.
LEMMA McpStep == McpInv /\ [McpNext]_mcpVars => McpInv'
<1> SUFFICES ASSUME McpInv, [McpNext]_mcpVars PROVE McpInv'
  OBVIOUS
<1>1. CASE sends
  BY <1>1, RequestKeeps
<1>2. CASE sendsPlain
  <2>1. /\ asked # Nothing /\ plain' = handleMcp(asLegacy(asked.request))
        /\ UNCHANGED <<asked, task, polled>>
    BY <1>2 DEF sendsPlain
  <2>2. asked.code = 0 => plain'.code = 0 /\ PlainWorks(asked.request)'
    BY <2>1 DEF McpInv, PlainWorks, handleMcp, dispatch, toolAnswer, taskStatusFor
  <2>3. QED
    BY <2>1, <2>2 DEF McpInv, ErasAgree, LegacyNoStricter, PolledEndIsTheEnd
<1>3. CASE done
  BY <1>3 DEF done, McpInv, ErasAgree, LegacyNoStricter, PolledEndIsTheEnd
<1>4. CASE runGoesOn
  <2>1. asked = Nothing /\ UNCHANGED <<asked, plain, polled>>
    BY <1>4 DEF runGoesOn
  <2>2. task \notin Ended /\ task' \in TaskState
    BY <1>4 DEF runGoesOn, Ended, TaskState
  <2>3. polled \notin {"completed", "failed"}
    BY <2>2 DEF McpInv, ErasAgree, PolledEndIsTheEnd, Ended
  <2>4. QED
    BY <2>1, <2>2, <2>3 DEF McpInv, ErasAgree, LegacyNoStricter, PolledEndIsTheEnd
<1>5. CASE UNCHANGED mcpVars
  BY <1>5 DEF mcpVars, McpInv, ErasAgree, LegacyNoStricter, PolledEndIsTheEnd, PlainWorks, handleMcp,
     dispatch, toolAnswer, taskStatusFor
<1>6. QED
  BY <1>1, <1>2, <1>3, <1>4, <1>5 DEF McpNext

\* Whatever a request that asserts a version gets done, the same request that
\* asserts nothing gets done too; a handshake ends at a version the server has;
\* and a task polled as ended is a run that has ended in that way (handleMcp and
\* taskStatusFor, mcp.mjs).
THEOREM ErasDoAgree == McpSpec => []ErasAgree
<1>1. McpInit => McpInv
  BY McpAssumption DEF McpInit, McpInv, TaskState, ErasAgree, LegacyNoStricter, PolledEndIsTheEnd
<1>2. McpInv => ErasAgree
  BY DEF McpInv
<1>3. QED
  BY <1>1, <1>2, McpStep, PTL DEF McpSpec
-----------------------------------------------------------------------------
(* The desktop entries. A toggle that still claims to be true shows what   *)
(* is there, or waits for an answer that says what is there; with both     *)
(* toggles under way neither claims anything. The registration is written  *)
(* with the command last, so a command stands on complete parts.           *)

PostRecord == [phase : {"none", "sent", "givenUp", "answered", "failed", "ask"}, wanted : BOOLEAN,
               payload : [Toggle -> BOOLEAN]]
Entry == Program \union {Nowhere, Illegible}
Part == {"description", "URL_Protocol", "command", "file", "default"}
WindowsParts == {"description", "URL_Protocol"}

DesktopTypeOK ==
    /\ os \in {"win32", "darwin", "linux"} /\ running \in Program
    /\ entry \in [Toggle -> Entry] /\ \A f \in Toggle : ~supported(f) => entry[f] = Nowhere
    /\ post \in [Toggle -> PostRecord]
    /\ box \in [Toggle -> BOOLEAN] /\ told \in [Toggle -> BOOLEAN]

\* What a toggle that makes a claim shows, and what an answer on its way says of it.
ToggleInv ==
    /\ \A f \in Toggle : told[f] /\ supported(f) /\ post[f].phase = "none" => box[f] = installed(f)
    /\ \A f, g \in Toggle : told[f] /\ post[g].phase = "answered" => post[g].payload[f] = installed(f)
    /\ \A f, g \in Toggle : f # g /\ post[f].phase # "none" /\ post[g].phase # "none" => ~told[f]

\* The registration, with what is still to be written.
SchemeInv ==
    /\ scheme \in [parts : SUBSET Part, program : Program \union {Nowhere}]
    /\ SchemeIsWhole
    /\ os = "darwin" => scheme.parts = {} /\ writing = <<>>
    /\ \/ writing = <<>> \/ writing = <<"file", "default">> \/ writing = <<"default">>
       \/ writing = <<"description", "URL_Protocol", "command">>
       \/ writing = <<"URL_Protocol", "command">> /\ "description" \in scheme.parts
       \/ writing = <<"command">> /\ WindowsParts \subseteq scheme.parts

DesktopInv == DesktopTypeOK /\ ToggleInv /\ SchemeInv /\ DoctorSeesDeadEntries

\* A post that ends leaves its toggle without one.
LEMMA NoPostIs == NoPost \in PostRecord /\ NoPost.phase = "none"
  BY DEF NoPost, PostRecord

\* No entry, no claim.
LEMMA DesktopStart == DesktopInit => DesktopInv
<1> SUFFICES ASSUME DesktopInit PROVE DesktopInv
  OBVIOUS
<1>1. DesktopTypeOK
  BY NoPostIs DEF DesktopInit, DesktopTypeOK, Entry
<1>2. ToggleInv
  BY NoPostIs DEF DesktopInit, ToggleInv, installed
<1>3. SchemeInv
  BY DEF DesktopInit, SchemeInv, SchemeIsWhole
<1>4. DoctorSeesDeadEntries
  BY DEF DesktopInit, DoctorSeesDeadEntries
<1>5. QED
  BY <1>1, <1>2, <1>3, <1>4 DEF DesktopInv

\* Nothing of the toggles changes.
LEMMA TogglesAlone ==
    ASSUME DesktopTypeOK, ToggleInv, running' \in Program, UNCHANGED <<os, entry, box, post, told>>
    PROVE  DesktopTypeOK' /\ ToggleInv'
  BY DEF DesktopTypeOK, ToggleInv, installed, supported

\* The registration and what is left to write do not change.
LEMMA SchemeAlone ==
    ASSUME SchemeInv, UNCHANGED <<os, scheme, writing>>
    PROVE  SchemeInv'
  BY DEF SchemeInv, SchemeIsWhole

\* One part after the other, the command last.
LEMMA PartWritten == ASSUME DesktopTypeOK, SchemeInv, writesPart PROVE SchemeInv'
<1>1. /\ scheme' = [parts |-> scheme.parts \union {Head(writing)},
                    program |-> IF Head(writing) \in {"command", "file"} THEN running ELSE scheme.program]
      /\ writing' = Tail(writing) /\ writing # <<>> /\ os' = os
  BY DEF writesPart, machine
<1>2. os # "darwin" /\ scheme.parts \in SUBSET Part /\ SchemeIsWhole
  BY <1>1 DEF SchemeInv
<1>3. CASE writing = <<"file", "default">>
  <2>1. Head(writing) = "file" /\ Tail(writing) = <<"default">>
    BY <1>3
  <2>2. QED
    BY <1>1, <1>2, <2>1 DEF SchemeInv, SchemeIsWhole, Part, DesktopTypeOK
<1>4. CASE writing = <<"default">>
  <2>1. Head(writing) = "default" /\ Tail(writing) = <<>>
    BY <1>4
  <2>2. QED
    BY <1>1, <1>2, <2>1 DEF SchemeInv, SchemeIsWhole, Part
<1>5. CASE writing = <<"description", "URL_Protocol", "command">>
  <2>1. Head(writing) = "description" /\ Tail(writing) = <<"URL_Protocol", "command">>
    BY <1>5
  <2>2. QED
    BY <1>1, <1>2, <2>1 DEF SchemeInv, SchemeIsWhole, Part
<1>6. CASE writing = <<"URL_Protocol", "command">> /\ "description" \in scheme.parts
  <2>1. Head(writing) = "URL_Protocol" /\ Tail(writing) = <<"command">>
    BY <1>6
  <2>2. QED
    BY <1>1, <1>2, <1>6, <2>1 DEF SchemeInv, SchemeIsWhole, Part, WindowsParts
<1>7. CASE writing = <<"command">> /\ WindowsParts \subseteq scheme.parts
  <2>1. Head(writing) = "command" /\ Tail(writing) = <<>>
    BY <1>7
  <2>2. QED
    BY <1>1, <1>2, <1>7, <2>1 DEF SchemeInv, SchemeIsWhole, Part, WindowsParts, DesktopTypeOK
<1>8. QED
  BY <1>1, <1>3, <1>4, <1>5, <1>6, <1>7 DEF SchemeInv

\* POST /autostart is handled: the entry of one toggle is written or not, and the
\* answer says what is there then.
LEMMA PostHandled ==
    ASSUME DesktopTypeOK, ToggleInv, NEW f \in Toggle, NEW works \in BOOLEAN, handleAutostartSet(f, works)
    PROVE  DesktopTypeOK' /\ ToggleInv' /\ UNCHANGED <<os, scheme, writing>>
<1> DEFINE after == IF ~works THEN entry ELSE IF post[f].wanted THEN install(f)
                                             ELSE [entry EXCEPT ![f] = Nowhere]
           phase == IF post[f].phase = "givenUp" THEN "ask"
                    ELSE IF ~works /\ post[f].wanted /\ supported(f) THEN "failed" ELSE "answered"
           said == [g \in Toggle |-> after[g] # Nowhere]
           r == [post[f] EXCEPT !.phase = phase, !.payload = said]
<1>1. /\ entry' = after /\ post' = [post EXCEPT ![f] = r] /\ post[f].phase # "none"
      /\ UNCHANGED <<os, running, scheme, writing, box, told>>
  BY DEF handleAutostartSet, machine, DesktopTypeOK
<1>2. /\ after \in [Toggle -> Entry] /\ \A g \in Toggle : g # f => after[g] = entry[g]
      /\ \A g \in Toggle : ~supported(g) => after[g] = Nowhere
  BY DEF DesktopTypeOK, install, installAutostart, installShortcut, Entry, Toggle
<1>3. said \in [Toggle -> BOOLEAN] /\ \A g \in Toggle : said[g] = (after[g] # Nowhere)
  OBVIOUS
<1>4. phase \in {"ask", "failed", "answered"} /\ post[f] \in PostRecord
  BY DEF DesktopTypeOK
<1> HIDE DEF after, phase, said
<1>5. r \in PostRecord /\ r.phase # "none" /\ r.payload = said
  BY <1>3, <1>4 DEF PostRecord
<1> HIDE DEF r
<1>6. DesktopTypeOK'
  BY <1>1, <1>2, <1>5 DEF DesktopTypeOK, supported
<1>7. post'[f] = r /\ \A g \in Toggle : g # f => post'[g] = post[g] /\ installed(g)' = installed(g)
  BY <1>1, <1>2 DEF DesktopTypeOK, installed
<1>8. \A g, h \in Toggle : g # h /\ post'[g].phase # "none" /\ post'[h].phase # "none" => ~told'[g]
  BY <1>1, <1>5, <1>7 DEF ToggleInv
<1>9. \A g \in Toggle : told'[g] /\ supported(g)' /\ post'[g].phase = "none" => box'[g] = installed(g)'
  BY <1>1, <1>5, <1>7 DEF ToggleInv, supported
<1>10. ASSUME NEW g \in Toggle, NEW h \in Toggle, told'[g], post'[h].phase = "answered"
       PROVE  post'[h].payload[g] = installed(g)'
  <2>1. CASE h = f
    BY <1>1, <1>3, <1>5, <1>7, <2>1 DEF installed
  <2>2. CASE h # f
    <3>1. post[h].phase # "none" /\ post[h] = post'[h] /\ told[g] /\ ~told[f]
      BY <1>1, <1>7, <1>10, <2>2 DEF ToggleInv
    <3>2. g # f
      BY <3>1
    <3>3. QED
      BY <1>7, <1>10, <3>1, <3>2 DEF ToggleInv
  <2>3. QED
    BY <2>1, <2>2
<1>11. QED
  BY <1>1, <1>6, <1>8, <1>9, <1>10 DEF ToggleInv

\* A click: a second one, while the first is under way, ends every claim.
LEMMA Clicked ==
    ASSUME DesktopTypeOK, ToggleInv, NEW f \in Toggle, send(f)
    PROVE  DesktopTypeOK' /\ ToggleInv'
<1> DEFINE r == [NoPost EXCEPT !.phase = "sent", !.wanted = ~box[f]]
<1>1. r \in PostRecord /\ r.phase = "sent"
  BY DEF NoPost, PostRecord, DesktopTypeOK
<1>2. /\ post' = [post EXCEPT ![f] = r] /\ box' = [box EXCEPT ![f] = ~@]
      /\ told' = IF \E g \in Toggle : post[g].phase # "none" THEN [g \in Toggle |-> FALSE]
                 ELSE [told EXCEPT ![f] = TRUE]
      /\ UNCHANGED <<os, running, entry>>
  BY DEF send, machine
<1> HIDE DEF r
<1>3. DesktopTypeOK'
  BY <1>1, <1>2 DEF DesktopTypeOK, supported
<1>4. /\ post'[f] = r /\ \A g \in Toggle : g # f => post'[g] = post[g] /\ box'[g] = box[g]
      /\ \A g \in Toggle : installed(g)' = installed(g)
  BY <1>2 DEF DesktopTypeOK, installed
<1>5. CASE \E g \in Toggle : post[g].phase # "none"
  <2>1. \A g \in Toggle : ~told'[g]
    BY <1>2, <1>5
  <2>2. QED
    BY <1>3, <2>1 DEF ToggleInv
<1>6. CASE \A g \in Toggle : post[g].phase = "none"
  <2>1. \A g \in Toggle : g # f => told'[g] = told[g]
    BY <1>2, <1>6 DEF DesktopTypeOK
  <2>2. QED
    BY <1>1, <1>2, <1>3, <1>4, <1>6, <2>1 DEF ToggleInv, supported
<1>7. QED
  BY <1>5, <1>6

\* The view stops waiting: the answer, if there was one, is dropped.
LEMMA GivenUp ==
    ASSUME DesktopTypeOK, ToggleInv, NEW f \in Toggle, givesUp(f)
    PROVE  DesktopTypeOK' /\ ToggleInv'
<1> DEFINE r == [post[f] EXCEPT !.phase = IF post[f].phase = "sent" THEN "givenUp" ELSE "ask"]
<1>1. /\ r \in PostRecord /\ r.phase \in {"givenUp", "ask"}
  BY DEF PostRecord, DesktopTypeOK
<1>2. /\ post' = [post EXCEPT ![f] = r] /\ post[f].phase # "none"
      /\ UNCHANGED <<os, running, entry, box, told>>
  BY DEF givesUp, machine
<1> HIDE DEF r
<1>3. DesktopTypeOK'
  BY <1>1, <1>2 DEF DesktopTypeOK, supported
<1>4. /\ post'[f] = r /\ \A g \in Toggle : g # f => post'[g] = post[g]
      /\ \A g \in Toggle : installed(g)' = installed(g) /\ supported(g)' = supported(g)
  BY <1>2 DEF DesktopTypeOK, installed, supported
<1>5. QED
  BY <1>1, <1>2, <1>3, <1>4 DEF ToggleInv

\* The end of a call: the boxes show what it says, or what was read, or stay.
LEMMA CallEnds ==
    ASSUME DesktopTypeOK, ToggleInv, NEW f \in Toggle, post' = [post EXCEPT ![f] = NoPost],
           box' \in [Toggle -> BOOLEAN], told' \in [Toggle -> BOOLEAN], UNCHANGED <<os, running, entry>>,
           \A g \in Toggle : told'[g] => told[g] \/ \A h \in Toggle \ {f} : post[h].phase = "none",
           \A g \in Toggle : told'[g] /\ supported(g) /\ (g = f \/ post[g].phase = "none") => box'[g] = installed(g)
    PROVE  DesktopTypeOK' /\ ToggleInv'
<1>1. DesktopTypeOK'
  BY NoPostIs DEF DesktopTypeOK, supported
<1>2. /\ post'[f] = NoPost /\ \A g \in Toggle : g # f => post'[g] = post[g]
      /\ \A g \in Toggle : installed(g)' = installed(g) /\ supported(g)' = supported(g)
  BY DEF DesktopTypeOK, installed, supported
<1>3. QED
  BY <1>1, <1>2, NoPostIs DEF ToggleInv

\* The answer, the second question, or neither.
LEMMA Heard ==
    ASSUME DesktopTypeOK, ToggleInv, NEW f \in Toggle, answered(f) \/ rereads(f) \/ rereadFails(f)
    PROVE  DesktopTypeOK' /\ ToggleInv'
<1>0. post[f].phase # "none" /\ post \in [Toggle -> PostRecord] /\ told \in [Toggle -> BOOLEAN]
  BY DEF answered, rereads, rereadFails, DesktopTypeOK
<1>1. CASE answered(f)
  <2>1. /\ post' = [post EXCEPT ![f] = NoPost] /\ UNCHANGED <<os, running, entry, told>>
        /\ box' = [g \in Toggle |-> IF supported(g) THEN post[f].payload[g] ELSE FALSE]
        /\ post[f].phase = "answered"
    BY <1>1 DEF answered, applyStartupState, machine
  <2>2. box' \in [Toggle -> BOOLEAN]
    BY <1>0, <2>1 DEF PostRecord
  <2>3. \A g \in Toggle : told'[g] /\ supported(g) => box'[g] = installed(g)
    BY <2>1 DEF ToggleInv
  <2>4. QED
    BY <1>0, <2>1, <2>2, <2>3, CallEnds
<1>2. CASE rereads(f)
  <2>1. /\ post' = [post EXCEPT ![f] = NoPost] /\ UNCHANGED <<os, running, entry>>
        /\ box' = [g \in Toggle |-> IF supported(g) THEN installed(g) ELSE FALSE]
        /\ told' = [told EXCEPT ![f] = \A g \in Toggle \ {f} : post[g].phase = "none"]
    BY <1>2 DEF rereads, applyStartupState, autostartPayload, machine
  <2>2. box' \in [Toggle -> BOOLEAN] /\ \A g \in Toggle : supported(g) => box'[g] = installed(g)
    BY <2>1 DEF installed
  <2>3. /\ told' \in [Toggle -> BOOLEAN]
        /\ \A g \in Toggle : told'[g] => told[g] \/ \A h \in Toggle \ {f} : post[h].phase = "none"
    BY <1>0, <2>1
  <2>4. QED
    BY <2>1, <2>2, <2>3, CallEnds
<1>3. CASE rereadFails(f)
  <2>1. /\ post' = [post EXCEPT ![f] = NoPost] /\ UNCHANGED <<os, running, entry, box>>
        /\ told' = [told EXCEPT ![f] = FALSE]
    BY <1>3 DEF rereadFails, machine
  <2>2. /\ told' \in [Toggle -> BOOLEAN] /\ ~told'[f] /\ \A g \in Toggle : told'[g] => told[g]
    BY <1>0, <2>1
  <2>3. \A g \in Toggle : told'[g] /\ supported(g) /\ (g = f \/ post[g].phase = "none") => box'[g] = installed(g)
    BY <2>1, <2>2 DEF ToggleInv
  <2>4. QED
    BY <2>1, <2>2, <2>3, CallEnds DEF DesktopTypeOK
<1>4. QED
  BY <1>1, <1>2, <1>3

\* An entry that changes outside costs its toggle the claim.
LEMMA ChangedOutside ==
    ASSUME DesktopTypeOK, ToggleInv, entry' \in [Toggle -> Entry], told' \in [Toggle -> BOOLEAN],
           \A f \in Toggle : ~supported(f) => entry'[f] = Nowhere,
           \A f \in Toggle : told'[f] => told[f] /\ entry'[f] = entry[f],
           UNCHANGED <<os, running, box, post>>
    PROVE  DesktopTypeOK' /\ ToggleInv'
<1>1. \A f \in Toggle : told'[f] => installed(f)' = installed(f)
  BY DEF installed
<1>2. \A f \in Toggle : supported(f)' = supported(f)
  BY DEF supported
<1>3. QED
  BY <1>1, <1>2 DEF DesktopTypeOK, ToggleInv

\* Somebody uninstalls, edits an entry or moves the program.
LEMMA Outside ==
    ASSUME DesktopTypeOK, ToggleInv, SchemeInv,
           \/ \E works \in BOOLEAN : cmdUninstall(works)
           \/ \E f \in Toggle, e \in {Nowhere, Illegible} : editsEntry(f, e)
           \/ \E p \in Program : moves(p) \/ otherCopy(p)
           \/ otherHandler \/ uninstallProtocol \/ installProtocol \/ writingFails
    PROVE  DesktopTypeOK' /\ ToggleInv' /\ SchemeInv'
<1>1. ASSUME NEW works \in BOOLEAN, cmdUninstall(works) PROVE DesktopTypeOK' /\ ToggleInv' /\ SchemeInv'
  <2>1. /\ writing = <<>> /\ entry' = [f \in Toggle |-> IF works THEN Nowhere ELSE entry[f]]
        /\ scheme' = scheme \/ scheme' = [parts |-> IF os = "linux" THEN scheme.parts \ {"file"} ELSE {},
                                         program |-> Nowhere]
        /\ told' = [f \in Toggle |-> told[f] /\ entry'[f] = entry[f]]
        /\ UNCHANGED <<os, running, writing, box, post>>
    BY <1>1 DEF cmdUninstall, machine
  <2>2. /\ entry' \in [Toggle -> Entry] /\ told' \in [Toggle -> BOOLEAN]
        /\ \A f \in Toggle : ~supported(f) => entry'[f] = Nowhere
        /\ \A f \in Toggle : told'[f] => told[f] /\ entry'[f] = entry[f]
    BY <2>1 DEF DesktopTypeOK, Entry
  <2>3. DesktopTypeOK' /\ ToggleInv'
    BY <2>1, <2>2, ChangedOutside
  <2>4. SchemeInv'
    BY <2>1 DEF SchemeInv, SchemeIsWhole
  <2>5. QED
    BY <2>3, <2>4
<1>2. ASSUME NEW f \in Toggle, NEW e \in {Nowhere, Illegible}, editsEntry(f, e)
      PROVE  DesktopTypeOK' /\ ToggleInv' /\ SchemeInv'
  <2>1. /\ supported(f) /\ entry' = [entry EXCEPT ![f] = e] /\ told' = [told EXCEPT ![f] = FALSE]
        /\ UNCHANGED <<os, running, scheme, writing, box, post>>
    BY <1>2 DEF editsEntry, machine
  <2>2. /\ entry' \in [Toggle -> Entry] /\ told' \in [Toggle -> BOOLEAN]
        /\ \A g \in Toggle : ~supported(g) => entry'[g] = Nowhere
        /\ \A g \in Toggle : told'[g] => told[g] /\ entry'[g] = entry[g]
    BY <2>1 DEF DesktopTypeOK, Entry
  <2>3. QED
    BY <2>1, <2>2, ChangedOutside, SchemeAlone
<1>3. ASSUME NEW p \in Program, moves(p) \/ otherCopy(p) PROVE DesktopTypeOK' /\ ToggleInv' /\ SchemeInv'
  <2>1. running' \in Program /\ UNCHANGED <<os, entry, scheme, writing, box, post, told>>
    BY <1>3 DEF moves, otherCopy, DesktopTypeOK
  <2>2. QED
    BY <2>1, TogglesAlone, SchemeAlone
<1>4. CASE otherHandler \/ uninstallProtocol \/ installProtocol \/ writingFails
  <2>1. UNCHANGED <<os, running, entry, box, post, told>>
    BY <1>4 DEF otherHandler, uninstallProtocol, installProtocol, writingFails, machine
  <2>2. DesktopTypeOK' /\ ToggleInv'
    BY <2>1, TogglesAlone DEF DesktopTypeOK
  <2>3. CASE otherHandler
    <3>1. /\ scheme' = [scheme EXCEPT !.parts = @ \ {"default"}] /\ writing' = writing /\ os = "linux"
      BY <2>3 DEF otherHandler
    <3>2. /\ scheme'.parts = scheme.parts \ {"default"}
          /\ scheme' \in [parts : SUBSET Part, program : Program \union {Nowhere}]
      BY <3>1 DEF SchemeInv
    <3>3. QED
      BY <2>1, <2>2, <3>1, <3>2 DEF SchemeInv, SchemeIsWhole, WindowsParts
  <2>4. CASE uninstallProtocol
    BY <2>1, <2>2, <2>4 DEF uninstallProtocol, SchemeInv, SchemeIsWhole
  <2>5. CASE installProtocol
    <3>1. /\ scheme' = scheme /\ writing' = protocolParts
          /\ os = "win32" => protocolParts = <<"description", "URL_Protocol", "command">>
          /\ os = "linux" => protocolParts = <<"file", "default">>
          /\ os = "darwin" => protocolParts = <<>>
      BY <2>5 DEF installProtocol, protocolParts
    <3>2. QED
      BY <2>1, <2>2, <3>1 DEF SchemeInv, SchemeIsWhole, DesktopTypeOK
  <2>6. CASE writingFails
    BY <2>1, <2>2, <2>6 DEF writingFails, SchemeInv, SchemeIsWhole
  <2>7. QED
    BY <1>4, <2>3, <2>4, <2>5, <2>6
<1>5. QED
  BY <1>1, <1>2, <1>3, <1>4

\* The doctor reads what is there: a green line means a program that is there, or no entry.
LEMMA DoctorReads ==
    ASSUME DesktopTypeOK, SchemeInv, runsDoctor
    PROVE  DoctorSeesDeadEntries'
<1>1. ASSUME NEW supports \in BOOLEAN, NEW program, ~supports => program = Nowhere,
             passes(reasonFor(supports, program))
      PROVE  program \in present \union {Nowhere}
  BY <1>1 DEF passes, reasonFor
<1>2. passes(reasonFor(supported("autostart"), entry["autostart"])) => entry["autostart"] \in present \union {Nowhere}
  BY <1>1 DEF DesktopTypeOK, supported, Toggle
<1>3. os = "darwin" => recordedScheme = Nowhere
  BY DEF recordedScheme, SchemeInv
<1>4. passes(reasonFor(os # "darwin", recordedScheme)) => recordedScheme \in present \union {Nowhere}
  BY <1>1, <1>3
<1>5. QED
  BY <1>2, <1>4 DEF runsDoctor, DoctorSeesDeadEntries

\* Every step keeps the card, the registration and the report true.
LEMMA DesktopStep == DesktopInv /\ [DesktopNext]_desktopVars => DesktopInv'
<1> SUFFICES ASSUME DesktopInv, [DesktopNext]_desktopVars PROVE DesktopInv'
  OBVIOUS
<1> USE DEF DesktopInv
<1>1. CASE Happening /\ UNCHANGED report
  <2>1. DoctorSeesDeadEntries'
    BY <1>1 DEF DoctorSeesDeadEntries
  <2>2. ASSUME NEW f \in Toggle, NEW works \in BOOLEAN, handleAutostartSet(f, works) PROVE DesktopInv'
    BY <2>1, <2>2, PostHandled, SchemeAlone
  <2>3. ASSUME NEW f \in Toggle, send(f) \/ givesUp(f) \/ answered(f) \/ rereads(f) \/ rereadFails(f)
        PROVE  DesktopInv'
    <3>1. UNCHANGED <<os, scheme, writing>>
      BY <2>3 DEF send, givesUp, answered, rereads, rereadFails, machine
    <3>2. QED
      BY <2>1, <2>3, <3>1, SchemeAlone, Clicked, GivenUp, Heard
  <2>4. CASE writesPart
    <3>1. running' \in Program /\ UNCHANGED <<os, entry, box, post, told>>
      BY <2>4 DEF writesPart, machine, DesktopTypeOK
    <3>2. QED
      BY <2>1, <2>4, <3>1, PartWritten, TogglesAlone
  <2>5. QED
    BY <1>1, <2>1, <2>2, <2>3, <2>4, Outside DEF Happening
<1>2. CASE runsDoctor
  <2>1. running' \in Program /\ UNCHANGED <<os, entry, scheme, writing, box, post, told>>
    BY <1>2 DEF runsDoctor, machine, DesktopTypeOK
  <2>2. QED
    BY <1>2, <2>1, DoctorReads, TogglesAlone, SchemeAlone
<1>3. CASE readsReport \/ UNCHANGED desktopVars
  <2>1. running' \in Program /\ UNCHANGED <<os, entry, scheme, writing, box, post, told>>
    BY <1>3 DEF readsReport, desktopVars, machine, DesktopTypeOK
  <2>2. DoctorSeesDeadEntries'
    BY <1>3 DEF readsReport, desktopVars, DoctorSeesDeadEntries
  <2>3. QED
    BY <2>1, <2>2, TogglesAlone, SchemeAlone
<1>4. QED
  BY <1>1, <1>2, <1>3 DEF DesktopNext

\* What the card, the helm:// registration and the doctor say is how the machine
\* is, whatever tool fails, answer is lost or entry is edited in between
\* (handleAutostartSet, server.mjs; autostart.mjs; protocol.mjs; operate.mjs).
THEOREM EntriesShown == DesktopSpec => []EntriesAreAsShown
<1>1. DesktopInv => EntriesAreAsShown
  BY DEF DesktopInv, ToggleInv, SchemeInv, EntriesAreAsShown, ToggleIsMachine, installed
<1>2. QED
  BY <1>1, DesktopStart, DesktopStep, PTL DEF DesktopSpec
-----------------------------------------------------------------------------
(* What the webhook's replay and idempotency checks guarantee between two  *)
(* restarts, for any number of requests and retries and any window.        *)

\* Every variable of the webhook keeps values of its kind.
THEOREM WebhookTypeCorrect == Spec => []WebhookTypeOK
<1> USE WebhookAssumption DEF WebhookTypeOK, Unsent
<1>1. Init => WebhookTypeOK
  BY DEF Init
<1>2. WebhookTypeOK /\ [Next]_vars => WebhookTypeOK'
  <2> SUFFICES ASSUME WebhookTypeOK, [Next]_vars PROVE WebhookTypeOK'
    OBVIOUS
  <2>1. ASSUME NEW n \in Nonces, NEW k \in Keys, NEW ts \in 0..(MaxTime + Skew), Send(n, k, ts)
        PROVE  WebhookTypeOK'
    <3>1. sent' \in [Nonces -> [key : Keys, ts : Nat] \cup {Unsent}]
      BY <2>1 DEF Send
    <3>2. ASSUME NEW m \in resuming PROVE m \in Nonces /\ sent'[m] = sent[m]
      BY <2>1, <3>2 DEF Send
    <3>3. resuming' \subseteq {m \in Nonces : sent'[m] # Unsent}
      BY <2>1, <3>2 DEF Send, memory
    <3>4. QED
      BY <2>1, <3>1, <3>3 DEF Send, memory
  <2>2. ASSUME NEW n \in Nonces, Deliver(n) PROVE WebhookTypeOK'
    <3>1. Fresh(n) /\ sent' = sent /\ state' \in [Runs -> {"awaiting_data", "running", "completed", "failed"}]
          /\ clock' = clock /\ restarts' = restarts
      BY <2>2 DEF Deliver, ReplayRejected, AnswerFromCache, Blocked, AnswerAtOnce, ResumeRun,
                  Received, Novel, Consume, Fresh
    <3>2. sent[n].key \in Keys
      BY <2>2, <3>1 DEF Fresh, Deliver, ReplayRejected, AnswerFromCache, Blocked, AnswerAtOnce,
                        ResumeRun, Received, Novel, Consume
    <3>3. seenNonces' \subseteq [nonce : Nonces, until : Nat] /\ accepted' \in [Nonces -> Nat]
      BY <2>2 DEF Deliver, ReplayRejected, AnswerFromCache, Blocked, AnswerAtOnce, ResumeRun,
                  Received, Novel, Consume, Unexpired
    <3>4. cached' \subseteq Keys /\ resuming' \subseteq {m \in Nonces : sent'[m] # Unsent}
      BY <2>2, <3>1, <3>2 DEF Deliver, ReplayRejected, AnswerFromCache, Blocked, AnswerAtOnce,
                  ResumeRun, Received, Novel, Consume, Fresh, storeIdempotentResponse
    <3>5. executed' \in [Keys -> Nat] /\ resumes' \in [Keys -> Nat]
      BY <2>2 DEF Deliver, ReplayRejected, AnswerFromCache, Blocked, AnswerAtOnce, ResumeRun,
                  Received, Novel
    <3>6. QED
      BY <3>1, <3>3, <3>4, <3>5
  <2>3. ASSUME NEW n \in Nonces, NEW to \in {"awaiting_data", "completed", "failed"},
               RunReturns(n, to)
        PROVE  WebhookTypeOK'
    BY <2>3 DEF RunReturns, storeIdempotentResponse
  <2>4. CASE Restart
    BY <2>4 DEF Restart
  <2>5. CASE Tick
    BY <2>5 DEF Tick, memory
  <2>6. CASE UNCHANGED vars
    BY <2>6 DEF vars
  <2>7. QED
    BY <2>1, <2>2, <2>3, <2>4, <2>5, <2>6 DEF Next
<1>3. QED
  BY <1>1, <1>2, PTL DEF Spec
-----------------------------------------------------------------------------
(* A nonce is remembered at least until its timestamp is stale.            *)

NonceRemembered(n) ==
    \/ clock > sent[n].ts + Window
    \/ \E s \in seenNonces : s.nonce = n /\ s.until >= sent[n].ts + Window

NonceInv ==
    /\ WebhookTypeOK
    /\ \A n \in Nonces :
          /\ sent[n].ts <= clock
          /\ accepted[n] <= 1
          /\ accepted[n] = 1 => sent[n] # Unsent /\ NonceRemembered(n)

\* When no sender's clock is ahead, a request passes the replay check once, however often
\* and however late it is delivered: checkAndConsumeNonce forgets a nonce only when
\* isTimestampFresh refuses its timestamp.
THEOREM WebhookNonceOnce == Skew = 0 /\ Spec => []NonceAcceptedOnce
<1> SUFFICES ASSUME Skew = 0 PROVE Spec => []NonceAcceptedOnce
  OBVIOUS
<1> USE WebhookAssumption
<1>1. Init => NonceInv
  <2> SUFFICES ASSUME Init PROVE NonceInv
    OBVIOUS
  <2>1. WebhookTypeOK
    BY DEF Init, WebhookTypeOK, Unsent
  <2>2. QED
    BY <2>1 DEF Init, NonceInv, Unsent
<1>2. NonceInv /\ WebhookTypeOK' /\ [Next]_vars => NonceInv'
  <2> SUFFICES ASSUME NonceInv, WebhookTypeOK', [Next]_vars,
                      NEW m \in Nonces
               PROVE  /\ sent'[m].ts <= clock'
                      /\ accepted'[m] <= 1
                      /\ accepted'[m] = 1 => sent'[m] # Unsent /\ NonceRemembered(m)'
    BY DEF NonceInv
  <2>0. /\ sent[m].ts \in Nat /\ sent[m].ts <= clock /\ clock \in Nat
        /\ accepted[m] \in Nat /\ accepted[m] <= 1
        /\ accepted[m] = 1 => sent[m] # Unsent /\ NonceRemembered(m)
        /\ seenNonces \subseteq [nonce : Nonces, until : Nat]
    BY DEF NonceInv, WebhookTypeOK, Unsent
  <2>1. ASSUME NEW n \in Nonces, NEW k \in Keys, NEW ts \in 0..(MaxTime + Skew), Send(n, k, ts)
        PROVE  /\ sent'[m].ts <= clock'
               /\ accepted'[m] <= 1
               /\ accepted'[m] = 1 => sent'[m] # Unsent /\ NonceRemembered(m)'
    <3>1. CASE m = n
      <4>1. accepted[m] = 0
        BY <2>0, <2>1, <3>1 DEF Send
      <4>2. sent'[m].ts <= clock
        BY <2>1, <3>1 DEF Send, NonceInv, WebhookTypeOK
      <4>3. QED
        BY <2>0, <2>1, <4>1, <4>2 DEF Send, memory
    <3>2. CASE m # n
      <4>1. sent'[m] = sent[m]
        BY <2>1, <3>2 DEF Send, NonceInv, WebhookTypeOK
      <4>2. QED
        BY <2>0, <2>1, <4>1 DEF Send, memory, NonceRemembered
    <3>3. QED
      BY <3>1, <3>2
  <2>2. ASSUME NEW n \in Nonces, Deliver(n)
        PROVE  /\ sent'[m].ts <= clock'
               /\ accepted'[m] <= 1
               /\ accepted'[m] = 1 => sent'[m] # Unsent /\ NonceRemembered(m)'
    <3>0. sent' = sent /\ clock' = clock
      BY <2>2 DEF Deliver, ReplayRejected, AnswerFromCache, Blocked, AnswerAtOnce, ResumeRun,
                  Received, Novel
    <3>1. Unexpired \subseteq seenNonces'
      BY <2>2 DEF Deliver, ReplayRejected, AnswerFromCache, Blocked, AnswerAtOnce, ResumeRun,
                  Received, Novel, Consume
    <3>2. NonceRemembered(m) => NonceRemembered(m)'
      <4> SUFFICES ASSUME NonceRemembered(m) PROVE NonceRemembered(m)'
        OBVIOUS
      <4>1. CASE clock > sent[m].ts + Window
        BY <4>1, <3>0 DEF NonceRemembered
      <4>2. CASE ~(clock > sent[m].ts + Window)
        <5>1. PICK s \in seenNonces : s.nonce = m /\ s.until >= sent[m].ts + Window
          BY <4>2 DEF NonceRemembered
        <5>2. s.until \in Nat
          BY <2>0, <5>1
        <5>3. s \in Unexpired
          BY <2>0, <4>2, <5>1, <5>2 DEF Unexpired
        <5>4. QED
          BY <3>0, <3>1, <5>1, <5>3 DEF NonceRemembered
      <4>3. QED
        BY <4>1, <4>2
    <3>3. CASE accepted'[m] = accepted[m]
      BY <2>0, <3>0, <3>2, <3>3
    <3>4. CASE accepted'[m] # accepted[m]
      <4>1. m = n /\ Consume(n) /\ accepted'[m] = accepted[m] + 1
        BY <2>2, <3>4 DEF Deliver, ReplayRejected, AnswerFromCache, Blocked, AnswerAtOnce,
                          ResumeRun, Received, Novel, Consume, NonceInv, WebhookTypeOK
      <4>2. Fresh(m) /\ ~Seen(m)
        BY <4>1 DEF Consume
      <4>3. accepted[m] # 1
        <5> SUFFICES ASSUME accepted[m] = 1 PROVE FALSE
          OBVIOUS
        <5>1. clock <= sent[m].ts + Window
          BY <4>2 DEF Fresh, isTimestampFresh
        <5>2. PICK s \in seenNonces : s.nonce = m /\ s.until >= sent[m].ts + Window
          BY <2>0, <5>1 DEF NonceRemembered
        <5>3. s.until \in Nat
          BY <2>0, <5>2
        <5>4. s.until >= clock
          BY <2>0, <5>1, <5>2, <5>3
        <5>5. QED
          BY <4>2, <5>2, <5>4 DEF Seen, Unexpired
      <4>4. accepted'[m] = 1
        BY <2>0, <4>1, <4>3
      <4>5. [nonce |-> m, until |-> clock + Window] \in seenNonces'
        BY <4>1 DEF Consume
      <4>6. clock + Window >= sent[m].ts + Window
        BY <2>0
      <4>7. NonceRemembered(m)'
        BY <3>0, <4>5, <4>6 DEF NonceRemembered
      <4>8. QED
        BY <2>0, <3>0, <4>2, <4>4, <4>7 DEF Fresh
    <3>5. QED
      BY <3>3, <3>4
  <2>3. ASSUME NEW n \in Nonces, NEW to \in {"awaiting_data", "completed", "failed"},
               RunReturns(n, to)
        PROVE  /\ sent'[m].ts <= clock'
               /\ accepted'[m] <= 1
               /\ accepted'[m] = 1 => sent'[m] # Unsent /\ NonceRemembered(m)'
    BY <2>0, <2>3 DEF RunReturns, NonceRemembered
  <2>4. CASE Restart
    BY <2>0, <2>4 DEF Restart
  <2>5. CASE Tick
    BY <2>0, <2>5 DEF Tick, memory, NonceRemembered
  <2>6. CASE UNCHANGED vars
    BY <2>0, <2>6 DEF vars, NonceRemembered
  <2>7. QED
    BY <2>1, <2>2, <2>3, <2>4, <2>5, <2>6 DEF Next
<1>3. NonceInv => NonceAcceptedOnce
  BY DEF NonceInv, NonceAcceptedOnce
<1>4. QED
  BY <1>1, <1>2, <1>3, WebhookTypeCorrect, PTL DEF Spec
-----------------------------------------------------------------------------
(* The idempotency cache: a step that was received has its answer stored   *)
(* in the same turn.                                                       *)

ReceivedInv ==
    /\ WebhookTypeOK
    /\ \A k \in Keys : executed[k] <= 1 /\ (executed[k] = 1 => k \in cached)

\* A contract without run.resume: retries never receive and attest a governed step twice,
\* because handleInboundWebhook then stores the answer before any other request is read.
THEOREM WebhookStepOnce == ~ResumeAuthorized /\ Spec => []GovernedStepOnce
<1> SUFFICES ASSUME ~ResumeAuthorized PROVE Spec => []GovernedStepOnce
  OBVIOUS
<1> USE WebhookAssumption
<1>1. Init => ReceivedInv
  BY DEF Init, ReceivedInv, WebhookTypeOK, Unsent
<1>2. ReceivedInv /\ WebhookTypeOK' /\ [Next]_vars => ReceivedInv'
  <2> SUFFICES ASSUME ReceivedInv, WebhookTypeOK', [Next]_vars, NEW j \in Keys
               PROVE  executed'[j] <= 1 /\ (executed'[j] = 1 => j \in cached')
    BY DEF ReceivedInv
  <2>0. /\ executed \in [Keys -> Nat] /\ executed[j] <= 1
        /\ executed[j] = 1 => j \in cached
    BY DEF ReceivedInv, WebhookTypeOK
  <2>1. CASE \/ \E n \in Nonces, k \in Keys, ts \in 0..(MaxTime + Skew) : Send(n, k, ts)
             \/ Tick
             \/ UNCHANGED vars
    BY <2>0, <2>1 DEF Send, Tick, memory, vars
  <2>2. ASSUME NEW n \in Nonces, Deliver(n)
        PROVE  executed'[j] <= 1 /\ (executed'[j] = 1 => j \in cached')
    <3>1. CASE ReplayRejected(n) \/ AnswerFromCache(n) \/ Blocked(n)
      BY <2>0, <3>1 DEF ReplayRejected, AnswerFromCache, Blocked, storeIdempotentResponse
    <3>2. CASE AnswerAtOnce(n)
      BY <2>0, <3>2 DEF AnswerAtOnce, Received, Novel, storeIdempotentResponse
    <3>3. CASE ResumeRun(n)
      BY <3>3 DEF ResumeRun, MayResume
    <3>4. QED
      BY <2>2, <3>1, <3>2, <3>3 DEF Deliver
  <2>3. ASSUME NEW n \in Nonces, NEW to \in {"awaiting_data", "completed", "failed"},
               RunReturns(n, to)
        PROVE  executed'[j] <= 1 /\ (executed'[j] = 1 => j \in cached')
    BY <2>0, <2>3 DEF RunReturns, storeIdempotentResponse
  <2>4. CASE Restart
    BY <2>4 DEF Restart
  <2>5. QED
    BY <2>1, <2>2, <2>3, <2>4 DEF Next
<1>3. ReceivedInv => GovernedStepOnce
  BY DEF ReceivedInv, GovernedStepOnce
<1>4. QED
  BY <1>1, <1>2, <1>3, WebhookTypeCorrect, PTL DEF Spec
-----------------------------------------------------------------------------
(* A run under way is marked running, which keeps every retry from it      *)
(* until the answer is stored; and one request at a time waits for it.     *)

WaitingRunIsRunning ==
    \A n \in resuming : state[RunOf[sent[n].key]] = "running"

OneWaitsPerRun ==
    \A m, n \in resuming : RunOf[sent[m].key] = RunOf[sent[n].key] => m = n

ResumeInv ==
    /\ WebhookTypeOK /\ WaitingRunIsRunning /\ OneWaitsPerRun
    /\ \A k \in Keys : resumes[k] <= 1 /\ (resumes[k] = 1 => k \in cached \/ Waits(k))

\* Whatever the contract grants, the retries of one request resume its run at most once:
\* the state of the run's row holds them off while the first attempt waits for executeRun,
\* the stored answer after it.
THEOREM WebhookResumedOnce == Spec => []ResumedOncePerKey
<1> USE WebhookAssumption
<1>1. Init => ResumeInv
  <2> SUFFICES ASSUME Init PROVE ResumeInv
    OBVIOUS
  <2>1. WebhookTypeOK
    BY DEF Init, WebhookTypeOK, Unsent
  <2>2. QED
    BY <2>1 DEF Init, ResumeInv, WaitingRunIsRunning, OneWaitsPerRun
<1>2. ResumeInv /\ WebhookTypeOK' /\ [Next]_vars => ResumeInv'
  <2> SUFFICES ASSUME ResumeInv, WebhookTypeOK', [Next]_vars
               PROVE  /\ WaitingRunIsRunning' /\ OneWaitsPerRun'
                      /\ \A k \in Keys : resumes'[k] <= 1
                                         /\ (resumes'[k] = 1 => k \in cached' \/ Waits(k)')
    BY DEF ResumeInv
  <2> DEFINE Kept == /\ WaitingRunIsRunning' /\ OneWaitsPerRun'
                     /\ \A k \in Keys : resumes'[k] <= 1
                                        /\ (resumes'[k] = 1 => k \in cached' \/ Waits(k)')
  <2>0. /\ WebhookTypeOK /\ WaitingRunIsRunning /\ OneWaitsPerRun
        /\ \A k \in Keys : resumes[k] <= 1 /\ (resumes[k] = 1 => k \in cached \/ Waits(k))
    BY DEF ResumeInv
  <2>a. /\ resumes \in [Keys -> Nat] /\ resuming \subseteq Nonces
        /\ \A m \in resuming : sent[m].key \in Keys
        /\ state \in [Runs -> {"awaiting_data", "running", "completed", "failed"}]
    BY <2>0 DEF WebhookTypeOK, Unsent
  <2>1. ASSUME NEW n \in Nonces, NEW k \in Keys, NEW ts \in 0..(MaxTime + Skew), Send(n, k, ts)
        PROVE  Kept
    <3>1. \A m \in resuming : sent'[m] = sent[m]
      BY <2>0, <2>1 DEF Send, WebhookTypeOK
    <3>2. QED
      BY <2>0, <2>1, <3>1 DEF Send, memory, Waits, WaitingRunIsRunning, OneWaitsPerRun
  <2>2. ASSUME NEW n \in Nonces, Deliver(n) PROVE Kept
    <3>1. CASE ReplayRejected(n) \/ AnswerFromCache(n) \/ Blocked(n) \/ AnswerAtOnce(n)
      <4>1. UNCHANGED <<sent, resuming, state, resumes>> /\ cached \subseteq cached'
        BY <3>1 DEF ReplayRejected, AnswerFromCache, Blocked, AnswerAtOnce, storeIdempotentResponse
      <4>2. QED
        BY <2>0, <4>1 DEF Waits, WaitingRunIsRunning, OneWaitsPerRun
    <3>2. CASE ResumeRun(n)
      <4> DEFINE k == sent[n].key
      <4>1. /\ k \notin cached /\ state[RunOf[k]] = "awaiting_data"
            /\ resuming' = resuming \cup {n} /\ UNCHANGED <<sent, cached>>
            /\ state' = [state EXCEPT ![RunOf[k]] = "running"]
            /\ resumes' = [resumes EXCEPT ![k] = @ + 1]
        BY <3>2 DEF ResumeRun, Received, Novel, MayResume
      <4>2. k \in Keys /\ RunOf[k] \in Runs
        BY <2>0, <3>2 DEF ResumeRun, Received, Novel, Consume, Fresh, WebhookTypeOK
      <4>3. \A m \in resuming : RunOf[sent[m].key] # RunOf[k]
        BY <2>0, <4>1 DEF WaitingRunIsRunning
      <4>4. resumes[k] = 0
        BY <2>0, <2>a, <4>1, <4>2, <4>3 DEF Waits
      <4>5. WaitingRunIsRunning'
        BY <2>0, <2>a, <4>1, <4>2 DEF WaitingRunIsRunning
      <4>6. OneWaitsPerRun'
        BY <2>0, <4>1, <4>3 DEF OneWaitsPerRun
      <4>7. ASSUME NEW j \in Keys
            PROVE  resumes'[j] <= 1 /\ (resumes'[j] = 1 => j \in cached' \/ Waits(j)')
        BY <2>0, <2>a, <4>1, <4>2, <4>4 DEF Waits
      <4>8. QED
        BY <4>5, <4>6, <4>7
    <3>3. QED
      BY <2>2, <3>1, <3>2 DEF Deliver
  <2>3. ASSUME NEW n \in Nonces, NEW to \in {"awaiting_data", "completed", "failed"},
               RunReturns(n, to)
        PROVE  Kept
    <3>1. /\ n \in resuming /\ resuming' = resuming \ {n} /\ UNCHANGED <<sent, resumes>>
          /\ state' = [state EXCEPT ![RunOf[sent[n].key]] = to]
          /\ cached' = cached \cup {sent[n].key}
      BY <2>3 DEF RunReturns, storeIdempotentResponse
    <3>2. WaitingRunIsRunning'
      BY <2>0, <2>a, <3>1 DEF WaitingRunIsRunning, OneWaitsPerRun
    <3>3. OneWaitsPerRun'
      BY <2>0, <3>1 DEF OneWaitsPerRun
    <3>4. \A j \in Keys : Waits(j) => j \in cached' \/ Waits(j)'
      BY <3>1 DEF Waits
    <3>5. QED
      BY <2>0, <3>1, <3>2, <3>3, <3>4
  <2>4. CASE Restart
    BY <2>4 DEF Restart, WaitingRunIsRunning, OneWaitsPerRun
  <2>5. CASE Tick \/ UNCHANGED vars
    BY <2>0, <2>5 DEF Tick, memory, vars, Waits, WaitingRunIsRunning, OneWaitsPerRun
  <2>6. QED
    BY <2>1, <2>2, <2>3, <2>4, <2>5 DEF Next
<1>3. ResumeInv => ResumedOncePerKey
  BY DEF ResumeInv, ResumedOncePerKey
<1>4. QED
  BY <1>1, <1>2, <1>3, WebhookTypeCorrect, PTL DEF Spec
-----------------------------------------------------------------------------
(* A step that was received is answered, or its run is still awaited.      *)

AnsweredInv == \A k \in Keys : executed[k] > 0 => k \in cached \/ Waits(k)

\* Whatever the contract grants, a retry re-executes the governed step only in the window
\* in which handleInboundWebhook awaits executeRun for an earlier attempt: every path out
\* of the handler stores the answer under the key.
THEOREM WebhookReexecutes == Spec => ReexecutedOnlyWhileWaiting
<1> USE WebhookAssumption
<1>1. Init => AnsweredInv
  BY DEF Init, AnsweredInv
<1>2. WebhookTypeOK /\ AnsweredInv /\ [Next]_vars => AnsweredInv'
  <2> SUFFICES ASSUME WebhookTypeOK, AnsweredInv, [Next]_vars,
                      NEW j \in Keys, executed'[j] > 0
               PROVE  j \in cached' \/ Waits(j)'
    BY DEF AnsweredInv
  <2>0. executed \in [Keys -> Nat] /\ (executed[j] > 0 => j \in cached \/ Waits(j))
    BY DEF WebhookTypeOK, AnsweredInv
  <2>1. ASSUME NEW n \in Nonces, NEW k \in Keys, NEW ts \in 0..(MaxTime + Skew), Send(n, k, ts)
        PROVE  j \in cached' \/ Waits(j)'
    <3>1. \A m \in resuming : sent'[m] = sent[m]
      BY <2>1 DEF Send, WebhookTypeOK
    <3>2. QED
      BY <2>0, <2>1, <3>1 DEF Send, memory, Waits
  <2>2. ASSUME NEW n \in Nonces, Deliver(n) PROVE j \in cached' \/ Waits(j)'
    <3>1. sent' = sent /\ cached \subseteq cached' /\ resuming \subseteq resuming'
      BY <2>2 DEF Deliver, ReplayRejected, AnswerFromCache, Blocked, AnswerAtOnce, ResumeRun,
                  Received, Novel, storeIdempotentResponse
    <3>2. CASE executed'[j] = executed[j]
      BY <2>0, <3>1, <3>2 DEF Waits
    <3>3. CASE executed'[j] # executed[j]
      <4>1. Received(n) /\ sent[n].key = j /\ (AnswerAtOnce(n) \/ ResumeRun(n))
        BY <2>0, <2>2, <3>3 DEF Deliver, ReplayRejected, AnswerFromCache, Blocked, AnswerAtOnce,
                                ResumeRun, Received
      <4>2. QED
        BY <3>1, <4>1 DEF AnswerAtOnce, ResumeRun, storeIdempotentResponse, Waits
    <3>4. QED
      BY <3>2, <3>3
  <2>3. ASSUME NEW n \in Nonces, NEW to \in {"awaiting_data", "completed", "failed"},
               RunReturns(n, to)
        PROVE  j \in cached' \/ Waits(j)'
    BY <2>0, <2>3 DEF RunReturns, storeIdempotentResponse, Waits
  <2>4. CASE Restart
    BY <2>4 DEF Restart
  <2>5. CASE Tick \/ UNCHANGED vars
    BY <2>0, <2>5 DEF Tick, memory, vars, Waits
  <2>6. QED
    BY <2>1, <2>2, <2>3, <2>4, <2>5 DEF Next
<1>3. WebhookTypeOK /\ AnsweredInv /\ [Next]_vars
      => [\A k \in Keys : executed[k] > 0 /\ executed'[k] > executed[k] => Waits(k)]_vars
  <2> SUFFICES ASSUME WebhookTypeOK, AnsweredInv, [Next]_vars, NEW k \in Keys,
                      executed[k] > 0, executed'[k] > executed[k]
               PROVE  Waits(k)
    OBVIOUS
  <2>0. executed \in [Keys -> Nat]
    BY DEF WebhookTypeOK
  <2>1. PICK n \in Nonces : Deliver(n)
    BY <2>0 DEF Next, vars, Send, memory, RunReturns, Restart, Tick
  <2>2. Novel(n) /\ sent[n].key = k
    BY <2>0, <2>1 DEF Deliver, ReplayRejected, AnswerFromCache, Blocked, AnswerAtOnce, ResumeRun,
                      Received
  <2>3. QED
    BY <2>2 DEF Novel, AnsweredInv
<1>4. QED
  BY <1>1, <1>2, <1>3, WebhookTypeCorrect, PTL DEF Spec, ReexecutedOnlyWhileWaiting

\* Retries of a request do its work once (handleInboundWebhook).
THEOREM WebhookRetriesAreIdempotent == Spec => RetriesAreIdempotent
BY WebhookResumedOnce, WebhookReexecutes DEF RetriesAreIdempotent
-----------------------------------------------------------------------------
(* The external signer. Until the cap is reached what was read and what is *)
(* still in the pipe are what was written; from then on what was read is   *)
(* its beginning, and nothing that ran over the cap was ever kept.         *)

ChildRecord == [life : {"none", "running", "gone"}, code : Nat \cup {Unmade},
                wrote : Seq(Chunk), pipe : Seq(Chunk), held : BOOLEAN]
CallerRecord == [stdout : Seq(Chunk), timedOut : BOOLEAN, oversize : BOOLEAN,
                 verdict : {Unmade, "signature", "refused"}]

\* s is the beginning of t, and s followed by p is t.
Begins(s, t) == Len(s) <= Len(t) /\ \A i \in 1..Len(s) : t[i] = s[i]
Makes(s, p, t) == /\ Len(t) = Len(s) + Len(p) /\ \A i \in 1..Len(s) : t[i] = s[i]
                  /\ \A i \in 1..Len(p) : t[Len(s) + i] = p[i]

NothingBig(s) == \A i \in 1..Len(s) : s[i] # "big"

Unbroken(ch, cl) ==
    /\ NothingBig(cl.stdout) /\ Len(cl.stdout) <= OutputCap
    /\ ~cl.oversize => /\ Begins(cl.stdout, ch.wrote)
                       /\ Len(cl.stdout) < OutputCap => Makes(cl.stdout, ch.pipe, ch.wrote)

SignerInv == /\ child \in ChildRecord /\ caller \in CallerRecord
             /\ Unbroken(child, caller)
             /\ caller.verdict = "signature" =>
                    child.life = "gone" /\ child.code = 0 /\ ~caller.timedOut /\ ~caller.oversize
             /\ CountersignedByThem

\* Chunks of which none is big take a piece each.
LEMMA SizeIsLength == ASSUME NEW s \in Seq(Chunk), NothingBig(s) PROVE sizeOf(s) = Len(s)
<1>1. {i \in DOMAIN s : s[i] = "big"} = {}
  BY DEF NothingBig
<1>2. Cardinality({i \in DOMAIN s : s[i] = "big"}) = 0
  BY <1>1, FS_EmptySet
<1>3. OutputCap \in Nat /\ Len(s) \in Nat
  BY SignerAssumption
<1>4. QED
  BY <1>2, <1>3 DEF sizeOf

\* IsPrefix says so element by element.
LEMMA BeginsIsPrefix ==
    ASSUME NEW s \in Seq(Chunk), NEW t \in Seq(Chunk), Begins(s, t) PROVE IsPrefix(s, t)
<1>1. Len(s) \in Nat /\ Len(t) \in Nat /\ Len(s) <= Len(t)
  BY DEF Begins
<1>2. \A i \in 1..Len(s) : s[i] \in Chunk /\ t[i] \in Chunk /\ s[i] = t[i]
  BY <1>1 DEF Begins
<1>3. /\ SubSeq(s, 1, Len(s)) \in Seq(Chunk) /\ Len(SubSeq(s, 1, Len(s))) = Len(s)
      /\ \A i \in 1..Len(s) : SubSeq(s, 1, Len(s))[i] = s[i]
  BY <1>1, <1>2, SubSeqProperties
<1>4. /\ SubSeq(t, 1, Len(s)) \in Seq(Chunk) /\ Len(SubSeq(t, 1, Len(s))) = Len(s)
      /\ \A i \in 1..Len(s) : SubSeq(t, 1, Len(s))[i] = t[i]
  BY <1>1, <1>2, SubSeqProperties
<1>5. SubSeq(s, 1, Len(s)) = SubSeq(t, 1, Len(s))
  BY <1>2, <1>3, <1>4, SeqEqual
<1>6. QED
  BY <1>1, <1>5 DEF IsPrefix

\* One chunk of the pipe goes to the end of what was read.
LEMMA ReadOne ==
    ASSUME NEW s \in Seq(Chunk), NEW q \in Seq(Chunk), q # <<>>, NEW t \in Seq(Chunk), Makes(s, q, t)
    PROVE  Makes(Append(s, Head(q)), Tail(q), t) /\ Begins(Append(s, Head(q)), t)
<1> DEFINE n == Len(s)
           k == Len(q)
           a == Append(s, Head(q))
           b == Tail(q)
<1>1. n \in Nat /\ k \in Nat /\ k > 0
  BY EmptySeq
<1>2. Head(q) \in Chunk /\ Head(q) = q[1] /\ b \in Seq(Chunk) /\ Len(b) = k - 1
      /\ \A i \in 1..(k - 1) : b[i] = q[i + 1]
  BY HeadTailProperties
<1>3. a \in Seq(Chunk) /\ Len(a) = n + 1 /\ a[n + 1] = q[1] /\ \A i \in 1..n : a[i] = s[i]
  BY <1>2, AppendProperties
<1>4. Len(t) = n + k /\ (\A i \in 1..n : t[i] = s[i]) /\ \A i \in 1..k : t[n + i] = q[i]
  BY DEF Makes
<1> HIDE DEF n, k, a, b
<1>5. \A i \in 1..(n + 1) : t[i] = a[i]
  <2>1. t[n + 1] = q[1]
    BY <1>1, <1>4
  <2>2. \A i \in 1..(n + 1) : i \in 1..n \/ i = n + 1
    BY <1>1
  <2>3. QED
    BY <1>3, <1>4, <2>1, <2>2
<1>6. ASSUME NEW i \in 1..(k - 1) PROVE t[(n + 1) + i] = b[i]
  <2>1. i + 1 \in 1..k /\ n + (i + 1) = (n + 1) + i
    BY <1>1
  <2>2. t[n + (i + 1)] = q[i + 1]
    BY <1>4, <2>1
  <2>3. QED
    BY <1>2, <2>1, <2>2
<1>7. Len(t) = Len(a) + Len(b) /\ Len(a) <= Len(t)
  BY <1>1, <1>2, <1>3, <1>4
<1>8. QED
  BY <1>2, <1>3, <1>5, <1>6, <1>7 DEF Makes, Begins, a, b

\* The child writes at one end of the pipe and runChild reads at the other.
LEMMA ReadsStep == ASSUME SignerInv, reads PROVE SignerInv'
<1> USE DEF SignerInv
<1> DEFINE chunk == Head(child.pipe)
<1>1. /\ child.pipe \in Seq(Chunk) /\ child.pipe # <<>> /\ child.wrote \in Seq(Chunk)
      /\ caller.stdout \in Seq(Chunk) /\ caller.verdict # "signature"
      /\ UNCHANGED counter
  BY SignerAssumption DEF reads, pending, ChildRecord, CallerRecord
<1>2. /\ chunk \in Chunk /\ chunk = child.pipe[1] /\ Tail(child.pipe) \in Seq(Chunk)
      /\ Len(child.pipe) \in Nat /\ Len(child.pipe) > 0
      /\ Len(Tail(child.pipe)) = Len(child.pipe) - 1
      /\ \A i \in 1..Len(Tail(child.pipe)) : Tail(child.pipe)[i] = child.pipe[i + 1]
  BY <1>1, HeadTailProperties
<1> DEFINE n == Len(caller.stdout)
<1>3. sizeOf(caller.stdout) = n /\ n \in Nat /\ n <= OutputCap /\ OutputCap \in Nat
  BY <1>1, SizeIsLength, SignerAssumption DEF Unbroken
<1>4. CountersignedByThem'
  BY <1>1 DEF CountersignedByThem
<1> HIDE DEF n, chunk
<1>5. CASE n < OutputCap /\ n + size(chunk) > OutputCap
  <2>1. child' = [killed(child) EXCEPT !.pipe = Tail(@)] /\ caller' = [caller EXCEPT !.oversize = TRUE]
    BY <1>3, <1>5 DEF reads, chunk, n
  <2>2. killed(child) \in ChildRecord /\ killed(child).pipe = child.pipe
    BY DEF killed, ChildRecord, SIGKILL
  <2>3. child' \in ChildRecord
    BY <1>2, <2>1, <2>2 DEF ChildRecord
  <2>4. caller' \in CallerRecord /\ caller'.oversize = TRUE /\ caller'.stdout = caller.stdout
        /\ caller'.verdict = caller.verdict
    BY <2>1 DEF CallerRecord
  <2>5. Unbroken(child', caller')
    BY <2>4 DEF Unbroken
  <2>6. QED
    BY <1>1, <1>4, <2>3, <2>4, <2>5
<1>6. CASE ~(n < OutputCap /\ n + size(chunk) > OutputCap)
  <2>1. /\ child' = [child EXCEPT !.pipe = Tail(@)]
        /\ caller' = IF n >= OutputCap THEN caller ELSE [caller EXCEPT !.stdout = Append(@, chunk)]
    BY <1>3, <1>6 DEF reads, chunk, n
  <2>2. /\ child' \in ChildRecord /\ child'.pipe = Tail(child.pipe) /\ child'.wrote = child.wrote
        /\ child'.life = child.life /\ child'.code = child.code
    BY <1>2, <2>1 DEF ChildRecord
  <2>3. CASE n >= OutputCap
    <3>1. caller' = caller
      BY <2>1, <2>3
    <3>2. ~(Len(caller.stdout) < OutputCap)
      BY <1>3, <2>3 DEF n
    <3>3. Unbroken(child', caller')
      BY <2>2, <3>1, <3>2 DEF Unbroken
    <3>4. QED
      BY <1>1, <1>4, <2>2, <3>1, <3>3
  <2>4. CASE n < OutputCap
    <3>1. caller' = [caller EXCEPT !.stdout = Append(@, chunk)]
      BY <1>3, <2>1, <2>4
    <3>2. /\ caller' \in CallerRecord /\ caller'.stdout = Append(caller.stdout, chunk)
          /\ caller'.verdict = caller.verdict /\ caller'.oversize = caller.oversize
      <4>1. Append(caller.stdout, chunk) \in Seq(Chunk)
        BY <1>1, <1>2
      <4>2. QED
        BY <3>1, <4>1 DEF CallerRecord
    <3>3. chunk # "big"
      BY <1>3, <1>6, <2>4 DEF size
    <3>4. /\ Len(caller'.stdout) = n + 1 /\ caller'.stdout[n + 1] = chunk
          /\ \A i \in 1..n : caller'.stdout[i] = caller.stdout[i]
      BY <1>1, <1>2, <3>2 DEF n, chunk
    <3>5. NothingBig(caller'.stdout)
      <4>1. \A i \in 1..n : caller.stdout[i] # "big"
        BY DEF Unbroken, NothingBig, n
      <4>2. \A i \in 1..(n + 1) : i \in 1..n \/ i = n + 1
        BY <1>3
      <4>3. QED
        BY <3>3, <3>4, <4>1, <4>2 DEF NothingBig
    <3>6. n + 1 <= OutputCap
      BY <1>3, <2>4
    <3>7. ASSUME ~caller.oversize
          PROVE  Makes(caller'.stdout, child'.pipe, child.wrote) /\ Begins(caller'.stdout, child.wrote)
      <4>1. Makes(caller.stdout, child.pipe, child.wrote)
        BY <2>4, <3>7 DEF Unbroken, n
      <4>2. Makes(Append(caller.stdout, Head(child.pipe)), Tail(child.pipe), child.wrote)
            /\ Begins(Append(caller.stdout, Head(child.pipe)), child.wrote)
        BY <1>1, <4>1, ReadOne
      <4>3. QED
        BY <2>2, <3>2, <4>2 DEF chunk
    <3>9. Unbroken(child', caller')
      BY <2>2, <3>2, <3>4, <3>5, <3>6, <3>7 DEF Unbroken
    <3>10. QED
      BY <1>1, <1>4, <2>2, <3>2, <3>9
  <2>5. QED
    BY <1>3, <2>3, <2>4
<1>7. QED
  BY <1>5, <1>6

\* A chunk that is written reaches the pipe.
LEMMA WritesStep == ASSUME SignerInv, NEW c \in Chunk, writes(c) PROVE SignerInv'
<1> USE DEF SignerInv
<1>1. /\ child.wrote \in Seq(Chunk) /\ child.pipe \in Seq(Chunk) /\ caller.stdout \in Seq(Chunk)
      /\ child' = [child EXCEPT !.wrote = Append(@, c), !.pipe = Append(@, c)]
      /\ UNCHANGED <<caller, counter>> /\ caller.verdict # "signature"
  BY SignerAssumption DEF writes, ChildRecord, CallerRecord
<1> DEFINE w == Append(child.wrote, c)
           q == Append(child.pipe, c)
<1>2. w \in Seq(Chunk) /\ q \in Seq(Chunk)
  BY <1>1
<1>3. child' = [child EXCEPT !.wrote = w, !.pipe = q]
  BY <1>1
<1>4. /\ Len(w) = Len(child.wrote) + 1 /\ w[Len(child.wrote) + 1] = c
      /\ \A i \in 1..Len(child.wrote) : w[i] = child.wrote[i]
  BY <1>1, AppendProperties
<1>5. /\ Len(q) = Len(child.pipe) + 1 /\ q[Len(child.pipe) + 1] = c
      /\ \A i \in 1..Len(child.pipe) : q[i] = child.pipe[i]
  BY <1>1, AppendProperties
<1>6. Len(child.wrote) \in Nat /\ Len(child.pipe) \in Nat /\ Len(caller.stdout) \in Nat
  BY <1>1
<1> HIDE DEF w, q
<1>7. /\ child' \in ChildRecord /\ child'.wrote = w /\ child'.pipe = q
      /\ child'.life = child.life /\ child'.code = child.code
  BY <1>2, <1>3 DEF ChildRecord
<1> DEFINE s == caller.stdout
           n == Len(s)
           k == Len(child.pipe)
           m == Len(child.wrote)
<1>8. ASSUME Begins(s, child.wrote) PROVE Begins(s, w)
  <2>1. n <= m /\ \A i \in 1..n : child.wrote[i] = s[i]
    BY <1>8 DEF Begins
  <2> HIDE DEF s
  <2>2. \A i \in 1..n : i \in 1..m
    BY <1>6, <2>1 DEF s
  <2>3. QED
    BY <1>4, <1>6, <2>1, <2>2 DEF Begins, s
<1>9. ASSUME Makes(s, child.pipe, child.wrote) PROVE Makes(s, q, w)
  <2>1. m = n + k /\ (\A i \in 1..n : child.wrote[i] = s[i]) /\ \A i \in 1..k : child.wrote[n + i] = child.pipe[i]
    BY <1>9 DEF Makes
  <2>2. n \in Nat /\ k \in Nat /\ m \in Nat
    BY <1>6
  <2>3. Len(w) = m + 1 /\ w[m + 1] = c /\ (\A i \in 1..m : w[i] = child.wrote[i])
        /\ Len(q) = k + 1 /\ q[k + 1] = c /\ (\A i \in 1..k : q[i] = child.pipe[i])
    BY <1>4, <1>5
  <2>4. Len(s) = n
    OBVIOUS
  <2> HIDE DEF s, n, k, m
  <2>5. \A i \in 1..n : w[i] = s[i]
    <3>1. \A i \in 1..n : i \in 1..m
      BY <2>1, <2>2
    <3>2. QED
      BY <2>1, <2>3, <3>1
  <2>6. ASSUME NEW i \in 1..(k + 1) PROVE w[n + i] = q[i]
    <3>1. CASE i = k + 1
      <4>1. n + i = m + 1
        BY <2>1, <2>2, <3>1
      <4>2. QED
        BY <2>3, <3>1, <4>1
    <3>2. CASE i # k + 1
      <4>1. i \in 1..k /\ n + i \in 1..m
        BY <2>1, <2>2, <3>2
      <4>2. QED
        BY <2>1, <2>3, <4>1
    <3>3. QED
      BY <3>1, <3>2
  <2>7. Len(w) = n + Len(q)
    BY <2>1, <2>2, <2>3
  <2>8. QED
    BY <2>3, <2>4, <2>5, <2>6, <2>7 DEF Makes
<1>10. Unbroken(child', caller')
  BY <1>1, <1>7, <1>8, <1>9 DEF Unbroken
<1>11. CountersignedByThem'
  BY <1>1 DEF CountersignedByThem
<1>12. QED
  BY <1>1, <1>7, <1>10, <1>11

\* The child starts, ends or is killed; its output stays where it is.
LEMMA LifeStep ==
    ASSUME SignerInv, \/ spawns
                      \/ \E code \in 0..1, held \in BOOLEAN : exits(code, held)
                      \/ timer
                      \/ spawnError
    PROVE  SignerInv'
<1> USE DEF SignerInv
<1>1. UNCHANGED counter
  BY DEF spawns, exits, timer, spawnError
<1>2. CountersignedByThem'
  BY <1>1 DEF CountersignedByThem
<1>3. /\ child' \in ChildRecord /\ child'.wrote = child.wrote /\ child'.pipe = child.pipe
      /\ child.life = "gone" => child'.life = "gone" /\ child'.code = child.code
  <2>0. child \in ChildRecord
    OBVIOUS
  <2>1. CASE spawns
    BY <2>0, <2>1 DEF spawns, ChildRecord
  <2>2. ASSUME NEW code \in 0..1, NEW held \in BOOLEAN, exits(code, held)
                PROVE  /\ child' \in ChildRecord /\ child'.wrote = child.wrote /\ child'.pipe = child.pipe
                       /\ child.life # "gone"
    <3>1. child' = [child EXCEPT !.life = "gone", !.code = code, !.held = held] /\ child.life = "running"
      BY Zenon, <2>2 DEF exits
    <3>2. code \in Nat
      OBVIOUS
    <3>3. QED
      BY <2>0, <3>1, <3>2 DEF ChildRecord
  <2>3. CASE timer
    <3>1. child' = killed(child) /\ SIGKILL \in Nat
      BY <2>3 DEF timer, SIGKILL
    <3>2. QED
      BY <2>0, <3>1 DEF killed, ChildRecord
  <2>4. CASE spawnError
    BY <2>4 DEF spawnError
  <2>5. QED
    BY <2>1, <2>2, <2>3, <2>4
<1>4. /\ caller' \in CallerRecord /\ caller'.stdout = caller.stdout /\ caller'.oversize = caller.oversize
      /\ caller'.verdict = "signature" => caller.verdict = "signature" /\ caller'.timedOut = caller.timedOut
  <2>1. CASE UNCHANGED caller
    BY <2>1
  <2>2. CASE timer
    <3>1. caller.verdict = Unmade /\ caller' = [caller EXCEPT !.timedOut = TRUE]
      BY <2>2 DEF timer, pending
    <3>2. caller'.verdict # "signature"
      BY <3>1, SignerAssumption DEF CallerRecord
    <3>3. QED
      BY <3>1, <3>2 DEF CallerRecord
  <2>3. CASE spawnError
    BY <2>3 DEF spawnError, finish, CallerRecord
  <2>4. QED
    BY <2>1, <2>2, <2>3 DEF spawns, exits
<1>5. Unbroken(child', caller')
  BY <1>3, <1>4 DEF Unbroken
<1>6. QED
  BY <1>2, <1>3, <1>4, <1>5

\* The process is gone and its output has ended.
LEMMA ClosesStep == ASSUME SignerInv, closes PROVE SignerInv'
<1> USE DEF SignerInv
<1>1. child.life = "gone" /\ UNCHANGED <<child, counter>>
  BY DEF closes
<1> DEFINE v == IF /\ ~caller.timedOut /\ ~caller.oversize /\ child.code = 0
                   /\ cryptoVerify(parseSignatureOutput(caller.stdout))
                THEN "signature" ELSE "refused"
<1>2. caller' = [caller EXCEPT !.verdict = v]
  BY DEF closes, finish
<1>3. v \in {"signature", "refused"} /\ (v = "signature" => ~caller.timedOut /\ ~caller.oversize /\ child.code = 0)
  OBVIOUS
<1> HIDE DEF v
<1>4. /\ caller' \in CallerRecord /\ caller'.stdout = caller.stdout /\ caller'.oversize = caller.oversize
      /\ caller'.timedOut = caller.timedOut /\ caller'.verdict = v
  BY <1>2, <1>3 DEF CallerRecord
<1>5. Unbroken(child', caller') /\ CountersignedByThem'
  BY <1>1, <1>4 DEF Unbroken, CountersignedByThem
<1>6. QED
  BY <1>1, <1>3, <1>4, <1>5

\* The key that verifySshsig compares is one the roster has for that person.
LEMMA RosterKeyIsTheirs ==
    ASSUME NEW roster \in Roster, NEW who \in Principal, findRosterKey(roster, who) # Unmade
    PROVE  \E i \in DOMAIN roster : roster[i] = [principal |-> who, key |-> findRosterKey(roster, who)]
<1> DEFINE lines == {i \in DOMAIN roster : roster[i].principal = who}
<1>1. DOMAIN roster \subseteq Nat /\ \A i \in DOMAIN roster : roster[i] \in RosterLine
  BY DEF Roster
<1>2. lines # {}
  BY DEF findRosterKey
<1>3. lines \subseteq {1, 2}
  BY DEF Roster
<1>4. \E i \in lines : \A j \in lines : i <= j
  <2>1. CASE 1 \in lines
    BY <1>3, <2>1
  <2>2. CASE 1 \notin lines
    BY <1>2, <1>3, <2>2
  <2>3. QED
    BY <2>1, <2>2
<1> DEFINE first == CHOOSE i \in lines : \A j \in lines : i <= j
<1>5. first \in lines
  BY <1>4
<1>6. findRosterKey(roster, who) = roster[first].key
  BY <1>2 DEF findRosterKey
<1> HIDE DEF first
<1>7. first \in DOMAIN roster /\ roster[first].principal = who /\ roster[first] \in RosterLine
  BY <1>1, <1>5
<1>8. QED
  BY <1>6, <1>7 DEF RosterLine

\* A blob that is accepted was made over the message, for this purpose, by that person.
LEMMA CountersignsStep ==
    ASSUME SignerInv, NEW b \in Blob, NEW roster \in Roster, NEW who \in Principal,
           NEW namespace \in Namespace, NEW message \in Message,
           countersigns(b, roster, who, namespace, message)
    PROVE  SignerInv'
<1> USE DEF SignerInv
<1> DEFINE v == verifySshsig(b, roster, who, namespace, message)
<1>1. /\ UNCHANGED <<child, caller>>
      /\ counter' = [blob |-> b, roster |-> roster, principal |-> who, namespace |-> namespace,
                     message |-> message, verdict |-> v]
  BY DEF countersigns
<1>2. ASSUME v = "ok" PROVE b.namespace = namespace /\ findRosterKey(roster, who) = b.key
                            /\ b.by = b.key /\ b.over = <<b.namespace, message>>
  BY <1>2 DEF verifySshsig
<1> HIDE DEF v
<1>3. b.key \in SshKey /\ Unmade \notin SshKey
  BY SignerAssumption DEF Blob
<1>4. ASSUME v = "ok" PROVE \E i \in DOMAIN roster : roster[i] = [principal |-> who, key |-> b.by]
  BY <1>2, <1>3, <1>4, RosterKeyIsTheirs
<1>5. CountersignedByThem'
  BY <1>1, <1>2, <1>4 DEF CountersignedByThem
<1>6. Unbroken(child', caller')
  BY <1>1
<1>7. QED
  BY <1>1, <1>5, <1>6

\* Whatever the child writes, in whatever order its chunks, its exit and the
\* timer come, only what a child that ended well wrote is taken for a signature,
\* and a counter-signature is that person's, for this purpose and this message
\* (runChild, signer-exec.mjs; verifySshsig, extsig.mjs).
THEOREM SignaturesWhole == SignerSpec => []SignaturesAreWhole
<1>1. SignerInit => SignerInv
  <2> SUFFICES ASSUME SignerInit PROVE SignerInv
    OBVIOUS
  <2>1. /\ child = NoChild /\ counter = Unmade
        /\ caller = [stdout |-> <<>>, timedOut |-> FALSE, oversize |-> FALSE, verdict |-> Unmade]
    BY DEF SignerInit
  <2>2. child \in ChildRecord /\ caller \in CallerRecord
    BY <2>1 DEF NoChild, ChildRecord, CallerRecord
  <2>3. Unbroken(child, caller)
    BY <2>1, SignerAssumption DEF NoChild, Unbroken, NothingBig, Begins, Makes
  <2>4. caller.verdict # "signature"
    BY <2>1, SignerAssumption
  <2>5. CountersignedByThem
    BY <2>1 DEF CountersignedByThem
  <2>6. QED
    BY <2>2, <2>3, <2>4, <2>5 DEF SignerInv
<1>2. SignerInv /\ [SignerNext]_signerVars => SignerInv'
  <2> SUFFICES ASSUME SignerInv, [SignerNext]_signerVars PROVE SignerInv'
    OBVIOUS
  <2>1. CASE UNCHANGED signerVars
    BY <2>1 DEF signerVars, SignerInv, Unbroken, CountersignedByThem
  <2>2. CASE SignerNext
    BY <2>2, WritesStep, LifeStep, ReadsStep, ClosesStep, CountersignsStep DEF SignerNext
  <2>3. QED
    BY <2>1, <2>2
<1>3. SignerInv => SignaturesAreWhole
  <2> SUFFICES ASSUME SignerInv PROVE SignaturesAreWhole
    OBVIOUS
  <2>1. caller.stdout \in Seq(Chunk) /\ child.wrote \in Seq(Chunk)
    BY DEF SignerInv, ChildRecord, CallerRecord
  <2>2. sizeOf(caller.stdout) = Len(caller.stdout)
    BY <2>1, SizeIsLength DEF SignerInv, Unbroken
  <2>3. ~caller.oversize => IsPrefix(caller.stdout, child.wrote)
    BY <2>1, BeginsIsPrefix DEF SignerInv, Unbroken
  <2>4. AcceptedIsUnbroken
    BY <2>2, <2>3 DEF SignerInv, Unbroken, AcceptedIsUnbroken
  <2>5. QED
    BY <2>4 DEF SignerInv, SignaturesAreWhole
<1>4. QED
  BY <1>1, <1>2, <1>3, PTL DEF SignerSpec

-----------------------------------------------------------------------------
(* The plan of a manifest. The sort takes, each time, the least step whose *)
(* producers were all taken before. Another order that respects the edges  *)
(* agrees with it up to some place, and at that place it has a step that   *)
(* was to be had, too: a later one.                                        *)

\* What may be taken after the steps of P, and what was taken before the k-th.
Avail(S, A, P) == {t \in S \ P : \A e \in A : e[2] = t => e[1] \in P}
Taken(o, k) == {o[i] : i \in 1..(k - 1)}

Greedy(S, A, o) ==
    /\ o \in Seq(S)
    /\ \A k \in 1..Len(o) : /\ o[k] \in Avail(S, A, Taken(o, k))
                            /\ \A t \in Avail(S, A, Taken(o, k)) : o[k] <= t

OneToOne(p) == \A i, j \in DOMAIN p : i # j => p[i] # p[j]
Obeys(A, p) == \A e \in A : \E i, j \in DOMAIN p : i < j /\ p[i] = e[1] /\ p[j] = e[2]

\* A set of indexes that is not empty has a least one.
LEMMA LeastIndex ==
    ASSUME NEW T, T \subseteq Nat, T # {}
    PROVE  \E m \in T : \A n \in T : m <= n
<1> DEFINE less == {ss \in Nat \X Nat : ss[1] < ss[2]}
<1>1. OpToRel(<, Nat) = less
  BY Zenon DEF OpToRel
<1>2. IsWellFoundedOn(less, Nat)
  BY <1>1, NatLessThanWellFounded, Zenon
<1> HIDE DEF less
<1>3. PICK m \in T : \A y \in T : ~(<<y, m>> \in less)
  BY <1>2, WFMin, Zenon
<1>4. \A x, y \in Nat : x < y => <<x, y>> \in less
  BY Zenon DEF less
<1>5. \A y \in T : ~(y < m)
  BY <1>3, <1>4
<1>6. QED
  BY <1>5

\* That is what Min returns.
LEMMA MinIsLeast ==
    ASSUME NEW T, T \subseteq Nat, T # {}
    PROVE  Min(T) \in T /\ \A n \in T : Min(T) <= n
<1>1. \E m \in T : \A n \in T : m <= n
  BY LeastIndex
<1>2. QED
  BY <1>1, Zenon DEF Min

\* No step is taken twice.
LEMMA GreedyOnce ==
    ASSUME NEW S, NEW A, NEW o, Greedy(S, A, o)
    PROVE  /\ Len(o) \in Nat /\ DOMAIN o = 1..Len(o) /\ o \in [1..Len(o) -> S] /\ OneToOne(o)
           /\ \A k \in 1..Len(o) : Taken(o, k) \subseteq S
<1>1. Len(o) \in Nat /\ DOMAIN o = 1..Len(o) /\ o \in [1..Len(o) -> S]
  BY DEF Greedy
<1>2. \A i, j \in 1..Len(o) : i < j => o[i] # o[j]
  <2> SUFFICES ASSUME NEW i \in 1..Len(o), NEW j \in 1..Len(o), i < j PROVE o[i] # o[j]
    OBVIOUS
  <2>1. o[j] \notin Taken(o, j)
    BY DEF Greedy, Avail
  <2>2. i \in 1..(j - 1)
    BY <1>1
  <2>3. QED
    BY <2>1, <2>2 DEF Taken
<1>3. \A i, j \in 1..Len(o) : i # j => i < j \/ j < i
  BY <1>1
<1>4. OneToOne(o)
  BY <1>1, <1>2, <1>3 DEF OneToOne
<1>5. \A k \in 1..Len(o) : \A i \in 1..(k - 1) : i \in 1..Len(o)
  BY <1>1
<1>6. QED
  BY <1>1, <1>4, <1>5 DEF Taken

\* Taking the least step that is to be had keeps it so.
LEMMA GreedyTakes ==
    ASSUME NEW S, NEW A, NEW o, Greedy(S, A, o), NEW s \in Avail(S, A, Range(o)),
           \A t \in Avail(S, A, Range(o)) : s <= t
    PROVE  /\ Greedy(S, A, Append(o, s)) /\ Range(Append(o, s)) = Range(o) \cup {s}
           /\ Len(Append(o, s)) = Len(o) + 1
<1> DEFINE p == Append(o, s)
<1>1. o \in Seq(S) /\ s \in S /\ Len(o) \in Nat /\ DOMAIN o = 1..Len(o)
  BY GreedyOnce DEF Greedy, Avail
<1>2. /\ p \in Seq(S) /\ Len(p) = Len(o) + 1 /\ p[Len(o) + 1] = s /\ \A i \in 1..Len(o) : p[i] = o[i]
      /\ DOMAIN p = 1..(Len(o) + 1)
  BY <1>1, AppendProperties
<1> HIDE DEF p
<1>3. Range(p) = Range(o) \cup {s}
  <2>1. DOMAIN p = DOMAIN o \cup {Len(o) + 1}
    BY <1>1, <1>2
  <2>2. QED
    BY <1>1, <1>2, <2>1 DEF Range
<1>4. \A k \in 1..Len(o) : Taken(p, k) = Taken(o, k)
  <2>1. \A k \in 1..Len(o) : \A i \in 1..(k - 1) : i \in 1..Len(o)
    BY <1>1
  <2>2. QED
    BY <1>2, <2>1 DEF Taken
<1>5. Taken(p, Len(o) + 1) = Range(o)
  <2>1. 1..((Len(o) + 1) - 1) = DOMAIN o
    BY <1>1
  <2>2. QED
    BY <1>1, <1>2, <2>1 DEF Taken, Range
<1>6. ASSUME NEW k \in 1..Len(p)
      PROVE  p[k] \in Avail(S, A, Taken(p, k)) /\ \A t \in Avail(S, A, Taken(p, k)) : p[k] <= t
  <2>1. CASE k \in 1..Len(o)
    BY <1>2, <1>4, <2>1 DEF Greedy
  <2>2. CASE k = Len(o) + 1
    BY <1>2, <1>5, <2>2
  <2>3. QED
    BY <1>1, <1>2, <2>1, <2>2
<1>7. Greedy(S, A, p)
  BY <1>2, <1>6 DEF Greedy
<1>8. QED
  BY <1>2, <1>3, <1>7 DEF p

\* As many different steps as there are, are all of them.
LEMMA OntoAll ==
    ASSUME NEW S, IsFiniteSet(S), NEW p \in [1..Cardinality(S) -> S], OneToOne(p)
    PROVE  \A t \in S : \E k \in 1..Cardinality(S) : p[k] = t
<1> DEFINE n == Cardinality(S)
<1>1. n \in Nat
  BY FS_CardinalityType
<1>2. IsFiniteSet(1..n) /\ Cardinality(1..n) = n
  BY <1>1, FS_Interval
<1>3. p \in Injection(1..n, S)
  BY DEF Injection, IsInjective, OneToOne
<1>4. p \in Surjection(1..n, S)
  BY <1>2, <1>3, FS_Injection
<1>5. QED
  BY <1>4 DEF Surjection

\* An order that has all steps and respects the edges is not nearer.
LEMMA GreedyNearest ==
    ASSUME NEW S, S \subseteq Nat, NEW A, NEW o, Greedy(S, A, o), NEW p \in [1..Len(o) -> S], OneToOne(p),
           Obeys(A, p)
    PROVE  Earlier(o, p)
<1>0. Len(o) \in Nat /\ DOMAIN o = 1..Len(o) /\ o \in [1..Len(o) -> S]
  BY GreedyOnce
<1> SUFFICES ASSUME o # p PROVE \E k \in DOMAIN o : o[k] < p[k] /\ \A i \in 1..(k - 1) : o[i] = p[i]
  BY DEF Earlier
<1> DEFINE D == {k \in 1..Len(o) : o[k] # p[k]}
<1>1. D # {} /\ D \subseteq Nat
  BY <1>0
<1>2. PICK k \in D : \A j \in D : k <= j
  BY <1>1, LeastIndex
<1>3. k \in 1..Len(o) /\ o[k] # p[k] /\ \A i \in 1..(k - 1) : i \in 1..Len(o) /\ o[i] = p[i]
  <2>1. k \in 1..Len(o) /\ o[k] # p[k]
    BY <1>2
  <2>2. \A i \in 1..(k - 1) : i \in 1..Len(o) /\ ~(k <= i)
    BY <1>0, <2>1
  <2>3. QED
    BY <1>2, <2>1, <2>2
<1> HIDE DEF D
<1>4. p[k] \in Avail(S, A, Taken(o, k))
  <2>1. p[k] \in S
    BY <1>3
  <2>2. p[k] \notin Taken(o, k)
    <3>1. \A i \in 1..(k - 1) : o[i] # p[k]
      <4>1. \A i \in 1..(k - 1) : i # k
        BY <1>0, <1>3
      <4>2. QED
        BY <1>3, <4>1 DEF OneToOne
    <3>2. QED
      BY <3>1 DEF Taken
  <2>3. ASSUME NEW e \in A, e[2] = p[k] PROVE e[1] \in Taken(o, k)
    <3>1. PICK i, j \in 1..Len(o) : i < j /\ p[i] = e[1] /\ p[j] = e[2]
      BY DEF Obeys
    <3>2. j = k
      BY <1>3, <2>3, <3>1 DEF OneToOne
    <3>3. i \in 1..(k - 1)
      BY <1>0, <1>3, <3>1, <3>2
    <3>4. QED
      BY <1>3, <3>1, <3>3 DEF Taken
  <2>4. QED
    BY <2>1, <2>2, <2>3 DEF Avail
<1>5. o[k] <= p[k]
  BY <1>3, <1>4 DEF Greedy
<1>6. o[k] \in Nat /\ p[k] \in Nat
  BY <1>0, <1>3
<1>7. QED
  BY <1>0, <1>3, <1>5, <1>6

\* When as many were taken as there are, the order has all steps and respects the edges.
LEMMA GreedyWhole ==
    ASSUME NEW S, IsFiniteSet(S), NEW A, A \subseteq S \X S, NEW o, Greedy(S, A, o), Len(o) = Cardinality(S)
    PROVE  o \in [1..Cardinality(S) -> S] /\ OneToOne(o) /\ Obeys(A, o)
<1>1. o \in [1..Cardinality(S) -> S] /\ OneToOne(o) /\ DOMAIN o = 1..Len(o) /\ Len(o) \in Nat
  BY GreedyOnce
<1>2. ASSUME NEW e \in A PROVE \E i, j \in DOMAIN o : i < j /\ o[i] = e[1] /\ o[j] = e[2]
  <2>1. e[2] \in S
    OBVIOUS
  <2>2. PICK j \in 1..Len(o) : o[j] = e[2]
    BY <1>1, <2>1, OntoAll
  <2>3. e[1] \in Taken(o, j)
    BY <2>2 DEF Greedy, Avail
  <2>4. PICK i \in 1..(j - 1) : o[i] = e[1]
    BY <2>3 DEF Taken
  <2>5. i \in 1..Len(o) /\ i < j
    BY <1>1
  <2>6. QED
    BY <1>1, <2>2, <2>4, <2>5
<1>3. QED
  BY <1>1, <1>2 DEF Obeys

\* When nothing is to be had before all were taken, no order respects the edges.
LEMMA GreedyStuck ==
    ASSUME NEW S, IsFiniteSet(S), NEW A, NEW o, Greedy(S, A, o), Len(o) # Cardinality(S),
           Avail(S, A, Range(o)) = {}, NEW p \in [1..Cardinality(S) -> S], OneToOne(p)
    PROVE  ~Obeys(A, p)
<1> SUFFICES ASSUME Obeys(A, p) PROVE FALSE
  OBVIOUS
<1> DEFINE n == Cardinality(S)
<1>1. /\ Len(o) \in Nat /\ DOMAIN o = 1..Len(o) /\ o \in [1..Len(o) -> S] /\ OneToOne(o) /\ n \in Nat
      /\ DOMAIN p = 1..n
  BY GreedyOnce, FS_CardinalityType
<1>2. PICK t \in S : t \notin Range(o)
  <2> SUFFICES ASSUME S \subseteq Range(o) PROVE FALSE
    OBVIOUS
  <2>1. o \in Bijection(1..Len(o), S)
    BY <1>1 DEF Bijection, Injection, Surjection, IsInjective, OneToOne, Range
  <2>2. ExistsBijection(1..Len(o), S)
    BY <2>1 DEF ExistsBijection
  <2>3. IsFiniteSet(1..Len(o)) /\ Cardinality(1..Len(o)) = Len(o)
    <3> DEFINE m == Len(o)
    <3>1. m \in Nat
      BY <1>1
    <3> HIDE DEF m
    <3>2. IsFiniteSet(1..m) /\ Cardinality(1..m) = m
      BY <3>1, FS_Interval
    <3>3. QED
      BY <3>2 DEF m
  <2>4. QED
    BY <2>2, <2>3, FS_Bijection
<1> DEFINE D == {k \in 1..n : p[k] \notin Range(o)}
<1>3. D # {} /\ D \subseteq Nat
  BY <1>1, <1>2, OntoAll
<1>4. PICK k \in D : \A j \in D : k <= j
  BY <1>3, LeastIndex
<1>5. k \in 1..n /\ p[k] \notin Range(o) /\ \A i \in 1..(k - 1) : i \in 1..n /\ p[i] \in Range(o)
  <2>1. k \in 1..n /\ p[k] \notin Range(o)
    BY <1>4
  <2>2. \A i \in 1..(k - 1) : i \in 1..n /\ ~(k <= i)
    BY <1>1, <2>1
  <2>3. QED
    BY <1>4, <2>1, <2>2
<1> HIDE DEF D, n
<1>6. p[k] \in S
  BY <1>5 DEF n
<1>7. ASSUME NEW e \in A, e[2] = p[k] PROVE e[1] \in Range(o)
  <2>1. PICK i, j \in 1..n : i < j /\ p[i] = e[1] /\ p[j] = e[2]
    BY <1>1 DEF Obeys
  <2>2. j = k
    BY <1>1, <1>5, <1>7, <2>1 DEF OneToOne
  <2>3. i \in 1..(k - 1)
    BY <1>1, <1>5, <2>1, <2>2
  <2>4. QED
    BY <1>5, <2>1, <2>3
<1>8. p[k] \in Avail(S, A, Range(o))
  BY <1>5, <1>6, <1>7 DEF Avail
<1>9. QED
  BY <1>8

\* Without edges the steps are taken in their own order.
LEMMA GreedyInOrder ==
    ASSUME NEW S, S \subseteq Nat, IsFiniteSet(S), NEW o \in [1..Cardinality(S) -> S], OneToOne(o),
           \A i, j \in DOMAIN o : i < j => o[i] < o[j]
    PROVE  Greedy(S, {}, o) /\ Len(o) = Cardinality(S)
<1>1. Cardinality(S) \in Nat
  BY FS_CardinalityType
<1>2. o \in Seq(S) /\ Len(o) = Cardinality(S) /\ DOMAIN o = 1..Len(o) /\ Len(o) \in Nat
  BY <1>1
<1>3. ASSUME NEW k \in 1..Len(o) PROVE o[k] \in Avail(S, {}, Taken(o, k))
  <2>1. \A i \in 1..(k - 1) : i \in DOMAIN o /\ i # k
    BY <1>2
  <2>2. o[k] \notin Taken(o, k)
    BY <1>2, <2>1 DEF Taken, OneToOne
  <2>3. QED
    BY <1>2, <2>2 DEF Avail
<1>4. ASSUME NEW k \in 1..Len(o), NEW t \in Avail(S, {}, Taken(o, k)) PROVE o[k] <= t
  <2>1. t \in S /\ t \notin Taken(o, k)
    BY DEF Avail
  <2>2. PICK j \in 1..Len(o) : o[j] = t
    BY <1>2, <2>1, OntoAll
  <2>3. ~(j \in 1..(k - 1))
    BY <2>1, <2>2 DEF Taken
  <2>4. k = j \/ k < j
    BY <1>2, <2>3
  <2>5. o[k] \in Nat /\ o[j] \in Nat
    BY <1>2
  <2>6. QED
    BY <1>2, <2>2, <2>4, <2>5
<1>5. QED
  BY <1>2, <1>3, <1>4 DEF Greedy

Ascending(o) == \A i, j \in DOMAIN o : i < j => o[i] < o[j]

\* Every finite set of indexes has an order of its own.
LEMMA OrderExists ==
    ASSUME NEW S, S \subseteq Nat, IsFiniteSet(S)
    PROVE  \E o \in [1..Cardinality(S) -> S] : Ascending(o)
<1> DEFINE Has(T) == \E o \in [1..Cardinality(T) -> T] : Ascending(o)
           Bad == {T \in SUBSET S : ~Has(T)}
           Sizes == {Cardinality(T) : T \in Bad}
<1> SUFFICES ASSUME ~Has(S) PROVE FALSE
  OBVIOUS
<1>1. \A T \in SUBSET S : IsFiniteSet(T) /\ Cardinality(T) \in Nat
  BY FS_Subset, FS_CardinalityType
<1>2. Sizes \subseteq Nat /\ Sizes # {}
  BY <1>1
<1>3. PICK n \in Sizes : \A m \in Sizes : n <= m
  <2> HIDE DEF Sizes
  <2>1. QED
    BY <1>2, LeastIndex
<1>4. PICK T \in Bad : Cardinality(T) = n
  BY <1>3
<1>5. T \subseteq S /\ ~Has(T) /\ \A U \in SUBSET S : ~Has(U) => n <= Cardinality(U)
  BY <1>3, <1>4
<1> HIDE DEF Bad, Sizes
<1>6. IsFiniteSet(T) /\ n \in Nat
  BY <1>1, <1>4, <1>5
<1>7. T # {}
  <2> SUFFICES ASSUME T = {} PROVE Has(T)
    BY <1>5
  <2>1. n = 0
    BY <1>4, FS_EmptySet
  <2> DEFINE o == [i \in 1..0 |-> 0]
  <2>2. o \in [1..Cardinality(T) -> T] /\ Ascending(o)
    BY <1>4, <2>1 DEF Ascending
  <2>3. QED
    BY <2>2
<1>8. PICK m \in T : \A t \in T : m <= t
  BY <1>5, <1>7, LeastIndex
<1> DEFINE U == T \ {m}
<1>9. Cardinality(U) = n - 1 /\ U \subseteq S
  BY <1>4, <1>5, <1>6, <1>8, FS_RemoveElement
<1>10. Has(U)
  <2>1. ~(n <= Cardinality(U))
    BY <1>6, <1>9
  <2>2. QED
    BY <1>5, <1>9, <2>1
<1>11. PICK q \in [1..(n - 1) -> U] : Ascending(q)
  BY <1>9, <1>10
<1> DEFINE o == [i \in 1..n |-> IF i = 1 THEN m ELSE q[i - 1]]
<1>12. \A i \in 1..n : i # 1 => i - 1 \in 1..(n - 1)
  BY <1>6
<1>13. o \in [1..n -> T]
  BY <1>8, <1>11, <1>12
<1>14. \A i, j \in 1..n : i < j => o[i] < o[j]
  <2> SUFFICES ASSUME NEW i \in 1..n, NEW j \in 1..n, i < j PROVE o[i] < o[j]
    OBVIOUS
  <2>1. j # 1 /\ j - 1 \in 1..(n - 1) /\ o[j] = q[j - 1] /\ q[j - 1] \in U
    BY <1>6, <1>11, <1>12
  <2>2. m \in Nat /\ q[j - 1] \in Nat
    BY <1>5, <1>8, <2>1
  <2>3. CASE i = 1
    BY <1>8, <2>1, <2>2, <2>3
  <2>4. CASE i # 1
    <3>1. i - 1 \in 1..(n - 1) /\ i - 1 < j - 1 /\ o[i] = q[i - 1]
      BY <1>6, <1>12, <2>1, <2>4
    <3>2. DOMAIN q = 1..(n - 1)
      BY <1>11
    <3>3. QED
      BY <1>11, <2>1, <3>1, <3>2 DEF Ascending
  <2>5. QED
    BY <2>3, <2>4
<1>15. Has(T)
  <2> HIDE DEF o
  <2>1. DOMAIN o = 1..n
    BY <1>13
  <2>2. QED
    BY <1>4, <1>13, <1>14, <2>1 DEF Ascending
<1>16. QED
  BY <1>5, <1>15

\* The steps of what is planned, and its edges.
LEMMA StepsAre ==
    ASSUME source.connectors \subseteq Connectors
    PROVE  steps \subseteq Nat /\ IsFiniteSet(steps) /\ steps # {} /\ Stray \notin steps /\ steps \subseteq Index
<1>1. /\ Connectors \subseteq Nat /\ IsFiniteSet(Connectors) /\ Nodes \subseteq Nat /\ IsFiniteSet(Nodes)
      /\ Declarer \in Nodes /\ Stray \notin Connectors \union Nodes
  BY PlanAssumption
<1>2. IsFiniteSet(source.connectors)
  BY <1>1, FS_Subset
<1>3. IsFiniteSet(source.connectors \union Nodes)
  BY <1>1, <1>2, FS_Union
<1>4. QED
  BY <1>1, <1>3 DEF steps, Index

\* The order of the layers is the plan without edges.
LEMMA BaseIs ==
    ASSUME source.connectors \subseteq Connectors
    PROVE  Greedy(steps, {}, base) /\ Len(base) = Cardinality(steps)
<1>1. steps \subseteq Nat /\ IsFiniteSet(steps)
  BY StepsAre
<1>2. PICK o \in [1..Cardinality(steps) -> steps] : Ascending(o)
  BY <1>1, OrderExists
<1>3. o \in Orders
  <2>1. DOMAIN o = 1..Cardinality(steps) /\ Cardinality(steps) \in Nat
    BY <1>1, FS_CardinalityType
  <2>2. ASSUME NEW i \in DOMAIN o, NEW j \in DOMAIN o, i # j PROVE o[i] # o[j]
    <3>1. o[i] \in Nat /\ o[j] \in Nat
      BY <1>1, <2>1
    <3>2. i \in Nat /\ j \in Nat
      BY <2>1
    <3>3. (i < j \/ j < i)
      BY <2>2, <3>2
    <3>4. (i < j => o[i] < o[j]) /\ (j < i => o[j] < o[i])
      BY <1>2 DEF Ascending
    <3>5. QED
      BY <3>1, <3>3, <3>4
  <2>3. QED
    BY <2>2 DEF Orders
<1>4. base \in Orders /\ \A i, j \in DOMAIN base : i < j => base[i] < base[j]
  <2>1. \E x \in Orders : \A i, j \in DOMAIN x : i < j => x[i] < x[j]
    BY <1>2, <1>3 DEF Ascending
  <2>2. QED
    BY <2>1, Zenon DEF base
<1>5. base \in [1..Cardinality(steps) -> steps] /\ OneToOne(base)
  BY <1>4 DEF Orders, OneToOne
<1>6. QED
  BY <1>1, <1>4, <1>5, GreedyInOrder

Planning == {"validate", "count", "sort", "ordered", "cycle", "rejected", "run", "done"}
Missing(t, P) == {e \in adjacency : e[2] = t /\ e[1] \notin P}

BindingsAreEdges ==
    \A i \in DOMAIN source.bindings :
        /\ source.bindings[i].connector_id \in source.connectors
        /\ <<source.bindings[i].connector_id, source.bindings[i].feeds_node_id>> \in Range(edges)

\* What is planned, and what the sort has found out.
ManifestInv ==
    /\ source.connectors \subseteq Connectors /\ planned \in Planning
    /\ \A i \in DOMAIN source.bindings : source.bindings[i] \in Bindings
    /\ \A i \in DOMAIN edges : edges[i] \in Edge
    /\ planned \notin {"validate", "rejected"} => BindingsAreEdges
    /\ planned \in {"validate", "count"} => ordered = <<>>
    /\ planned \in {"validate", "count", "sort", "ordered"} => outputs = {}

SortInv ==
    /\ planned \in {"sort", "cycle", "ordered", "run", "done"} => Greedy(steps, adjacency, ordered)
    /\ planned = "sort" =>
          /\ ready = Avail(steps, adjacency, Range(ordered))
          /\ \A t \in steps \ Range(ordered) : indegree[t] = Cardinality(Missing(t, Range(ordered)))
          /\ DOMAIN indegree = Index
    /\ planned = "cycle" =>
          Len(ordered) # Cardinality(steps) /\ Avail(steps, adjacency, Range(ordered)) = {}
    /\ planned \in {"ordered", "run", "done"} => Len(ordered) = Cardinality(steps)

RunInv ==
    planned \in {"ordered", "run"} =>
        \E n \in 0..(Len(ordered) - 1) : Cardinality(outputs) = n /\ outputs = Taken(ordered, n + 1)

PlanInv == ManifestInv /\ SortInv /\ RunInv

\* Edges between steps are pairs of steps, and finitely many.
LEMMA AdjacencyIs ==
    ASSUME ManifestInv
    PROVE  /\ adjacency \subseteq steps \X steps /\ IsFiniteSet(adjacency)
           /\ \A P : \A t : IsFiniteSet(Missing(t, P))
<1>1. IsFiniteSet(steps)
  BY StepsAre DEF ManifestInv
<1>2. \A e \in adjacency : e \in Edge /\ e[1] \in steps /\ e[2] \in steps
  BY DEF adjacency, known, Range, ManifestInv
<1>3. adjacency \subseteq steps \X steps
  BY <1>2 DEF Edge
<1>4. IsFiniteSet(adjacency)
  BY <1>1, <1>3, FS_Product, FS_Subset
<1>5. ASSUME NEW P, NEW t PROVE IsFiniteSet(Missing(t, P))
  BY <1>4, FS_Subset DEF Missing
<1>6. QED
  BY <1>3, <1>4, <1>5

\* A manifest to be validated, or bare edges.
LEMMA PlanStart == ASSUME PlanInit PROVE PlanInv
<1>1. /\ source.connectors \subseteq Connectors /\ planned \in {"validate", "count"}
      /\ \A i \in DOMAIN source.bindings : source.bindings[i] \in Bindings
      /\ \A i \in DOMAIN edges : edges[i] \in Edge
      /\ planned = "count" => DOMAIN source.bindings = {}
  <2>1. CASE \E c \in SUBSET Connectors, declares \in SUBSET {"p"}, b \in UpTo(Bindings, MaxBindings) :
                /\ source = [connectors |-> c, declares |-> declares, bindings |-> b]
                /\ edges = <<>> /\ planned = "validate"
    <3>1. PICK c \in SUBSET Connectors, declares \in SUBSET {"p"}, b \in UpTo(Bindings, MaxBindings) :
                /\ source = [connectors |-> c, declares |-> declares, bindings |-> b]
                /\ edges = <<>> /\ planned = "validate"
      BY <2>1
    <3>2. \A i \in DOMAIN b : b[i] \in Bindings
      BY DEF UpTo
    <3>3. DOMAIN edges = {}
      BY <3>1
    <3>4. QED
      BY <3>1, <3>2, <3>3
  <2>2. CASE \E e \in UpTo(Edge, MaxEdges) :
             /\ source = [connectors |-> Connectors, declares |-> {}, bindings |-> <<>>]
             /\ edges = e /\ planned = "count"
    <3>1. PICK e \in UpTo(Edge, MaxEdges) :
             /\ source = [connectors |-> Connectors, declares |-> {}, bindings |-> <<>>]
             /\ edges = e /\ planned = "count"
      BY <2>2
    <3>2. \A i \in DOMAIN e : e[i] \in Edge
      BY DEF UpTo
    <3>3. DOMAIN source.bindings = {}
      BY <3>1
    <3>4. QED
      BY <3>1, <3>2, <3>3
  <2>3. QED
    BY <2>1, <2>2 DEF PlanInit
<1>2. ordered = <<>> /\ outputs = {}
  BY DEF PlanInit
<1>3. QED
  BY <1>1, <1>2 DEF PlanInv, ManifestInv, SortInv, RunInv, BindingsAreEdges, Planning

\* What is planned stays, once the edges are known.
LEMMA SourceStays ==
    ASSUME UNCHANGED <<source, edges>>
    PROVE  steps' = steps /\ adjacency' = adjacency /\ (BindingsAreEdges <=> BindingsAreEdges')
  BY DEF steps, adjacency, known, BindingsAreEdges

\* Validation makes an edge of each binding.
LEMMA ValidateKeeps == ASSUME PlanInv, validateManifestBindings PROVE PlanInv'
<1>1. CASE planned' = "rejected" /\ UNCHANGED <<source, edges, ordered, outputs>>
  BY <1>1 DEF PlanInv, ManifestInv, SortInv, RunInv, Planning
<1>2. CASE /\ \A i \in DOMAIN source.bindings : bindingValid(i)
           /\ edges' = [i \in DOMAIN source.bindings |->
                            <<source.bindings[i].connector_id, source.bindings[i].feeds_node_id>>]
           /\ planned' = "count" /\ planned = "validate" /\ UNCHANGED <<source, ordered, outputs>>
  <2>1. \A i \in DOMAIN source.bindings : /\ source.bindings[i] \in Bindings
                                          /\ source.bindings[i].connector_id \in source.connectors
    BY <1>2 DEF bindingValid, PlanInv, ManifestInv
  <2>2. \A i \in DOMAIN source.bindings :
           /\ source.bindings[i].connector_id \in Index /\ source.bindings[i].feeds_node_id \in Index
    BY <2>1 DEF Bindings, Index
  <2>3. DOMAIN edges' = DOMAIN source.bindings /\ \A i \in DOMAIN edges' : edges'[i] \in Edge
    BY <1>2, <2>2 DEF Edge
  <2>4. BindingsAreEdges'
    BY <1>2, <2>1, <2>3 DEF BindingsAreEdges, Range
  <2>5. QED
    BY <1>2, <2>3, <2>4 DEF PlanInv, ManifestInv, SortInv, RunInv, Planning
<1>3. QED
  BY <1>1, <1>2 DEF validateManifestBindings

\* The sort begins, or has nothing to do.
LEMMA CountsKeep == ASSUME PlanInv, counts PROVE PlanInv'
<1>1. planned = "count" /\ ordered = <<>> /\ outputs = {} /\ UNCHANGED <<source, edges, outputs>>
  BY DEF counts, PlanInv, ManifestInv
<1>2. steps' = steps /\ adjacency' = adjacency /\ (BindingsAreEdges <=> BindingsAreEdges')
  BY <1>1, SourceStays
<1>3. ManifestInv /\ source.connectors \subseteq Connectors
  BY DEF PlanInv, ManifestInv
<1>4. CASE edges = <<>> /\ ordered' = base /\ planned' = "ordered"
  <2>1. adjacency = {}
    BY <1>4 DEF adjacency, Range
  <2>2. Greedy(steps, adjacency, base) /\ Len(base) = Cardinality(steps)
    BY <1>3, <2>1, BaseIs
  <2>3. steps # {} /\ IsFiniteSet(steps) /\ Cardinality(steps) \in Nat
    BY <1>3, StepsAre, FS_CardinalityType
  <2>4. 0 \in 0..(Len(base) - 1) /\ Cardinality({}) = 0
    BY <2>2, <2>3, FS_EmptySet
  <2>5. outputs' = Taken(ordered', 0 + 1)
    BY <1>1 DEF Taken
  <2>6. RunInv'
    BY <1>1, <1>4, <2>4, <2>5 DEF RunInv
  <2>7. SortInv'
    BY <1>2, <1>4, <2>2 DEF SortInv
  <2>8. QED
    BY <1>1, <1>2, <1>4, <2>6, <2>7 DEF PlanInv, ManifestInv, Planning
<1>5. CASE /\ indegree' = [t \in Index |-> IF t \in steps THEN indegreeOf(t) ELSE 0]
           /\ ready' = {t \in steps : indegree'[t] = 0} /\ planned' = "sort" /\ ordered' = <<>>
  <2>1. Range(<<>>) = {}
    BY DEF Range
  <2>2. \A t \in steps : t \in Index /\ indegree'[t] = Cardinality(Missing(t, {}))
    <3>1. steps \subseteq Index
      BY <1>3, StepsAre
    <3>2. \A t : Missing(t, {}) = {e \in adjacency : e[2] = t}
      BY DEF Missing
    <3>3. QED
      BY <1>5, <3>1, <3>2 DEF indegreeOf
  <2>3. \A t \in steps : indegree'[t] = 0 <=> Missing(t, {}) = {}
    <3>1. \A t : IsFiniteSet(Missing(t, {}))
      BY <1>3, AdjacencyIs
    <3>2. QED
      BY <2>2, <3>1, FS_EmptySet
  <2>4. ready' = Avail(steps, adjacency, {})
    BY <1>5, <2>3 DEF Avail, Missing
  <2>5. Greedy(steps, adjacency, <<>>)
    BY DEF Greedy
  <2>6. DOMAIN indegree' = Index
    BY <1>5
  <2>7. \A t : Missing(t, {})' = Missing(t, {})
    BY <1>2 DEF Missing
  <2>8. SortInv'
    BY <1>2, <1>5, <2>1, <2>2, <2>4, <2>5, <2>6, <2>7 DEF SortInv
  <2>9. QED
    BY <1>1, <1>2, <1>5, <2>8 DEF PlanInv, ManifestInv, RunInv, Planning
<1>6. QED
  BY <1>1, <1>4, <1>5 DEF counts

\* The least step that is ready is taken: what it held up has a producer less to wait for.
LEMMA TakesKeep == ASSUME PlanInv, takes PROVE PlanInv'
<1> DEFINE i == Min(ready)
           P == Range(ordered)
           freed == {t \in steps : <<i, t>> \in adjacency}
<1>1. /\ planned = "sort" /\ ready # {} /\ ordered' = Append(ordered, i)
      /\ indegree' = [t \in Index |-> IF t \in freed THEN indegree[t] - 1 ELSE indegree[t]]
      /\ ready' = (ready \ {i}) \union {t \in freed : indegree'[t] = 0}
      /\ UNCHANGED <<source, edges, planned, outputs>>
  BY DEF takes
<1>2. steps' = steps /\ adjacency' = adjacency /\ (BindingsAreEdges <=> BindingsAreEdges')
  BY <1>1, SourceStays
<1>3. ManifestInv /\ source.connectors \subseteq Connectors
  BY DEF PlanInv, ManifestInv
<1>4. /\ Greedy(steps, adjacency, ordered) /\ ready = Avail(steps, adjacency, P)
      /\ \A t \in steps \ P : indegree[t] = Cardinality(Missing(t, P))
  BY <1>1 DEF PlanInv, SortInv
<1>5. steps \subseteq Nat /\ steps \subseteq Index
  BY <1>3, StepsAre
<1>6. i \in ready /\ \A t \in ready : i <= t
  <2>1. ready \subseteq Nat
    BY <1>4, <1>5 DEF Avail
  <2>2. QED
    BY <1>1, <2>1, MinIsLeast
<1> HIDE DEF i
<1>7. Greedy(steps, adjacency, ordered') /\ Range(ordered') = P \cup {i}
  BY <1>1, <1>4, <1>6, GreedyTakes
<1>8. \A t \in steps : IsFiniteSet(Missing(t, P)) /\ IsFiniteSet(Missing(t, P \cup {i}))
  BY <1>3, AdjacencyIs
<1>9. i \in steps /\ i \notin P /\ \A e \in adjacency : e[2] = i => e[1] \in P
  BY <1>4, <1>6 DEF Avail
<1>10. \A e \in adjacency : e = <<e[1], e[2]>> /\ e[1] \in steps /\ e[2] \in steps
  BY <1>3, AdjacencyIs
<1>11. ASSUME NEW t \in steps \ (P \cup {i})
       PROVE  /\ Missing(t, P \cup {i}) = IF t \in freed THEN Missing(t, P) \ {<<i, t>>} ELSE Missing(t, P)
              /\ t \in freed => <<i, t>> \in Missing(t, P)
  <2>1. \A e \in adjacency : e[2] = t /\ e[1] = i <=> e = <<i, t>>
    BY <1>10
  <2>2. t \in freed => <<i, t>> \in Missing(t, P)
    BY <1>9 DEF Missing
  <2>3. QED
    BY <2>1, <2>2 DEF Missing
<1>12. ASSUME NEW t \in steps \ (P \cup {i}) PROVE indegree'[t] = Cardinality(Missing(t, P \cup {i}))
  <2>1. indegree[t] = Cardinality(Missing(t, P)) /\ t \in Index
    BY <1>4, <1>5
  <2>2. CASE t \in freed
    <3>1. Cardinality(Missing(t, P) \ {<<i, t>>}) = Cardinality(Missing(t, P)) - 1
      BY <1>8, <1>11, <2>2, FS_RemoveElement
    <3>2. QED
      BY <1>1, <1>11, <2>1, <2>2, <3>1
  <2>3. CASE t \notin freed
    BY <1>1, <1>11, <2>1, <2>3
  <2>4. QED
    BY <2>2, <2>3
<1>13. freed \subseteq steps \ (P \cup {i})
  <2> SUFFICES ASSUME NEW t \in freed PROVE t \notin P /\ t # i
    OBVIOUS
  <2>1. <<i, t>> \in adjacency
    OBVIOUS
  <2>2. t # i
    BY <1>9, <2>1
  <2>3. ASSUME t \in P PROVE FALSE
    <3>1. DOMAIN ordered = 1..Len(ordered) /\ Len(ordered) \in Nat
      BY <1>4, GreedyOnce
    <3>2. PICK k \in 1..Len(ordered) : ordered[k] = t
      BY <2>3, <3>1 DEF Range
    <3>3. i \in Taken(ordered, k)
      BY <1>4, <2>1, <3>2 DEF Greedy, Avail
    <3>4. QED
      BY <1>9, <3>1, <3>3 DEF Taken, Range
  <2>4. QED
    BY <2>2, <2>3
<1>14. \A t \in steps \ (P \cup {i}) : indegree'[t] = 0 <=> Missing(t, P \cup {i}) = {}
  BY <1>8, <1>12, FS_EmptySet
<1>15. ready' = Avail(steps, adjacency, P \cup {i})
  <2>1. ASSUME NEW t \in ready' PROVE t \in Avail(steps, adjacency, P \cup {i})
    <3>1. CASE t \in ready \ {i}
      BY <1>4, <3>1 DEF Avail
    <3>2. CASE t \in freed /\ indegree'[t] = 0
      BY <1>13, <1>14, <3>2 DEF Avail, Missing
    <3>3. QED
      BY <1>1, <2>1, <3>1, <3>2
  <2>2. ASSUME NEW t \in Avail(steps, adjacency, P \cup {i}) PROVE t \in ready'
    <3>1. t \in steps \ (P \cup {i}) /\ Missing(t, P \cup {i}) = {}
      BY DEF Avail, Missing
    <3>2. CASE t \in freed
      BY <1>1, <1>14, <3>1, <3>2
    <3>3. CASE t \notin freed
      <4>1. Missing(t, P) = {}
        BY <1>11, <3>1, <3>3
      <4>2. t \in ready
        BY <1>4, <3>1, <4>1 DEF Avail, Missing
      <4>3. QED
        BY <1>1, <3>1, <4>2
    <3>4. QED
      BY <3>2, <3>3
  <2>3. QED
    BY <2>1, <2>2
<1>16. DOMAIN indegree' = Index
  BY <1>1
<1> HIDE DEF P, freed
<1>17. \A t, Q : Missing(t, Q)' = Missing(t, Q)
  BY <1>2 DEF Missing
<1>18. /\ ready' = Avail(steps', adjacency', Range(ordered'))
       /\ \A t \in steps' \ Range(ordered') : indegree'[t] = Cardinality(Missing(t, Range(ordered')))
  BY <1>2, <1>7, <1>12, <1>15
<1>19. SortInv'
  <2>1. planned' = "sort"
    BY <1>1
  <2>2. \A t \in steps' \ Range(ordered') : Cardinality(Missing(t, Range(ordered))') = indegree'[t]
    <3>1. \A t : Missing(t, Range(ordered))' = Missing(t, Range(ordered'))
      BY <1>2 DEF Missing
    <3>2. QED
      BY <1>18, <3>1
  <2>3. QED
    BY <1>2, <1>7, <1>16, <1>18, <2>1, <2>2 DEF SortInv
<1>20. QED
  BY <1>1, <1>2, <1>19 DEF PlanInv, ManifestInv, RunInv, Planning

\* All were taken, or nothing is to be had any more.
LEMMA OrderKeeps == ASSUME PlanInv, orderStepsByEdges PROVE PlanInv'
<1>1. /\ planned = "sort" /\ ready = {}
      /\ planned' = IF Len(ordered) = Cardinality(steps) THEN "ordered" ELSE "cycle"
      /\ UNCHANGED <<source, edges, ordered, outputs>>
  BY DEF orderStepsByEdges
<1>2. steps' = steps /\ adjacency' = adjacency /\ (BindingsAreEdges <=> BindingsAreEdges')
  BY <1>1, SourceStays
<1>3. ManifestInv /\ source.connectors \subseteq Connectors /\ outputs = {}
  BY <1>1 DEF PlanInv, ManifestInv
<1>4. Greedy(steps, adjacency, ordered) /\ Avail(steps, adjacency, Range(ordered)) = {}
  BY <1>1 DEF PlanInv, SortInv
<1>5. SortInv'
  BY <1>1, <1>2, <1>4 DEF SortInv
<1>6. RunInv'
  <2>1. steps # {} /\ IsFiniteSet(steps) /\ Cardinality(steps) \in Nat
    BY <1>3, StepsAre, FS_CardinalityType
  <2>2. Cardinality(steps) # 0 /\ Cardinality({}) = 0
    BY <2>1, FS_EmptySet
  <2>3. Taken(ordered, 0 + 1) = {}
    BY DEF Taken
  <2>4. CASE Len(ordered) = Cardinality(steps)
    <3>1. 0 \in 0..(Len(ordered) - 1)
      BY <2>1, <2>2, <2>4
    <3>2. QED
      BY <1>1, <1>3, <2>2, <2>3, <3>1 DEF RunInv, Taken
  <2>5. CASE Len(ordered) # Cardinality(steps)
    BY <1>1, <2>5 DEF RunInv
  <2>6. QED
    BY <2>4, <2>5
<1>7. QED
  BY <1>1, <1>2, <1>3, <1>5, <1>6 DEF PlanInv, ManifestInv, Planning

\* The next step takes its values: what it is bound to was taken before it.
LEMMA ResolveKeeps == ASSUME PlanInv, resolveBoundParams PROVE PlanInv'
<1>1. planned \in {"ordered", "run"} /\ UNCHANGED <<source, edges, ordered>>
  BY DEF resolveBoundParams
<1>2. steps' = steps /\ adjacency' = adjacency /\ (BindingsAreEdges <=> BindingsAreEdges')
  BY <1>1, SourceStays
<1>3. ManifestInv /\ source.connectors \subseteq Connectors /\ BindingsAreEdges
  BY <1>1 DEF PlanInv, ManifestInv
<1>4. Greedy(steps, adjacency, ordered) /\ Len(ordered) = Cardinality(steps)
  BY <1>1 DEF PlanInv, SortInv
<1>5. PICK n \in 0..(Len(ordered) - 1) : Cardinality(outputs) = n /\ outputs = Taken(ordered, n + 1)
  BY <1>1 DEF PlanInv, RunInv
<1> DEFINE step == ordered[n + 1]
<1>6. Len(ordered) \in Nat /\ n \in Nat /\ n + 1 \in 1..Len(ordered) /\ ordered \in [1..Len(ordered) -> steps]
  BY <1>4, <1>5, GreedyOnce
<1>7. step \in steps /\ step \in Avail(steps, adjacency, outputs)
  BY <1>4, <1>5, <1>6 DEF Greedy
<1> HIDE DEF step
<1>8. boundTo(step) \subseteq outputs
  <2> SUFFICES ASSUME NEW c \in boundTo(step) PROVE c \in outputs
    OBVIOUS
  <2>1. PICK k \in DOMAIN source.bindings : source.bindings[k].feeds_node_id = step /\ c = source.bindings[k].connector_id
    BY DEF boundTo
  <2>2. c \in source.connectors /\ <<c, step>> \in Range(edges)
    BY <1>3, <2>1 DEF BindingsAreEdges
  <2>3. <<c, step>> \in adjacency
    BY <1>7, <2>2 DEF adjacency, known, steps
  <2>4. QED
    BY <1>7, <2>3 DEF Avail
<1>9. /\ outputs' = outputs \union {step}
      /\ planned' = IF n + 1 = Len(ordered) THEN "done" ELSE "run"
  BY <1>5, <1>8 DEF resolveBoundParams, step
<1>10. Cardinality(outputs') = n + 1 /\ outputs' = Taken(ordered', (n + 1) + 1)
  <2>1. outputs \subseteq steps
    BY <1>4, <1>5, <1>6, GreedyOnce
  <2>2. IsFiniteSet(outputs)
    BY <1>3, <2>1, StepsAre, FS_Subset
  <2>3. step \notin outputs
    BY <1>7 DEF Avail
  <2>4. Cardinality(outputs') = n + 1
    BY <1>5, <1>9, <2>2, <2>3, FS_AddElement
  <2>5. 1..(((n + 1) + 1) - 1) = 1..((n + 1) - 1) \cup {n + 1}
    BY <1>6
  <2>6. Taken(ordered, (n + 1) + 1) = Taken(ordered, n + 1) \cup {step}
    BY <2>5 DEF Taken, step
  <2>7. QED
    BY <1>1, <1>5, <1>9, <2>4, <2>6 DEF Taken
<1>11. RunInv'
  <2>1. planned' = "run" => n + 1 \in 0..(Len(ordered') - 1)
    <3>1. ASSUME n + 1 # Len(ordered) PROVE n + 1 \in 0..(Len(ordered) - 1)
      <4> DEFINE m == Len(ordered)
      <4>1. m \in Nat /\ n \in Nat /\ n + 1 \in 1..m /\ n + 1 # m
        BY <1>6, <3>1
      <4> HIDE DEF m
      <4>2. n + 1 \in 0..(m - 1)
        BY <4>1
      <4>3. QED
        BY <4>2 DEF m
    <3>2. planned' = "run" => n + 1 # Len(ordered)
      BY <1>9
    <3>3. ordered' = ordered
      BY <1>1
    <3>4. QED
      BY <3>1, <3>2, <3>3
  <2>2. QED
    BY <1>9, <1>10, <2>1 DEF RunInv
<1>12. SortInv'
  BY <1>1, <1>2, <1>4, <1>9 DEF SortInv
<1>13. QED
  BY <1>1, <1>2, <1>3, <1>9, <1>11, <1>12 DEF PlanInv, ManifestInv, Planning

\* What a plan that is made says of itself follows.
LEMMA PlanSays == ASSUME PlanInv PROVE PlanIsRunnable
<1>1. ManifestInv /\ source.connectors \subseteq Connectors /\ planned # "unresolved"
  BY DEF PlanInv, ManifestInv, Planning
<1>2. steps \subseteq Nat /\ IsFiniteSet(steps) /\ Cardinality(steps) \in Nat
  BY <1>1, StepsAre, FS_CardinalityType
<1>3. adjacency \subseteq steps \X steps
  BY <1>1, AdjacencyIs
<1>4. \A p \in Orders : p \in [1..Cardinality(steps) -> steps] /\ OneToOne(p)
  BY DEF Orders, OneToOne
<1>5. \A p : Respects(p) <=> Obeys(adjacency, p)
  BY DEF Respects, Obeys, adjacency, known
<1>6. ASSUME planned \in {"ordered", "run", "done"}
      PROVE  /\ ordered \in Orders /\ Respects(ordered)
             /\ \A p \in Orders : Respects(p) => Earlier(ordered, p)
  <2>1. Greedy(steps, adjacency, ordered) /\ Len(ordered) = Cardinality(steps)
    BY <1>6 DEF PlanInv, SortInv
  <2>2. ordered \in [1..Cardinality(steps) -> steps] /\ OneToOne(ordered) /\ Obeys(adjacency, ordered)
    BY <1>2, <1>3, <2>1, GreedyWhole
  <2>3. ordered \in Orders
    BY <2>2 DEF Orders, OneToOne
  <2>4. ASSUME NEW p \in Orders, Respects(p) PROVE Earlier(ordered, p)
    <3>1. p \in [1..Len(ordered) -> steps] /\ OneToOne(p) /\ Obeys(adjacency, p)
      BY <1>4, <1>5, <2>1, <2>4
    <3>2. QED
      BY <1>2, <2>1, <3>1, GreedyNearest
  <2>5. QED
    BY <1>5, <2>2, <2>3, <2>4
<1>7. ASSUME planned = "cycle", NEW p \in Orders PROVE ~Respects(p)
  <2>1. /\ Greedy(steps, adjacency, ordered) /\ Len(ordered) # Cardinality(steps)
        /\ Avail(steps, adjacency, Range(ordered)) = {}
    BY <1>7 DEF PlanInv, SortInv
  <2>2. QED
    BY <1>2, <1>4, <1>5, <2>1, GreedyStuck
<1>8. QED
  BY <1>1, <1>6, <1>7 DEF PlanIsRunnable, OrderIsNearest, ValidatedResolves

\* A plan has every step once and every producer before what it feeds, as near to the
\* manifest's own order as that can be, a cycle is reported only where there is no
\* such order, and what was validated is never without a value: for any steps,
\* bindings and edges (planSteps, orderStepsByEdges, run.mjs).
THEOREM PlansAreRunnable == PlanSpec => []PlanIsRunnable
<1>1. PlanInit => PlanInv
  BY PlanStart
<1>2. PlanInv /\ [PlanNext]_planVars => PlanInv'
  <2> SUFFICES ASSUME PlanInv, [PlanNext]_planVars PROVE PlanInv'
    OBVIOUS
  <2>1. CASE UNCHANGED planVars
    <3>1. UNCHANGED <<source, edges, planned, ordered, outputs, ready, indegree>>
      BY <2>1 DEF planVars
    <3>2. steps' = steps /\ adjacency' = adjacency /\ (BindingsAreEdges <=> BindingsAreEdges')
      BY <3>1, SourceStays
    <3>3. \A t : Missing(t, Range(ordered))' = Missing(t, Range(ordered))
      BY <3>1, <3>2 DEF Missing, Range
    <3>4. ManifestInv' /\ RunInv'
      BY <3>1, <3>2 DEF PlanInv, ManifestInv, RunInv, Taken
    <3>5. SortInv'
      BY <3>1, <3>2, <3>3 DEF PlanInv, SortInv
    <3>6. QED
      BY <3>4, <3>5 DEF PlanInv
  <2>2. QED
    BY <2>1, ValidateKeeps, CountsKeep, TakesKeep, OrderKeeps, ResolveKeeps DEF PlanNext
<1>3. PlanInv => PlanIsRunnable
  BY PlanSays
<1>4. QED
  BY <1>1, <1>2, <1>3, PTL DEF PlanSpec
=============================================================================
