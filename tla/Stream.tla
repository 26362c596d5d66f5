-------------------------------- MODULE Stream --------------------------------
(***************************************************************************)
(* A run followed live: hub/token.mjs's stream tickets, handleEvents and   *)
(* hub/event-bus.mjs in the daemon, hub/idle-timer.mjs that stops it, and  *)
(* in the browser createActivityStream of ui/app.mjs with the Run view     *)
(* that points it at a run. The browser awaits the ticket and opens the    *)
(* stream later; every answer, event and hang-up travels on its own.       *)
(***************************************************************************)
EXTENDS Naturals, Sequences, FiniteSets

CONSTANTS Run, NoRun,
          Slot,      \* names of tickets and of the streams opened with them
          NoSlot,
          MaxSse,    \* MAX_SSE_CONNECTIONS
          MaxNavs,   \* bound: times the person opens or leaves a run
          MaxMishaps  \* bound: broken connections, expired tickets, stops

ASSUME StreamAssumption == MaxSse \in Nat \ {0} /\ MaxNavs \in Nat /\ MaxMishaps \in Nat

VARIABLES helmd,      \* "up"; "exiting" or "idle", the 50 ms after a decision; "down"
          tickets,    \* streamTickets, per slot: "none", "valid", "expired"
          sseConnections,
          open,       \* the slots whose request the daemon holds open
          others,     \* streams of other clients
          sub,        \* per open slot: the run subscribed to
          last,       \* lastEventByRun: 0, 1 "running", 2 a final state
          work,       \* per run: "new", "running", "ended"
          runsInFlight,
          late,       \* history: what was begun since onIdle decided
          wire,       \* per slot: the progress events on their way
          asks,       \* connect() calls awaiting a ticket: per slot "no", "asked", "given"
          src,        \* per slot, the EventSource: "none", "opening", "open"
          aim,        \* per slot: the run_id in its URL
          es, runId, timer, shown,
          navs, mishaps, uses

daemonVars == <<helmd, tickets, sseConnections, open, others, sub, last, work, runsInFlight,
                late>>
pageVars == <<asks, src, aim, es, runId, timer, shown>>
streamVars == <<daemonVars, wire, pageVars, navs, mishaps, uses>>

StreamInit ==
    /\ helmd = "up" /\ tickets = [s \in Slot |-> "none"] /\ sseConnections = 0 /\ open = {}
    /\ others = 0 /\ sub = [s \in Slot |-> NoRun] /\ last = [r \in Run |-> 0]
    /\ work = [r \in Run |-> "new"] /\ runsInFlight = 0 /\ late = {}
    /\ wire = [s \in Slot |-> <<>>] /\ asks = [s \in Slot |-> "no"]
    /\ src = [s \in Slot |-> "none"] /\ aim = [s \in Slot |-> NoRun]
    /\ es = NoSlot /\ runId = NoRun /\ timer = TRUE /\ shown = 0
    /\ navs = 0 /\ mishaps = 0 /\ uses = [s \in Slot |-> 0]

serving == helmd # "down"
\* a slot is a new random ticket: nothing of its last use is left
Fresh == {s \in Slot : asks[s] = "no" /\ src[s] = "none" /\ s \notin open}
\* a stream or a run begun after onIdle's decision does not take it back
begins(x) == late' = IF helmd = "idle" THEN late \union {x} ELSE late
-----------------------------------------------------------------------------
(* The page.                                                               *)
\* connect(): the POST for a ticket goes out
connect(s) == s \in Fresh /\ asks' = [asks EXCEPT ![s] = "asked"]

\* scheduleReconnect's timer fires
reconnect ==
    /\ timer /\ timer' = FALSE
    /\ \E s \in Slot : connect(s)
    /\ UNCHANGED <<daemonVars, wire, src, aim, es, runId, shown, navs, mishaps, uses>>

closes(s) == IF s = NoSlot THEN src ELSE [src EXCEPT ![s] = "none"]

\* renderRun for a run, and the hashchange that leaves it
setRunId(r) ==
    /\ navs < MaxNavs /\ r # runId
    /\ navs' = navs + 1 /\ runId' = r /\ shown' = 0
    /\ src' = closes(es) /\ es' = NoSlot /\ timer' = FALSE
    /\ \E s \in Slot : connect(s)
    /\ UNCHANGED <<daemonVars, wire, aim, mishaps, uses>>

\* the ticket is here: the stream is opened for the run of this moment
ticketArrives(s) ==
    /\ asks[s] = "given"
    /\ asks' = [asks EXCEPT ![s] = "no"]
    /\ es' = s /\ src' = [src EXCEPT ![s] = "opening"] /\ aim' = [aim EXCEPT ![s] = runId]
    /\ wire' = [wire EXCEPT ![s] = <<>>]
    /\ UNCHANGED <<daemonVars, runId, timer, shown, navs, mishaps, uses>>

\* call() answers with an error: the daemon is not there
ticketRefused(s) ==
    /\ asks[s] = "asked" /\ ~serving
    /\ asks' = [asks EXCEPT ![s] = "no"] /\ timer' = TRUE
    /\ UNCHANGED <<daemonVars, wire, src, aim, es, runId, shown, navs, mishaps, uses>>

\* onerror closes the stream `es` names, whichever stream failed; one that
\* is not closed is retried by the browser with the same URL, unless the
\* daemon refused it
onerror(s, retried) ==
    /\ src' = [closes(es) EXCEPT ![s] = IF retried /\ s # es THEN "opening" ELSE "none"]
    /\ es' = NoSlot /\ timer' = TRUE
    /\ wire' = [wire EXCEPT ![s] = <<>>]
    /\ UNCHANGED <<asks, aim, runId, shown>>

\* "progress": every listener of the page is told
progress(s) ==
    /\ src[s] = "open" /\ wire[s] # <<>>
    /\ wire' = [wire EXCEPT ![s] = Tail(@)] /\ shown' = Head(wire[s])
    /\ UNCHANGED <<daemonVars, asks, src, aim, es, runId, timer, navs, mishaps, uses>>
-----------------------------------------------------------------------------
(* The daemon.                                                             *)
handleEventsTicket(s) ==
    /\ serving /\ asks[s] = "asked"
    /\ asks' = [asks EXCEPT ![s] = "given"] /\ tickets' = [tickets EXCEPT ![s] = "valid"]
    /\ uses' = [uses EXCEPT ![s] = 0]
    /\ UNCHANGED <<helmd, sseConnections, open, others, sub, last, work, runsInFlight, late, wire,
                   src, aim, es, runId, timer, shown, navs, mishaps>>

\* Mistaken form: the ticket stays until it expires
RedeemKeeps(s) == UNCHANGED tickets

\* redeemStreamTicket: gone whether or not it was still valid
redeemStreamTicket(s) == tickets' = [tickets EXCEPT ![s] = "none"]

\* Mistaken form: a late subscriber waits for the next event.
NoReplay(r) == <<>>

\* subscribeRunEvents replays the last event to a late subscriber
replayed(r) == IF r # NoRun /\ last[r] # 0 THEN <<last[r]>> ELSE <<>>

\* GET /events with the ticket; the request of a page that has closed the
\* stream since is not modelled apart: it is a stream opened and hung up
handleEvents(s) ==
    /\ serving /\ src[s] = "opening" /\ s \notin open
    /\ tickets[s] = "valid" /\ sseConnections < MaxSse
    /\ redeemStreamTicket(s)
    /\ sseConnections' = sseConnections + 1 /\ open' = open \union {s}
    /\ sub' = [sub EXCEPT ![s] = aim[s]]
    /\ wire' = [wire EXCEPT ![s] = replayed(aim[s])]
    /\ src' = [src EXCEPT ![s] = "open"] /\ uses' = [uses EXCEPT ![s] = @ + 1]
    /\ begins(s)
    /\ UNCHANGED <<helmd, others, last, work, runsInFlight, asks, aim, es, runId, timer, shown,
                   navs, mishaps>>

\* Mistaken form: counted before the cap is looked at
RefusesCounted(s) ==
    /\ serving /\ src[s] = "opening"
    /\ tickets[s] # "valid" \/ sseConnections >= MaxSse
    /\ redeemStreamTicket(s)
    /\ sseConnections' = sseConnections + (IF tickets[s] = "valid" THEN 1 ELSE 0)
    /\ onerror(s, FALSE)
    /\ UNCHANGED <<helmd, open, others, sub, last, work, runsInFlight, late, navs, mishaps, uses>>

\* 401 for a ticket that is not redeemed, 503 at the cap, which has cost
\* the ticket all the same
refuses(s) ==
    /\ serving /\ src[s] = "opening"
    /\ tickets[s] # "valid" \/ sseConnections >= MaxSse
    /\ redeemStreamTicket(s)
    /\ onerror(s, FALSE)
    /\ UNCHANGED <<helmd, sseConnections, open, others, sub, last, work, runsInFlight, late, navs, mishaps, uses>>

\* the connection is gone with the daemon that held it
lost(s) ==
    /\ src[s] = "open" /\ s \notin open
    /\ onerror(s, TRUE)
    /\ UNCHANGED <<daemonVars, navs, mishaps, uses>>

\* no daemon listens
unreachable(s) ==
    /\ ~serving /\ src[s] = "opening"
    /\ onerror(s, TRUE)
    /\ UNCHANGED <<daemonVars, navs, mishaps, uses>>

\* req "close": the page hung up
hangUp(s) ==
    /\ serving /\ s \in open /\ src[s] # "open"
    /\ open' = open \ {s} /\ sseConnections' = sseConnections - 1
    /\ sub' = [sub EXCEPT ![s] = NoRun]
    /\ UNCHANGED <<helmd, tickets, others, last, work, runsInFlight, late, wire, pageVars, navs, mishaps, uses>>

\* publishRunEvent, to every subscriber
publishes(r, e) ==
    /\ last' = [last EXCEPT ![r] = e]
    /\ wire' = [s \in Slot |-> IF s \in open /\ sub[s] = r /\ src[s] = "open"
                               THEN Append(wire[s], e) ELSE wire[s]]

\* Mistaken form: only a resumed run is counted
StartUncounted(r) ==
    /\ serving /\ work[r] = "new"
    /\ work' = [work EXCEPT ![r] = "running"]
    /\ publishes(r, 1) /\ begins(r)
    /\ UNCHANGED <<helmd, tickets, sseConnections, open, others, sub, runsInFlight, pageVars, navs, mishaps, uses>>

\* POST /run/start, or workflow.run over MCP: the first step's event may
\* come before the answer; the 50 ms before the exit are served like any other
startWorkflowRun(r) ==
    /\ serving /\ work[r] = "new"
    /\ work' = [work EXCEPT ![r] = "running"] /\ runsInFlight' = runsInFlight + 1
    /\ publishes(r, 1) /\ begins(r)
    /\ UNCHANGED <<helmd, tickets, sseConnections, open, others, sub, pageVars, navs, mishaps, uses>>

\* executeRun settles: then, or catch, then finally
runSettles(r) ==
    /\ serving /\ work[r] = "running"
    /\ work' = [work EXCEPT ![r] = "ended"] /\ runsInFlight' = runsInFlight - 1
    /\ publishes(r, 2)
    /\ UNCHANGED <<helmd, tickets, sseConnections, open, others, sub, late, pageVars, navs, mishaps, uses>>

\* another tab's stream, counted by the same counter
otherOpens ==
    /\ serving /\ sseConnections < MaxSse /\ others = 0 /\ mishaps < MaxMishaps
    /\ mishaps' = mishaps + 1
    /\ others' = others + 1 /\ sseConnections' = sseConnections + 1 /\ begins(NoSlot)
    /\ UNCHANGED <<helmd, tickets, open, sub, last, work, runsInFlight, wire, pageVars, navs, uses>>

otherCloses ==
    /\ serving /\ others > 0
    /\ others' = others - 1 /\ sseConnections' = sseConnections - 1
    /\ UNCHANGED <<helmd, tickets, open, sub, last, work, runsInFlight, late, wire, pageVars, navs, mishaps, uses>>
-----------------------------------------------------------------------------
(* Time, stops and faults.                                                 *)
isSuppressed == sseConnections > 0 \/ runsInFlight > 0

\* the check of createIdleTimer: idleTimeoutMs may pass between any two
\* steps; the exit itself comes 50 ms later
onIdle ==
    /\ helmd = "up" /\ ~isSuppressed /\ mishaps < MaxMishaps
    /\ helmd' = "idle" /\ mishaps' = mishaps + 1
    /\ UNCHANGED <<tickets, sseConnections, open, others, sub, last, work, runsInFlight, late,
                   wire, pageVars, navs, uses>>

\* POST /shutdown, `helmd stop`: the answer first, the exit 50 ms later
handleShutdown ==
    /\ helmd = "up" /\ mishaps < MaxMishaps
    /\ helmd' = "exiting" /\ mishaps' = mishaps + 1
    /\ UNCHANGED <<tickets, sseConnections, open, others, sub, last, work, runsInFlight, late,
                   wire, pageVars, navs, uses>>

exits ==
    /\ helmd \in {"exiting", "idle"} /\ helmd' = "down"
    /\ tickets' = [s \in Slot |-> "none"] /\ sseConnections' = 0 /\ open' = {} /\ others' = 0
    /\ late' = {}
    /\ sub' = [s \in Slot |-> NoRun] /\ last' = [r \in Run |-> 0] /\ runsInFlight' = 0
    /\ work' = [r \in Run |-> IF work[r] = "running" THEN "ended" ELSE work[r]]
    /\ asks' = [s \in Slot |-> IF asks[s] = "given" THEN "asked" ELSE asks[s]]
    /\ UNCHANGED <<wire, src, aim, es, runId, timer, shown, navs, mishaps, uses>>

\* helmd is started again
starts_again ==
    /\ helmd = "down" /\ helmd' = "up"
    /\ UNCHANGED <<tickets, sseConnections, open, others, sub, last, work, runsInFlight, late,
                   wire, pageVars, navs, mishaps, uses>>

\* a ticket's fifteen seconds pass before the stream is opened
expires(s) ==
    /\ tickets[s] = "valid" /\ mishaps < MaxMishaps
    /\ tickets' = [tickets EXCEPT ![s] = "expired"] /\ mishaps' = mishaps + 1
    /\ UNCHANGED <<helmd, sseConnections, open, others, sub, last, work, runsInFlight, late,
                   wire, pageVars, navs, uses>>

\* an open stream breaks (sleep, a proxy)
breaks(s) ==
    /\ src[s] = "open" /\ serving /\ mishaps < MaxMishaps
    /\ mishaps' = mishaps + 1 /\ onerror(s, TRUE)
    /\ UNCHANGED <<daemonVars, navs, uses>>
-----------------------------------------------------------------------------
PageNext == \/ reconnect
            \/ \E r \in Run \union {NoRun} : setRunId(r)
            \/ \E s \in Slot : ticketArrives(s) \/ ticketRefused(s) \/ progress(s)

HelmdNext == \/ \E s \in Slot : handleEventsTicket(s) \/ handleEvents(s) \/ refuses(s)
                                \/ lost(s) \/ unreachable(s) \/ hangUp(s)
             \/ \E r \in Run : startWorkflowRun(r) \/ runSettles(r)
             \/ otherOpens \/ otherCloses

StreamNext == \/ PageNext \/ HelmdNext
              \/ onIdle \/ handleShutdown \/ exits \/ starts_again
              \/ \E s \in Slot : expires(s) \/ breaks(s)

StreamSpec == StreamInit /\ [][StreamNext]_streamVars
-----------------------------------------------------------------------------
\* The counter that admits streams and holds the daemon up is the number of
\* streams there are, whatever breaks, is refused or is hung up
\* (handleEvents, server.mjs).
CountsOpenStreams ==
    /\ sseConnections = Cardinality(open) + others
    /\ sseConnections <= MaxSse

\* A ticket opens one stream: the browser's own retry of a stream the page
\* no longer knows of is refused (redeemStreamTicket, token.mjs).
TicketOpensOnce == \A s \in Slot : uses[s] <= 1

\* The cap counts the streams that are open and a ticket opens one of them, also
\* when a connection breaks while it is being opened.
StreamsAreCounted == CountsOpenStreams /\ TicketOpensOnce

\* what an exit cuts off: the streams held open, the runs being executed
Held == open \union {r \in Run : work[r] = "running"} \union {s \in {NoSlot} : others > 0}

\* An exit of the idle timer cuts off only what was begun in the 50 ms after
\* its decision: no stream and no run of before, however many were opened,
\* refused, hung up and settled until then (isSuppressed and onIdle, index.mjs).
IdleCutsOnlyTheLate == [][helmd = "idle" /\ helmd' = "down" => Held \subseteq late]_streamVars

\* A run that has ended is shown as ended to the person who watches it, also
\* when the stream was opened after the fact, broke, was refused for a used
\* ticket or at the cap; unless the daemon stops, or the person leaves
\* (connect, app.mjs; subscribeRunEvents, event-bus.mjs).
ShowsTheEnd ==
    \A r \in Run : (runId = r /\ last[r] = 2 /\ helmd = "up") ~> (shown = 2 \/ runId # r \/ helmd # "up")
-----------------------------------------------------------------------------
(* What comments of the code say and the code does not do: see the README. *)
\* The page holds one stream (setRunId, app.mjs).
OneConnection == Cardinality({s \in Slot : src[s] # "none"}) <= 1

\* An open stream and a run being executed hold the daemon open (isSuppressed, index.mjs).
IdleCutsNothing == [][helmd = "idle" /\ helmd' = "down" => Held = {}]_streamVars
===============================================================================
