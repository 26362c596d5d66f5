--------------------------------- MODULE Gate ---------------------------------
(***************************************************************************)
(* Who may make the daemon do what: createHelmServer's gate (hub/          *)
(* server.mjs), the pairing nonces and consent tickets of hub/token.mjs,   *)
(* the routes that mint and redeem them, the runs that /run/start,         *)
(* /run/resume and the MCP tools of hub/mcp.mjs start, and a browser tab's *)
(* pairing (boot in ui/app.mjs). A ticket is a random name that is used    *)
(* once; callers keep every name they were ever given and may present it   *)
(* again, late, at another route or to a later process.                    *)
(***************************************************************************)
EXTENDS Naturals, FiniteSets

CONSTANTS Ticket,      \* bound: names of nonces and tickets minted
          Credential,  \* bearer tokens that loadOrCreateToken may draw
          Unset,
          MaxStops     \* bound: exits of the daemon, and state directories lost

ASSUME GateAssumption == MaxStops \in Nat /\ Unset \notin Credential /\ Unset # "ui"

VARIABLES gateUp,     \* the process listens
          tokenFile,  \* ~/.helm/token
          minted,     \* per name: its map ("pair", "export", "signer") and "fresh", "late" or "gone"
          honoured,   \* history: per name, the requests granted for it
          links,      \* pairing URLs handed out: [bearer, nonce]
          tabToken,   \* sessionStorage of the tab
          redeeming,  \* the nonce of the tab's /pair/redeem under way
          signerFile, \* signer-config.json: 0 absent, else the config's number
          job,        \* a run: what holds it, its state, whether it has a dispatcher, whether it
                      \* sent, and (history) whether a REST call started it or took it up
          stops

gateVars == <<gateUp, tokenFile, minted, honoured, links, tabToken, redeeming, signerFile, job, stops>>

Kinds == {"pair", "export", "signer"}
NoJob == [dry |-> FALSE, hold |-> "none", state |-> "none", dispatcher |-> FALSE,
          sent |-> FALSE, rest |-> FALSE]

GateInit ==
    /\ gateUp = FALSE /\ tokenFile = Unset
    /\ minted = [t \in Ticket |-> [kind |-> Unset, life |-> "none"]]
    /\ honoured = [t \in Ticket |-> {}] /\ links = {}
    /\ tabToken = Unset /\ redeeming = Unset
    /\ signerFile = 0 /\ job = NoJob /\ stops = 0
-----------------------------------------------------------------------------
(* The gate. A request carries whether its Host names the daemon, its      *)
(* Origin, whether Sec-Fetch-Site says same-origin, its method, its path   *)
(* and its bearer.                                                         *)
tokenMatches(presented) == presented # Unset /\ presented = tokenFile

isSameOriginFallback(q) == q.origin = "absent" /\ q.site = "same-origin"

checkOrigin(q) ==
    \/ q.origin = "own"
    \/ isSameOriginFallback(q)
    \/ q.origin = "absent" /\ q.method = "POST" /\ q.path = "/mcp"

\* served before the gate: the shell, the detection surface and the webhook,
\* which has its own credential; none of them reaches a route's handler
Ungated == {"/", "/version", "/pair/challenge", "/connectors/inbound-webhook"}

\* the request reaches a handler, and the idle countdown starts anew
admitted(q) ==
    /\ gateUp /\ q.host /\ q.path \notin Ungated
    /\ checkOrigin(q) /\ q.method # "OPTIONS"
    /\ tokenMatches(q.bearer)

\* what browsers send for a page of the daemon's own origin: no Origin on a GET
fromPage(method, path, bearer) ==
    [host |-> TRUE, origin |-> IF method = "GET" THEN "absent" ELSE "own",
     site |-> "same-origin", method |-> method, path |-> path, bearer |-> bearer]

\* an MCP client is no browser: it has the bearer and no Origin
fromAgent(path) ==
    [host |-> TRUE, origin |-> "absent", site |-> "none", method |-> "POST", path |-> path,
     bearer |-> tokenFile]

fromUi(path) == admitted(fromPage("POST", path, tabToken))
-----------------------------------------------------------------------------
(* Nonces and tickets.                                                     *)
issues(t, kind) ==
    /\ minted[t].life = "none"
    /\ minted' = [minted EXCEPT ![t] = [kind |-> kind, life |-> "fresh"]]

valid(t, kind) == minted[t] = [kind |-> kind, life |-> "fresh"]

\* Mistaken form: a ticket that was still valid is left for its time to end.
RedeemOnlyLate(t, kind) ==
    minted' = [minted EXCEPT ![t].life = IF minted[t].kind = kind /\ @ = "late" THEN "gone" ELSE @]

\* deleted whether or not it was still valid; another map does not know it
redeem(t, kind) ==
    minted' = [minted EXCEPT ![t].life = IF minted[t].kind = kind THEN "gone" ELSE @]

honours(t, what) == honoured' = [honoured EXCEPT ![t] = @ \union {<<what, Cardinality(@)>>}]

\* the TTL of a name ends
Expire(t) ==
    /\ minted[t].life = "fresh"
    /\ minted' = [minted EXCEPT ![t].life = "late"]
    /\ UNCHANGED <<gateUp, tokenFile, honoured, links, tabToken, redeeming, signerFile, job, stops>>

isPairingWindowOpen == \E t \in Ticket : valid(t, "pair")

pairingUrl(t) == [bearer |-> tokenFile, nonce |-> t]

\* POST /pair/relink from a paired tab, `helmd open` over the CLI channel
handsOutLink(t) ==
    /\ gateUp /\ issues(t, "pair") /\ links' = links \union {pairingUrl(t)}
    /\ UNCHANGED <<gateUp, tokenFile, honoured, tabToken, redeeming, signerFile, job, stops>>

handlePairRelink(t) == fromUi("/pair/relink") /\ handsOutLink(t)
cmdOpen(t) == handsOutLink(t)

\* POST /evidence/export/ticket and POST /signer/config/ticket
mintsTicket(t, kind) ==
    /\ fromUi(IF kind = "export" THEN "/evidence/export/ticket" ELSE "/signer/config/ticket")
    /\ issues(t, kind)
    /\ UNCHANGED <<gateUp, tokenFile, honoured, links, tabToken, redeeming, signerFile, job, stops>>
-----------------------------------------------------------------------------
(* The tab.                                                                *)
\* boot() with a link in the address bar: the token is kept, the nonce goes
\* out without anyone waiting for the answer
bootTab(l) ==
    /\ l \in links
    /\ tabToken' = l.bearer /\ redeeming' = l.nonce
    /\ UNCHANGED <<gateUp, tokenFile, minted, honoured, links, signerFile, job, stops>>

\* the Unpair button: clearToken and clearFp
unpair ==
    /\ tabToken # Unset /\ tabToken' = Unset
    /\ UNCHANGED <<gateUp, tokenFile, minted, honoured, links, redeeming, signerFile, job, stops>>

\* POST /pair/redeem: 401 for a link used or expired changes nothing else
handlePairRedeem ==
    /\ redeeming # Unset /\ fromUi("/pair/redeem")
    /\ redeem(redeeming, "pair")
    /\ IF valid(redeeming, "pair") THEN honours(redeeming, "pair") ELSE UNCHANGED honoured
    /\ redeeming' = Unset
    /\ UNCHANGED <<gateUp, tokenFile, links, tabToken, signerFile, job, stops>>

\* the call fails: nobody listens, or the bearer is of another install
redeemFails ==
    /\ redeeming # Unset /\ ~fromUi("/pair/redeem")
    /\ redeeming' = Unset
    /\ UNCHANGED <<gateUp, tokenFile, minted, honoured, links, tabToken, signerFile, job, stops>>
-----------------------------------------------------------------------------
(* What tickets are for.                                                   *)
\* the MCP tool evidence.export: the ticket goes before the arguments are
\* looked at, so a call for a run that is not there has cost it
evidenceExport(t) ==
    /\ admitted(fromAgent("/mcp")) /\ minted[t].life # "none"
    /\ redeem(t, "export")
    /\ IF valid(t, "export") /\ job.state # "none" THEN honours(t, "export")
                                                   ELSE UNCHANGED honoured
    /\ UNCHANGED <<gateUp, tokenFile, links, tabToken, redeeming, signerFile, job, stops>>

\* POST /signer/config: 403 without a ticket, 400 for a config that
\* validateSignerConfig refuses, after the ticket is spent
handleSignerConfigUpdate(t, config) ==
    /\ fromUi("/signer/config") /\ minted[t].life # "none"
    /\ redeem(t, "signer")
    /\ IF valid(t, "signer") /\ config # 0
         THEN honours(t, "signer") /\ signerFile' = config
         ELSE UNCHANGED <<honoured, signerFile>>
    /\ UNCHANGED <<gateUp, tokenFile, links, tabToken, redeeming, job, stops>>
-----------------------------------------------------------------------------
(* Runs. A run is of a pack with an action that leaves the machine behind  *)
(* a gate that may hold; RunEngine has the engine itself.                  *)
launches(callerOrigin, rest, dry, hold) ==
    /\ job = NoJob
    /\ job' = [dry |-> dry, hold |-> hold, state |-> "running",
               dispatcher |-> callerOrigin = "ui", sent |-> FALSE, rest |-> rest]
    /\ UNCHANGED <<gateUp, tokenFile, minted, honoured, links, tabToken, redeeming, signerFile, stops>>

\* POST /run/start
handleRunStart(dry, hold) == fromUi("/run/start") /\ launches("ui", TRUE, dry, hold)

\* Mistaken form: the tool passes the callerOrigin the REST route passes.
CallAsUi(dry, hold) == admitted(fromAgent("/mcp")) /\ launches("ui", FALSE, dry, hold)

\* the MCP tools workflow.run and workflow.dry_run: callerOrigin is undefined
callTool(dry, hold) == admitted(fromAgent("/mcp")) /\ launches(Unset, FALSE, dry, hold)

\* the steps run: a gate that holds comes first; without a dispatcher the
\* action fails the run, in a dry run too (canDispatch), and a dry run
\* sends nothing
executes(j) ==
    IF j.hold # "none" THEN [j EXCEPT !.state = "awaiting_data"]
    ELSE IF ~j.dispatcher THEN [j EXCEPT !.state = "failed"]
    ELSE [j EXCEPT !.state = "completed", !.sent = ~j.dry]

runsOn ==
    /\ gateUp /\ job.state = "running" /\ job' = executes(job)
    /\ UNCHANGED <<gateUp, tokenFile, minted, honoured, links, tabToken, redeeming, signerFile, stops>>

\* the approval is recorded (HaGate)
approve ==
    /\ job.hold = "approval" /\ job' = [job EXCEPT !.hold = "none"]
    /\ UNCHANGED <<gateUp, tokenFile, minted, honoured, links, tabToken, redeeming, signerFile, stops>>

\* POST /run/resume: 409 unless the run is held; the dispatcher is there
\* whoever started the run, and data that is missing no longer holds it: the
\* node's kernel is run without it and throws
handleRunResume ==
    /\ fromUi("/run/resume") /\ job.state = "awaiting_data"
    /\ job' = IF job.hold = "data"
                THEN [job EXCEPT !.state = "failed", !.dispatcher = TRUE, !.rest = TRUE]
                ELSE executes([job EXCEPT !.dispatcher = TRUE, !.rest = TRUE])
    /\ UNCHANGED <<gateUp, tokenFile, minted, honoured, links, tabToken, redeeming, signerFile, stops>>
-----------------------------------------------------------------------------
(* The process.                                                            *)
\* cmdStart: the token is made once; one more link is minted
cmdStart(t, k) ==
    /\ ~gateUp /\ gateUp' = TRUE
    /\ tokenFile' = IF tokenFile = Unset THEN k ELSE tokenFile
    /\ issues(t, "pair") /\ links' = links \union {[bearer |-> tokenFile', nonce |-> t]}
    /\ UNCHANGED <<honoured, tabToken, redeeming, signerFile, job, stops>>

leaves ==
    /\ stops < MaxStops /\ gateUp /\ gateUp' = FALSE /\ stops' = stops + 1
    /\ minted' = [t \in Ticket |-> IF minted[t].life = "none" THEN minted[t]
                                   ELSE [minted[t] EXCEPT !.life = "gone"]]
    /\ UNCHANGED <<tokenFile, honoured, links, tabToken, redeeming, signerFile, job>>

\* onIdle, unless a link may still be opened or a run is under way
idleExit == ~isPairingWindowOpen /\ job.state # "running" /\ leaves
\* POST /shutdown, `helmd stop`, a crash
stopped == leaves

\* the person removes ~/.helm, and with it the token
wipe ==
    /\ stops < MaxStops /\ ~gateUp /\ tokenFile # Unset
    /\ tokenFile' = Unset /\ signerFile' = 0 /\ job' = NoJob /\ stops' = stops + 1
    /\ UNCHANGED <<gateUp, minted, honoured, links, tabToken, redeeming>>

GateNext ==
    \/ \E t \in Ticket :
          \/ Expire(t) \/ handlePairRelink(t) \/ cmdOpen(t) \/ evidenceExport(t)
          \/ \E kind \in {"export", "signer"} : mintsTicket(t, kind)
          \/ \E config \in 0..1 : handleSignerConfigUpdate(t, config)
          \/ \E k \in Credential : cmdStart(t, k)
    \/ \E l \in links : bootTab(l)
    \/ unpair \/ handlePairRedeem \/ redeemFails
    \/ \E dry \in BOOLEAN, hold \in {"none", "approval", "data"} :
          handleRunStart(dry, hold) \/ callTool(dry, hold)
    \/ runsOn \/ approve \/ handleRunResume
    \/ idleExit \/ stopped \/ wipe

GateSpec == GateInit /\ [][GateNext]_gateVars
-----------------------------------------------------------------------------
\* A consent is spent once: whatever order names are presented in, late, again,
\* at the wrong route or to a later process, a nonce or ticket is honoured at
\* most once, for what it was minted for, and is gone from then on (the
\* redeem functions of hub/token.mjs; a job that is wiped takes no ticket back).
ConsentSpentOnce ==
    \A t \in Ticket :
        /\ Cardinality(honoured[t]) <= 1
        /\ \A g \in honoured[t] : g[1] = minted[t].kind /\ minted[t].life = "gone"

\* Nothing leaves the machine for a run an agent started until a person's
\* REST call took it up again, and never in a dry run (callTool passes no
\* callerOrigin; handleRunResume gives every run a dispatcher).
AgentSendsNothing ==
    job.sent => ~job.dry /\ job.rest
=============================================================================
