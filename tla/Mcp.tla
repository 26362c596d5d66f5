--------------------------------- MODULE Mcp ----------------------------------
(***************************************************************************)
(* The MCP endpoint, hub/mcp.mjs: a client of the 2026-07-28 protocol      *)
(* ("new") or of 2025-06-18 ("old") negotiates, calls tools and polls the  *)
(* task a run is, while the run goes on. The endpoint keeps no session:    *)
(* everything it knows of a client is in the request. Each request is also *)
(* sent as a client that asserts nothing would send it, to compare.        *)
(* Values of headers and bodies are names of how they relate.              *)
(***************************************************************************)
EXTENDS Integers

CONSTANT NotGiven

ASSUME McpAssumption ==
    NotGiven \notin {"new", "old", "other", "garbled", "differs", "workflow.run", "queued", "running",
                    "awaiting_data", "completed", "failed", "cancelled"}

Supported == {"new", "old"}
Versions == Supported \union {"other", NotGiven}
Tools == {"workflow.run", "catalog.search", "artifact.verify", "no.such", NotGiven}
Methods == {"initialize", "server/discover", "tools/list", "tools/call", "tasks/get", "no/such"}

VARIABLES asked,    \* the request a client is making, with what it was answered
          plain,    \* the answer to the same request without versions and headers
          task,     \* the state of the run workflow.run started
          polled    \* the last status tasks/get reported of it

mcpVars == <<asked, plain, task, polled>>

Nothing == [code |-> NotGiven]
McpInit == asked = Nothing /\ plain = Nothing /\ task = NotGiven /\ polled = NotGiven

\* Requests: what the HTTP headers and the body hold. A header agrees with the
\* body, differs from it, or cannot be decoded; only tools/call has a name,
\* only initialize the version of the old handshake.
RequestsFor(methods, tools, nameHeaders, handshakes) ==
    [body : {"ok"}, header : Versions \union {"garbled"}, meta : Versions,
     caps : {NotGiven, "none", "tasks"}, methodHeader : {NotGiven, "agrees", "differs"},
     method : methods, tool : tools, nameHeader : nameHeaders, handshake : handshakes]

Requests ==
    RequestsFor(Methods \ {"initialize", "tools/call"}, {NotGiven}, {NotGiven}, {NotGiven})
    \union RequestsFor({"initialize"}, {NotGiven}, {NotGiven}, Versions)
    \union RequestsFor({"tools/call"}, Tools, {NotGiven, "agrees", "differs"}, {NotGiven})
    \union [body : {"unparsable", "null", "notJsonRpc"}, header : {NotGiven}, meta : {NotGiven},
            caps : {NotGiven}, methodHeader : {NotGiven}, method : {"tools/list"}, tool : {NotGiven},
            nameHeader : {NotGiven}, handshake : {NotGiven}]

asLegacy(q) == [q EXCEPT !.header = NotGiven, !.meta = NotGiven, !.methodHeader = NotGiven,
                         !.nameHeader = NotGiven]
-----------------------------------------------------------------------------
(* handleMcp up to dispatch.                                               *)
assertedProtocolVersion(q) == IF q.header # NotGiven THEN q.header ELSE q.meta

negotiatedVersion(q) ==
    CASE assertedProtocolVersion(q) # NotGiven -> assertedProtocolVersion(q)
      [] assertedProtocolVersion(q) = NotGiven /\ q.handshake \in Supported -> q.handshake
      [] assertedProtocolVersion(q) = NotGiven /\ q.handshake = "other" -> "old"
      [] OTHER -> "new"

\* Mistaken form: the version the server would choose decides.
ModernByDefault(q) == q.method # "initialize" /\ negotiatedVersion(q) = "new"

\* only a client that says so is held to the new rules
modernEra(q) == q.method # "initialize" /\ assertedProtocolVersion(q) = "new"

headerBad(h, modern) == IF h = NotGiven THEN modern ELSE h = "differs"

refusal(q) ==
    CASE q.body = "unparsable" -> -32700
      [] q.body = "null" -> 500                       \* body.jsonrpc throws
      [] q.body = "notJsonRpc" -> -32600
      [] q.body = "ok" /\ (q.header = "garbled" \/ assertedProtocolVersion(q) = "other") -> -32022
      [] OTHER ->
           CASE headerBad(q.methodHeader, modernEra(q)) -> -32020
             [] q.method = "tools/call" /\ headerBad(q.nameHeader, modernEra(q)) -> -32020
             [] modernEra(q) /\ (q.meta = NotGiven \/ q.caps = NotGiven) -> -32602
             [] modernEra(q) /\ q.meta # NotGiven /\ q.caps # NotGiven /\ q.meta # q.header -> -32020
             [] OTHER -> 0
-----------------------------------------------------------------------------
(* dispatch.                                                               *)
declaresTasks(q) == q.caps = "tasks"

\* Mistaken form: a run that waits for a person counts as done.
StatusWhenStopped(state) ==
    CASE state \in {"completed", "awaiting_data"} -> "completed"
      [] state \in {"failed", "cancelled"} -> "failed"
      [] OTHER -> "working"

taskStatusFor(state) ==
    CASE state = "completed" -> "completed"
      [] state \in {"failed", "cancelled"} -> "failed"
      [] state = "awaiting_data" -> "input_required"
      [] OTHER -> "working"

\* callTool: what a result or an error says; artifact.verify of a run that has
\* not completed answers, with valid false
toolAnswer(q) ==
    CASE q.tool = NotGiven -> -32602
      [] q.tool = "workflow.run" /\ ~declaresTasks(q) -> -32021
      [] q.tool = "no.such" -> -32602
      [] q.tool = "artifact.verify" /\ task = NotGiven -> -32602
      [] OTHER -> 0

dispatch(q) ==
    CASE q.method = "initialize" -> [code |-> 0, says |-> negotiatedVersion(q)]
      [] q.method = "tools/call" -> [code |-> toolAnswer(q), says |-> NotGiven]
      [] q.method = "tasks/get" /\ ~declaresTasks(q) -> [code |-> -32021, says |-> NotGiven]
      [] q.method = "tasks/get" /\ declaresTasks(q) /\ task = NotGiven -> [code |-> -32602, says |-> NotGiven]
      [] q.method = "tasks/get" /\ declaresTasks(q) /\ task # NotGiven ->
            [code |-> 0, says |-> taskStatusFor(task)]
      [] q.method = "no/such" -> [code |-> -32601, says |-> NotGiven]
      [] OTHER -> [code |-> 0, says |-> NotGiven]

handleMcp(q) == IF refusal(q) # 0 THEN [code |-> refusal(q), says |-> NotGiven] ELSE dispatch(q)

\* a request: what it does is done when it is answered
sends ==
    /\ asked = Nothing
    /\ \E q \in Requests :
         LET a == handleMcp(q) IN
         /\ asked' = [request |-> q, code |-> a.code, says |-> a.says, task |-> task]
         /\ task' = IF a.code = 0 /\ q.tool = "workflow.run" /\ task = NotGiven THEN "queued" ELSE task
         /\ polled' = IF a.code = 0 /\ q.method = "tasks/get" THEN a.says ELSE polled
    /\ UNCHANGED plain

\* the same request of a client that asserts nothing
sendsPlain ==
    /\ asked # Nothing /\ plain = Nothing
    /\ plain' = handleMcp(asLegacy(asked.request))
    /\ UNCHANGED <<asked, task, polled>>

done ==
    /\ plain # Nothing /\ asked' = Nothing /\ plain' = Nothing
    /\ UNCHANGED <<task, polled>>

\* the run, as RunEngine lets it go
runGoesOn ==
    /\ asked = Nothing
    /\ \/ task = "queued" /\ task' = "running"
       \/ task = "running" /\ task' \in {"completed", "failed", "awaiting_data"}
       \/ task = "awaiting_data" /\ task' \in {"running", "cancelled"}
    /\ UNCHANGED <<asked, plain, polled>>

McpNext == sends \/ sendsPlain \/ done \/ runGoesOn

McpSpec == McpInit /\ [][McpNext]_mcpVars
-----------------------------------------------------------------------------
\* The dual-era window: whatever a request that asserts a version gets done, the
\* same request of a client that asserts nothing gets done too ("an unversioned
\* legacy client must stay legacy, not get judged modern and rejected",
\* mcp.mjs handleMcp), and the handshake ends at a version the server has.
LegacyNoStricter ==
    /\ asked # Nothing /\ plain # Nothing /\ asked.code = 0 => plain.code = 0
    /\ asked # Nothing /\ asked.code = 0 /\ asked.request.method = "initialize" =>
          asked.says \in Supported

\* A task a client has polled as ended is a run that has ended, for good and in
\* that way (taskStatusFor): the client stops polling and shows the result.
PolledEndIsTheEnd ==
    polled \in {"completed", "failed"} => /\ task \in {"completed", "failed", "cancelled"}
                                          /\ polled = "completed" <=> task = "completed"

\* A client gets one answer, whichever era it speaks and whenever it asks.
ErasAgree == LegacyNoStricter /\ PolledEndIsTheEnd
=============================================================================
