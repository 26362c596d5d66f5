# Helm: TLA+ models, model checking and proofs

Helm (`helmd`) is a local daemon that runs compliance workflows, records every
step in a hash-chained journal, holds steps that need a person's approval, and
exports evidence. It is one Node.js process with one SQLite database and a
handful of JSON files, a browser application with a journal and a vault of its
own, an endpoint for agents, and the scripts that build it. There is one thread,
but handlers `await`, processes die at any statement, callers retry, tabs overlap,
files travel damaged, and clocks pass; that is what these modules are about.

`PROJECT.json` maps every definition to the lines it models and lists the
components, runs, mistaken variants, findings, hazards and theorems.

## 1. Inventory

| part | state | operations | what is hard | what makes it correct | module |
|---|---|---|---|---|---|
| `hub/journal.mjs` | tables `journal`, `stream_state` | append, replay | four statements per append, several streams on one sequence | it replays; nothing is ever rewritten | `Journal` |
| `hub/index.mjs`, `checkpoint.mjs`, `recovery.mjs` | table `checkpoints`, the state directory | start, full or fast verification, quarantine, save of a checkpoint | appends during the wait for a timestamp; a crash anywhere | no row whose hash no longer fits is served, unless a checkpoint vouches for it; what is set aside has a cause | `Boot` |
| `hub/anchor-client.mjs`, `anchor-queue.mjs` | `anchor-queue.json` | ask the relay, queue, pass over the queue | a pass of minutes that dies with the process | a queued checkpoint is kept; the relay's limit is kept; the pass ends | `AnchorQueue` |
| `hub/keys.mjs`, `ha-identity.mjs`, `vault.mjs`, `state-snapshot.mjs` | `vault.key`, keychain, two encrypted blobs, chain of snapshots | load, migrate the passphrase, seal, sign heads | many writes per load, keychains that lock or lie, other processes | whatever is sealed can be opened again; a migration ends | `Identity` |
| `hub/run.mjs`: `planSteps`, bindings | none | validate, order, resolve | ties, cycles, nodes in several layers | the order is the nearest one that runs; what validates resolves | `Plan` |
| `hub/run.mjs`, `run-actions.mjs`, `kernel-runner.mjs` | tables `runs`, `step_results`; one stream per run | `executeRun` from five callers, resume, dry run | interleaved calls around step runners; crash between journal, table and memo | one executor per run; results replay; gates hold | `RunEngine` |
| `hub/ha-gate.mjs`, `ha-store.mjs` | tables `ha_records`, `ha_countersignature_slots` | records, signatures, replay, artifact binding, pin | orders of signatures; an await between two commits; lapsing overrides | the maker never checks; the daemon never approves; a rejection is final | `HaGate` |
| `hub/webhook-guard.mjs`, inbound webhook | nonces and cached answers in memory | accept, refuse, answer from cache, resume | duplicates, late deliveries, retries that overlap | a request is accepted once; a key resumes its run once | `InboundWebhook` |
| `hub/watch-scheduler.mjs`, `uptime-record.mjs`, `receipt.mjs` | `watches.json`, `watch_runs`, timers | create, revoke, poll, fire, receipt | overlapping ticks, sleep, crash in a run, tolerance at the edges | ticks of one watch are one cadence apart; a reported miss is a miss; a due watch fires | `Watch` |
| `hub/matter-store.mjs`, `/matters` | tables of matters, exports | open, bind, deadline, close, export | the closing row and its export are two commits | references resolve; an export is of the last closing and misses nothing | `Matters` |
| `hub/key-lifecycle.mjs`, `ui/lib/verify-key-lineage.mjs` | envelopes of key events | inception, rotation, append, verify | exports in any order, doubled, damaged, incomplete; rival rotations | one history, and the verdict says which | `Lineage` |
| `hub/bundle.mjs`, `h2h-envelope.mjs`, `check.mjs`, `ui/lib/verify-bundle.mjs`, `ui/lib/migration.mjs` | none | seal, assemble, verify, exchange, migrate | parts lost, exchanged or damaged on the way; two verifiers | what is accepted was sealed so; the offline verifier is no laxer | `Evidence` |
| `hub/token.mjs`, the gate of `hub/server.mjs`, `/run/start`, `/run/resume` | nonces, tickets, bearer | mint, redeem, expire, admit, start, resume | names presented twice, late, elsewhere, or to a later process | consent is spent once; an agent's run sends nothing | `Gate` |
| `/events`, `hub/event-bus.mjs`, `idle-timer.mjs`, `createActivityStream` | subscribers, counters, tickets in the tab | open, reconnect, refuse, idle exit | every answer and hang-up travels on its own | streams are counted; the end is shown; an idle exit cuts off only what began after its decision | `Stream` |
| `hub/oauth-pkce.mjs`, `migration-import.mjs`, `vault.mjs` | flows, `connections.json`, vault tiers, markers | connect, revoke, import | list read before an await and written after it; dying between two writes | revoked is unusable; a marker has its material; a flow settles | `OAuth` |
| `hub/connector.mjs`, `connectors/` | pins of addresses, transcript rows | vet, pin, connect, redirect, send | calls that share the pins of a host; failure half-way | what is reached was vetted; an answer has its transcript | `Egress` |
| `ui/views/connect.mjs`, `ui/lib/vault.mjs` | vault record, token store, pending flows | connect, enrol, unlock, store | a prompt and a key derivation between read and write; connections overlap in one tab | a stored token opens, unless two enrolments overlapped | `BrowserVault` |
| `ui/lib/browser-journal*.mjs`, `journal-worker.mjs` | a file of frames, a Web Lock | elect, open, append, recover, hide, show | torn writes, several tabs, pages that come back, appends before the file was read | what was acknowledged is recovered, unless a worker wrote before it had read | `TabJournal` |
| `ui/api.mjs`, `ui/app.mjs`, `ui/lib/blocked-state.mjs` | cache, token of a tab, view, light | call, render, pair, unpair, probe | calls that overtake each other, bodies that break off, a cache tabs share | the page invents nothing | `Shell` |
| `hub/mcp.mjs` | none: everything is in the request | negotiate, call, poll | two eras of the protocol, each with its own statuses | the eras agree; a polled end is the end | `Mcp` |
| `hub/signer-exec.mjs`, `extsig.mjs` | a child process | spawn, collect, kill, verify | output, exit and timer in any order | only whole signatures, for this purpose, count | `Signer` |
| `hub/autostart.mjs`, `shortcut.mjs`, `protocol.mjs`, `/autostart`, Operate view | entries of the operating system | install, remove, read back, report | tools that fail half-way; people who move programs | what is shown is how the machine is | `Desktop` |
| `scripts/vendor.mjs`, `compile-packs.mjs`, `verify-vendored.mjs`, `build-sea.mjs`, `hub/sea-entry.cjs` | vendored files, packs, builds, unpacked runtimes | vendor, compile, check, release, unpack, run | interrupted scripts and unpackings, edits by hand, two versions on one machine | what is labelled verified is what was published | `Packs` |
| encoders, exports to other formats, command line, generators, vendored kernels | none | pure functions, plain I/O | | | not modelled |

How the parts interact. `server.mjs` and `mcp.mjs` admit a request (`Gate`, `Mcp`)
and call the run engine; the webhook and the watches call it too. The run
engine takes the steps `Plan` orders, writes the journal and the run tables, asks
the gate of a person before each gated step and a connector (`Egress`) or a
kernel (`Packs`) for the result. A start loads the keys (`Identity`), verifies the
journal (`Boot`), and then checkpoints, the pass over the anchor queue, the
watches and the heartbeat go on in the background of a serving daemon until it is
idle (`Stream`). Matters, lineages and bundles are read from what others wrote.
The browser meets the daemon through `Shell` and `Stream`, and has a vault and a
journal for when there is none.

## 2. Modules

| module | models | composes |
|---|---|---|
| `AppendOnlyLog` | what a journal promises: a sequence that only grows, at its end, by one entry | |
| `Journal` | `appendEntry` statement by statement, replay | implements `AppendOnlyLog` |
| `Boot` | starts, verification, quarantine, checkpoints, damage on disk | extends `Journal` |
| the modules of the table above | one part each | |
| `MCRecords` | what keeps, signs, hands out and verifies records | `Journal`, `Matters`, `Lineage`, `Evidence`, `TabJournal`, `Packs` |
| `MCConnections` | what deals with somebody outside | `OAuth`, `Egress`, `BrowserVault`, `AnchorQueue` |
| `MCDaemon` | a daemon from its start to its exit | `Boot`, `Identity`, `Stream` |
| `MCSurfaces` | what people, agents and programs meet | `Gate`, `Shell`, `Mcp`, `InboundWebhook`, `Signer`, `Desktop`, `Plan` |
| `MCRunEngine`, `MCHaGate`, `MCInboundWebhook` | values and symmetry sets for TLC | |
| `JournalProofs`, `RunEngineProofs`, `HaGateProofs`, `WatchProofs` | theorems about the module of that name | |
| `DaemonProofs` | theorems | `Boot`, `Identity`, `Stream` |
| `ConnectionProofs` | theorems | `Egress`, `OAuth`, `BrowserVault`, `AnchorQueue` |
| `RecordProofs` | theorems | `Packs`, `TabJournal`, `Lineage`, `Evidence`, `Matters` |
| `SurfaceProofs` | theorems | `Gate`, `Shell`, `Mcp`, `InboundWebhook`, `Signer`, `Desktop`, `Plan` |

The parts in one of the four compound modules share no state that their properties
are about, so every behaviour of the product is, for each property, a behaviour
of one part with the others standing still. The variable `part` picks it; the
parts at rest keep one initial state. Fairness is of the actions of a part.

Conventions. A digest is represented by what it digests: two digests are equal
exactly when their preimages are, which is the assumption of collision resistance.
A signature verifies or does not; damage to one is a state of it. A piece of code
that runs between two awaits is one action, except where it commits to the
database or writes to disk more than once: then a crash can fall between the
writes, and each is an action or the action has a parameter that says after which
write the process died. Definitions marked "Mistaken form" are variants with a
plausible error in that code; each shows that a property can fail and is never
part of a specification. Operators without primes model pure functions of the
code and keep their names.

### Journal and AppendOnlyLog

`tx` is the open SQLite transaction with its own copy of the rows; `BeginAppend`,
`InsertRow`, `UpdateRh`, `UpsertState`, `CommitAppend` are the statements in
their order, and `RollbackAppend` (an exception or the death of the process) may
follow any of them. `rh` is the nested tuple of everything hashed, so the
chain is exact. The refinement maps the log to the committed rows without their
`rh`.

### Boot

`BootVerified` and `BootQuarantined` are the two outcomes of `cmdStart`. The
checkpoint of a start has two halves, `StartBuilding` before the wait for the
relay and `SaveCheckpoint` after it, and `Appending` may come between.
`DamageRow(i, what)` changes a stored row in one of its columns or removes it,
`DamageHead` changes or removes a row of `stream_state`, `DamageCheckpoint` a
checkpoint. The replays read `entry_digest` and `rh` and never compute a digest from
`entry_json`, so `stored`, which is what their SELECT finds, hides a changed
`entry_json`; that stands for `kind`, `run_id` and `created_at` too, which no replay
reads either. Damage is an accident: an altered digest or `rh` holds what nothing
hashes to. A row whose `stream_id` was altered is not modelled apart. `astray` is
a history of the streams whose row in `stream_state` was damaged: what is appended
from then on chains to the wrong head, so of such a journal only the cause of a
quarantine is claimed.

### AnchorQueue

One pass at a time: `SkipEntry`, `TakeEntry`, `AskRetry`, `RetrySucceeds`,
`RetryFails` are the loop of `drainAnchorQueue`; `AskOwn`, `OwnSucceeds`,
`OwnFails`, `SaveQueued` are the rest of `anchorForCheckpoint` and the save of the
checkpoint. `Stop` may come anywhere. Times are ages with a cap, so the model has
no last instant and liveness is meaningful.

### Identity

A passphrase is a number, a blob is the passphrase it is sealed with. A load is a
program of steps (`LoadStep`): look in the keychain, migrate `vault.key` by write,
read back and shred, open or write the two blobs, sign a head. A read-back that
differs is undone by the three writes of `vaultDelete`, each a step
(`keychainDelete`, `fileDelete`, `unindex`). A process may die after any step, the
keychain may be locked or keep something else than it was given. `Usable` is what a
load reads: once the index has the label, the tier it names and nothing else.
`unfinished` is a history: a process died after the index named a tier and before
the read-back was compared or undone. The next loads then trust the tier, and throw
when it is empty; so does every load after a first start that was cut off there
while it minted. `LoadsOverlap` says whether two processes may load at once; the passing run
says no, since that is what makes `Recoverable` fail (section 3).

### Plan and RunEngine

`Plan` evaluates the validation of bindings, the order of the steps and the
resolution of parameters over every small graph of edges: the order is compared
with a reference, the least move from the order of the layers that has every
producer before its consumer. In `RunEngine`, `call[c]` is one invocation of
`executeRun`; `cpu` is the one that has the thread. A call gives the thread up
only in `CallStepRunner`. `JournalTransition` and `UpdateState` are the two
commits of `transitionState`; `StepDone` and `WriteHash` are commits of their own.
Callers differ in what they pass: the missing-data check, a dispatcher for
connector steps, `canDispatch`; this is in `MissingDataHeld`, `CanDispatch`,
`Predicts`.

### HaGate

`records` and `slots` are the two tables. `VerifyArtifactBinding` and
`MintApproval` are the two commits of `recordArtifactBindingVerification`, with
the await of the signature between them. `kind` in a record is a history.
`replay_verified` is stored as it comes with a countersignature and read by nothing
that counts signatures, so it is left out. A signature is over the subject alone:
whoever has one may submit it with any kind and instant, and helmd's own is there to
be had once a replay put it into the slot, which `GET /ha/slot` shows (`signatories`).
`SubmitCountersignature` has no other guard. helmd never signs as a maker: a maker's
signature of its own would have to be in a slot, which has a maker by then.

### InboundWebhook

A request is a nonce with a key and a timestamp and may be delivered any number
of times. Everything up to `executeRun` is one turn of the event loop; what waits
for it is in `resuming`. `accepted`, `executed` and `resumes` are histories.

### Watch

One unit is a minute: the period of the poll and of the heartbeat, and the
tolerance. A tick keeps the list it read (`todo`) across the runs it awaits;
`TickIds` says how many ticks may overlap, a run may take any number of minutes, and
`fireWatch` records the instant at which its tick began. `Sleep` passes time without
timers. `awake`, `slept`, `started` and `ended` are histories; `started` keeps of the
last run of a watch its number, its minute, that of its tick, and whether another was
under way. `Requests` says whether other requests come in, `MaxRevoked` how many
watches may be revoked: the run of receipts has them, that of cadences spends its
states on sleep and on a third watch.

### Matters, Lineage, Evidence

A matter refers by hash to what other tables hold. Handlers are synchronous after
their body is read, so only the death of the process separates the row of a
closing from its export (`closing`). A deadline is its natural key with its flag,
which edits carry forward; `DoneSinceExport` is about that.

In `Lineage` a holder of keys builds rotations, also wrong ones, a store accepts
them through `assertRotationAppendable`, and an export of them, in any order and
with some missing, doubled or damaged, is walked by `verifyKeyLineage`
(`walkStep` is one iteration). `VerdictIsRight` compares the verdict with the
history that was really made.

In `Evidence` a bundle is assembled from rows, checkpoints and envelopes, carried
with parts lost, doubled, damaged or exchanged for parts of another bundle, and
judged by the hub's verifier and the browser's. Envelopes between two Helms and
the migration of a browser's journal are carried the same way.

### Gate, Stream, Shell, Mcp

`Gate` has the bearer, pairing nonces and the tickets of streams, exports and
signers; callers keep every name they ever saw. `job` is one run with what the
callers that started or resumed it gave it. `honoured` is a history.

`Stream` is one watched run: the page asks for a ticket and opens a stream in two
awaits, the daemon counts streams and refuses at the cap, the idle timer looks at
the counters. Each connection is a slot with both ends' view of it. Between the
decision of `onIdle` and the exit 50 ms later the daemon serves as before; `late` is
what began in that time.

`Shell` has overlapping calls of tabs, each with what the daemon held when it was
made (`since`), the cache of the origin, and what is shown. A call that fails before
the headers is an error (`aborts`); one that fails after them is an answer whose data
is null (`breaksOff`), as `safeJson` has it. One route stands for all. `Mcp` evaluates every kind of request in both eras while one run goes on, and
what a client that asserts nothing would be told for the same request.

### OAuth, Egress, BrowserVault, TabJournal

`OAuth`: a flow opens a loopback listener, awaits the browser, exchanges the code,
writes the vault and the registry. `revokeConnection` keeps the list it read
across the await of the provider (`revoking`). Imports share the vault. `Egress`: a
call vets an address, pins it for all lookups of the host, connects, follows
redirects and writes a row per decision. `BrowserVault`: `page` is what a tab shows or
where it went, `work` the connections under way, of any tab and several of one: the
pending OAuth flow that the view completes as it is rendered, and the pasted token
whose button stays in use. Each unlocks the vault or enrols in a prompt and derives a
key before it stores. `raced` is a history: the keys saved while another enrolment
was under way. `TabJournal`: frames of a file, of which a kill leaves a torn one;
recovery scans up to the first bad frame. The worker has a journal, whose valid end is
0, before it has read the file (`openHandle`, then `scanned`), and the page lets an
append through as soon as there is a worker; what such an append writes over is in
the history `spoiled`.

### Signer, Desktop, Packs

`Signer`: chunks, exit, error and timer of a child come in any order; a signature
is two pieces. `Desktop`: three kinds of entries, each written by a tool that may
fail after some of its effects; the card of the Operate view and the doctor say
what they read. `Packs`: from a commit of the site through vendored files, packs
with pins, the checks of CI, a release, its unpacking next to that of another
version, to a step that is labelled `kernel_verified`. A kill during the unpacking
leaves a file cut short, which counts as there from then on: one that does not parse
is a fatal error of every start, a kernel that still parses is imported as a namespace
and lacks something when it runs (`Short`). A module of the hub that is cut after all
that others import from it by name is not modelled.

## 3. What TLC checks

Runs that pass:

| run | property | what it says |
|---|---|---|
| `records` | `ChainIntact` | appends to two streams, abandoned at any statement, leave a journal that replays |
| | `ImplementsLog` | and a log that only grows at its end (refinement of `AppendOnlyLog`) |
| | `MatterKeepsRecord` | every binding resolves; an export is of the last closing, has no hole, and what is done stays done in the next one |
| | `LineageIsOne` | a store never forks its trail, and the verdict on an export is right about the history really made |
| | `EvidenceIsWhole` | an accepted bundle is as sealed, the browser's verifier accepts nothing the hub's refuses, an imported envelope is signed and of a type and version this Helm knows, a migrated journal is whole |
| | `AckedIsRecovered` | an append the browser's journal acknowledged survives kills, torn frames and changes of the writer; what is lost is lost to a worker that wrote before it had read |
| | `KernelsAsPinned` | `kernel_verified` is said of published files, and a step runs files of one build, or what a kill during the unpacking left of one |
| `connections` | `VaultMatchesRegistry` | a revoked connection has no usable token; an import's marker has its material |
| | `EgressIsAccountable` | every address reached was vetted, every answer has a row per hop |
| | `StoredTokensOpen` | a token the browser stored opens with the vault record that is kept, unless it was enrolled while another enrolment was under way; a code goes to its provider only |
| | `RetriesKeptAndPaced` | a queued checkpoint stays until stamped; one start keeps the relay's limit, with nothing to spare |
| | `FlowSettles`, `PassEnds` | an authorization flow ends; a pass over the queue ends although every request fails |
| `daemon` | `CheckpointIsOneMoment` | a checkpoint signs one moment of the journal, if `stream_state` was not damaged |
| | `StartsAreJustified` | with `stream_state` undamaged, no row that is gone or of which a hashed column has changed is served, unless the newest checkpoint vouches for it or the end of its stream is gone with it (a changed `entry_json` is served: below); a directory is set aside for such a row, for damaged heads, or for the error of `boot_many_streams`, and for nothing else |
| | `SealedIsRecoverable` | what was sealed is sealed with what a load reads, or with `vault.key` while a process is between the index and the comparison or has died there; heads follow their snapshots |
| | `StreamsAreCounted` | the count of streams is the number open, and a ticket opens one |
| | `MigrationEnds`, `IdleCutsOnlyTheLate`, `ShowsTheEnd` | `vault.key` goes away, unless a death in that gap left an index that names an empty tier; an idle exit cuts off only what was begun in the 50 ms after its decision; the end of a run is shown to who watches it |
| `surfaces` | `ConsentSpentOnce` | a nonce or ticket is honoured once, as what it was minted for |
| | `AgentSendsNothing` | nothing leaves for an agent's run until a REST call took it up, and never in a dry run |
| | `NeverInvents` | what is shown as live is no older than the question, or null where an answer broke off in its body; what is stale once came back |
| | `ErasAgree` | a client of the old protocol meets no stricter check, and a polled end is the run's end |
| | `SignaturesAreWhole` | an accepted signature is unbroken, and a counter-signature is that person's, for this purpose |
| | `EntriesAreAsShown` | the toggles, the registration and the doctor say how the machine is |
| | `PlanIsRunnable` | the order of steps is the nearest runnable one, and what validates resolves |
| | `NonceAcceptedOnce`, `RetriesAreIdempotent` | with clocks that agree a request is accepted once, and retries resume a run once |
| `run_engine` | `OneExecutor`, `RecordsReplay`, `GatedResultsWereApproved`, `ResultsAreFinal` | two runs, two interleaved calls, a crash: one executor, a journal that leads the table by at most one legal transition and hashes that replay, gates that hold, results and ends that are final |
| `run_settles` | `StartedRunSettles` | without crashes every started run finishes or is held |
| `ha_gate` | `PinIsSupported`, `ApprovalsAreSigned`, `DecisionsAreFinal` | a pin rests on that many distinct checkers entered as human, helmd among them only by a replay submitted once more; the maker never checks, replays never approve, an approval by binding has its countersignature; makers, pins and rejections are final and time only ends overrides |
| `watch_fires` | `FiresOncePerCadence`, `DueWatchFires` | with overlapping ticks and slow runs, behind a watch that always throws and one whose pack is gone, a due watch fires; after a run that was alone from start to end the next is of a tick one cadence later; a grace period comes first |
| `watch_receipts` | `ReceiptIsEvidence` | with overlapping ticks, slow runs, a crash and idle exits, "ran" is said of a recent run, "evidence_of_non_run" of a window the process was there for and that is over but for a minute |

A property that joins several is the conjunction of the named definitions above it
in its module. Each has a mistaken form of a definition, listed under `mutants`,
that violates it. Type invariants are theorems, or the first part of the inductive
invariants of section 4; TLC checks them where a module declares one.

Runs that end in a counterexample compare the code with a sentence of its own
comments; the sentence is quoted under `findings`:

| run | what the code does |
|---|---|
| `boot_many_streams` | the fast path recomputes rows that a checkpoint covers from a later head and quarantines an intact journal |
| `run_review_queue` | the review queue misses a run held after a step with bound parameters |
| `webhook_retry` | a retry that overlaps the first attempt is received and attested again |

### Other sentences the models contradict

Each is a property of its module, at its end or under constants that the passing
run leaves out. To see the behaviour, make it the only property of the
configuration named, with the change given.

| property | configuration | what the code does | the sentence |
|---|---|---|---|
| `Boot!AnchorBindsCheckpoint` | `BootManyStreams.cfg` | `checkpoint.mjs:65` builds the checkpoint again after the wait, so a timestamp can be of the root digest from before it | `anchor-client.mjs:237-238` |
| `Boot!ServesWhatItCanProve` | `Daemon.cfg` | `journal.mjs:167`, `199`: no replay computes a digest from `entry_json`, so a row whose entry was changed on disk is served | `index.mjs:120-121` |
| `Boot!FastPathNeedsRealAnchor` | `BootManyStreams.cfg`, `AnchorRequired = TRUE` | `index.mjs:145` counts a queued or skipped marker as an anchor | `config.mjs:71-76` |
| `RunEngine!InterruptedRunRecovers` | `RunSettles.cfg`, `MaxCrashes = 1` | nothing takes up a run a crash left running | `run.mjs:403-405`, `server.mjs:667-670` |
| `RunEngine!MissingDataIsNotFailure` | `RunReviewQueue.cfg`, `MissingData = {3}` | `server.mjs:706`: a run held for missing data fails when it is resumed | `run-actions.mjs:79-83` |
| `RunEngine!DryRunParity` | `RunReviewQueue.cfg`, `ConnectorSteps = {3}`, `DryRuns = {r1}` | `server.mjs:848`: a dry run resumed by the webhook passes a step no runner exists for | `run.mjs:460-463` |
| `HaGate!AutomatedNeverApproves` | `HaGate.cfg` | `ha-gate.mjs:234`: an automated binding verification mints an approval | `ha-gate.mjs:169-170` |
| `HaGate!PinIsOfPeople` | `HaGate.cfg` | `ha-gate.mjs:298-311` takes helmd's own replay signature, submitted again with `attester_kind` "human", and `pinSlotSatisfaction` counts it | `ha-store.mjs:206-208` |
| `InboundWebhook!NonceAcceptedOnce` | `WebhookRetry.cfg`, `Skew = 1` | `webhook-guard.mjs:56` forgets a nonce while a timestamp ahead of the clock is still fresh | `webhook-guard.mjs:42-48` |
| `Watch!MissNeedsWaking` | `WatchReceipts.cfg`, `MaxSleeps = 2` | `uptime-record.mjs:55`: the first heartbeat after a sleep records the sleep as uptime | `uptime-record.mjs:9-10, 46-48` |
| `Watch!MissMeansNoRun` | `WatchReceipts.cfg`, `Throwing = {w1}` | `watch-scheduler.mjs:329`: a run that failed is reported as no run | `receipt.mjs:26-28` |
| `Watch!StartsACadenceApart` | `WatchFires.cfg` | `watch-scheduler.mjs:329` records the minute of the tick: a run that stood behind a slow one starts later, and the next less than a cadence after it | `watch-scheduler.mjs:274-275` |
| `Watch!RevokedNeverFires` | `WatchFires.cfg`, `MaxRevoked = 1` | `watch-scheduler.mjs:345`: a watch revoked during a tick fires all the same | `watch-scheduler.mjs:209-210` |
| `Watch!GracePeriod` | `WatchFires.cfg`, `MaxMade = 2`, `MaxRevoked = 1` | `watch-scheduler.mjs:255`: a watch recreated under an id takes over the old baseline | `watch-scheduler.mjs:276-278` |
| `Watch!RunHoldsDaemonOpen` | `WatchReceipts.cfg` | `index.mjs:210`: the idle exit cuts off a run a watch started | `index.mjs:203-205` |
| `AnchorQueue!RetriesWithinLimit` | `Connections.cfg`, `MaxStarts = 5` | `anchor-queue.mjs:106`: starts in quick succession retry without an interval | `anchor-queue.mjs:87-89` |
| `Matters!ClosedHasExport` | `Records.cfg` | a process that dies between the two commits leaves a closed matter without an export | `schema/matter-manifest.schema.json:17` |
| `Matters!ExportSignedOnce` | `Records.cfg` | a closed matter that is closed again gets another export | `matter-store.mjs:706` |
| `Identity!RetriesCleanly` | `Daemon.cfg` | a process that dies before it compares leaves what a lying keychain kept, and later loads trust it | `keys.mjs:79-81` |
| `Identity!InterruptedOpens` | `Daemon.cfg`, `MaxLies = 0` | `keys.mjs:118-119`: a death after the index was saved leaves later loads to a tier that may be empty or locked away, and they throw while `vault.key` is there | `keys.mjs:14-16` |
| `Identity!Recoverable` | `Daemon.cfg`, `LoadsOverlap = TRUE` | two first loads mint a passphrase each, and a blob is sealed with the one that is not kept | `keys.mjs:14-16` |
| `Lineage!AnyOrder` | `Records.cfg` | of two copies of a rotation the last counts, so a damaged one after the intact one makes the verdict invalid | `key-lifecycle.mjs:158-160` |
| `Evidence!NeverThrows` | `Records.cfg` | another signed statement in the place of the manifest, or an unreadable checkpoint, throws | `bundle.mjs:170-171` |
| `Evidence!CheckpointsAreReferenced` | `Records.cfg` | a carried checkpoint nobody refers to is accepted | `bundle.mjs:168` |
| `Evidence!RunProofIsFaithful` | `Records.cfg` | the proof of one run is cut from a bundle that nothing verified, with the labels it has by then | `bundle.mjs:278` |
| `OAuth!TokensAreListed` | `Connections.cfg` | a connection made during a revocation is lost from the list, its tokens stay | `oauth-pkce.mjs:265` |
| `OAuth!RevocationIsFinal` | `Connections.cfg` | of two overlapping revocations the later write brings the other back | `oauth-pkce.mjs:265` |
| `OAuth!NoSilentOverwrite` | `Connections.cfg` | a locked keychain looks empty, and the material of another bundle is replaced | `migration-import.mjs:110-111` |
| `Egress!EveryConnectionJournalled` | `Connections.cfg` | a connection that fails leaves no row | `connector.mjs:6` |
| `Egress!ConnectsToItsOwnAnswer` | `Connections.cfg` | a later call moves the pin of an earlier one to its own vetted address | `connector.mjs:207-210` |
| `BrowserVault!EveryTokenOpens` | `Connections.cfg` | `connect.mjs:69`: of two connections that enrol at once, in one tab or two, the later overwrites the record the other's token was sealed under | `connect.mjs:51-52` |
| `Stream!IdleCutsNothing` | `Daemon.cfg` | `index.mjs:216`: requests are served for 50 ms more, and a stream or run begun then is cut off | `index.mjs:202-205` |
| `Stream!OneConnection` | `Daemon.cfg` | a stream whose ticket was under way opens next to its successor | `ui/app.mjs:152-153` |
| `TabJournal!AckedIsKept` | `Records.cfg` | `journal-worker.mjs:27-28`: an append that comes while the file is being read is written at its start, over acknowledged frames | `journal-worker.mjs:33` |
| `TabJournal!WriterHoldsLock` | `Records.cfg` | a page from the back/forward cache believes it is the writer until its boot runs | `browser-journal-client.mjs:77-80` |
| `Shell!ShowsWhatWasAsserted` | `Surfaces.cfg` | `api.mjs:85-91`, `105-107`: an answer that breaks off in its body is a live null, which is cached | `ui/api.mjs:4-6` |
| `Shell!UnpairedIsBlank` | `Surfaces.cfg` | a view that was being fetched is rendered over the pairing form | `ui/app.mjs` (Unpair) |
| `Signer!OverCapIsRefused` | `Surfaces.cfg` | output that reaches the cap exactly and goes on is cut without a mark | `signer-exec.mjs:27-28` |
| `Desktop!DoctorSeesOtherHandler` | `Surfaces.cfg` | `xdg-mime` is asked without its verb, so another default handler is not seen | `protocol.mjs:400` |
| `Packs!ExtractionIsIdempotent` | `Records.cfg` | `sea-entry.cjs:45`: a file a kill has cut counts as there, and every later start runs with it | `sea-entry.cjs:36-39` |
| `Packs!PinIsOwnDigest` | `Records.cfg` | `kernel-runner.mjs:25-29` compares the pin with the manifest, never with the file | `kernel-runner.mjs:4-8` |
| `Packs!CompiledIsRunnable` | `Records.cfg` | a pack with a marked node compiles, and the gate of a start throws | `compile-packs.mjs:13-15` |
| `Packs!OverlayIsShipped` | `Records.cfg` | CI runs no `--check`, so a changed overlay is released without a compile | `compile-packs.mjs:383-386` |

`MissNearlyDue` is as strong as the code allows: within the last minute of its
first window a watch that is not due yet is already reported as missed
(`receipt.mjs:86` with the tolerance of `uptime-record.mjs:103`).

### Bounds

Every bound is a constant (`Max...`, and the sizes of the sets). They are chosen
so that the interesting case happens with one to spare.

* `records`: two streams and four rows let one stream's head lag the other's; two
  bindings and a deadline on one matter that is closed, reopened and closed again;
  two rotations and three delivered envelopes are a history with one too many; two
  rows, two runs and two faults let a part be lost and another exchanged; two pages
  and two kills leave a torn frame behind a change of writer, and an append before
  the file was read; two commits, two builds and two oddities (an interrupted script
  or unpacking, an edit) let versions mix.
* `connections`: two flows are the least that race over the list, two bundles of
  one origin the least that collide, two calls over two allowed hosts and one other
  the least that share a pin; one redirect to each side of the contract; three
  connections of the browser over two tabs let two race and a third store its token
  under what is left of their records. The relay takes three requests in a minute of
  two intervals, as the real one takes four in a minute of three; three queued
  markers, one more than the interval lets through in that minute, are ready in the
  fourth start.
* `daemon`: three starts let a checkpoint be saved, used and superseded, with one
  fault on disk between any two steps; two crashes, a lock and a lie of the keychain
  meet every step of two loads; three slots are one more than the cap of streams.
* `surfaces`: two names, two credentials and two stops; one tab with two calls, and
  other tabs as writers of the cache; every kind of request in both eras; chunks up
  to one past the cap; two programs and three events on the desktop; graphs of two
  edges over four steps. A window of one and a clock of four let a nonce expire
  and its request come again, and three nonces are a first attempt and two retries.
* `run_engine`: three steps are the least with a bound step and a gate behind it,
  two calls are the least that can race, and one crash leaves every intermediate
  state. `ha_gate`: threshold two needs distinct approvers, and four identities
  leave a maker, two checkers and the daemon; the one subject that is signed for is
  either of two, since slots and records of different subjects never meet
  (`MaxSubjects = 1`). `watch_fires`: two ticks are the least that overlap, and two
  cadences of two minutes leave a run time to be slow and the watch behind it to come
  due again; revocations and stops are left to the other run and to the theorem.
  `watch_receipts`: the clock runs for two cadences, so a run
  can become old, and a cadence of four is the least in which a gap longer than the
  tolerance fits between two intervals.

Symmetry is used for interchangeable calls and people only, and in no run with a
liveness property. `CHECK_DEADLOCK FALSE` is set where a bounded history simply
ends: the daemon is down and may not be started again, the clock has reached its
bound, all runs are finished, a file has been judged.

### Fairness

* `RunEngine!FairSpec`: strong fairness of every step of a call. A step runner
  answers or throws (kernels are finite computations, connectors have timeouts),
  and the event loop comes round to every resolved promise however often other
  calls take the thread. Crashes are excluded: after one, a run may stay as it is
  (`InterruptedRunRecovers`).
* `Watch!FairSpec`: timers go off, runs return, minutes pass. The bound on the
  clock ends a behaviour, and `DueWatchFires` is about watches that come due
  early enough before it.
* `MCConnections`: `AnchorFairness` is weak fairness of the pass and of time; every
  request is aborted after 35 s, so an answer or a failure always comes, and the
  relay is never assumed to succeed. `OAuthFairness` is the timer of a flow and the
  time limit of an exchange; neither the person nor the provider is assumed to act.
* `MCDaemon`: `IdentityFairness` is that somebody starts `helmd` again, that a
  locked keychain is unlocked and that a load goes on; deaths, locks and lies are
  not fair and bounded. `StreamFairness` is that answers, events and hang-ups
  arrive, the timer of a reconnection fires, and other tabs are closed one day.

## 4. What is proved

TLAPS checks the theorems for any values of the constants that satisfy the
named assumptions of the modules: any number of streams, rows, runs, calls,
steps, identities, subjects, nonces, keys, tickets, tabs, flows, frames,
rotations, bindings, watches and crashes. They are about the specification of
one part (`GateSpec`, `OAuthSpec`, ...), of which the compound modules run one at a
time. What a theorem needs beyond the named assumptions of its modules is in its
statement.

`JournalProofs`
* The inductive invariant is type correctness, `ChainIntact`, `HeadsMatchRows` and
  `TxConsistent`: which of the four statements have run determines how the
  transaction's copy differs from the committed rows. Without it a commit could
  publish anything. `JournalReplays`, `JournalHeads` and the refinement
  `JournalImplementsLog` follow.

`RunEngineProofs`
* `IInv` joins three parts. `ThreadInv`: what a call is about to write agrees with
  the run's state, at most one call works on a run, and the journal leads the
  table by at most one allowed transition; the guard of a resume reads the table,
  so `OneExecutor` needs all of it. `MemoInv`: the outputs a call has gathered are
  those a replay of the stored results yields, hence `ReplayMatchesHash`.
  `GateInv`: a call that waits for the runner of a gated step saw the gate open for
  exactly the output that feeds the step. `RunRecordsReplay` and
  `RunResultsAreFinal` state the run's joined properties; the latter is an action
  property from the same invariant.

`HaGateProofs`
* `HaInv` adds that an automated approval has its countersignature in the slot, and
  that a signature of the daemon's is in a slot only behind a replay of it, entered
  as automated, and in none of an artifact. From it
  `HaApprovalsAreSigned` and that pins are supported; `HaDecisionsAreFinal` is an
  action property.

`DaemonProofs`
* `Boot`. `BootInv` is the invariants of the journal and that a checkpoint, also one
  still being built, holds the heads of a prefix of it (`Moments`), as long as no
  head that appends chain to was damaged (`astray`). `CheckpointsAreMoments` is the
  latter. `StartsJustified` rests on what a running hash is: it tells what was hashed last and onto what (`OneHash`), and no two
  rows have the same one (`HashesDiffer`). So whatever the damage, a row after the
  checkpoint's moment that replays is stored as it was hashed and follows the row it
  was chained to, and of a stream whose replay succeeds only an end can be gone.
  What a replay does not read, a row's JSON, is no part of that
  (`ServesWhatItCanProve` in section 3).
* `Identity`. `SealInv`: what a process relies on, by where it is in its load; once
  the passphrase is settled every blob is sealed with what the index leads to, and
  while `vault.key` is there every blob is sealed with that. `IndexInv`: the index
  leads to a tier without a value only while a process is between writing the index
  and the comparison, or after one has died there (`unfinished`). A load that sets up the
  passphrase is alone, which is the hypothesis `~LoadsOverlap` of `SealedStays`;
  section 3 has the counterexample without it. `ChainInv` is about the snapshots.
* `Stream`. The two counters are the sizes of two sets and a ticket that is still
  valid was not used: `StreamsCounted`. At the decision to exit two counters at zero
  are two empty sets, and from then on what is held was begun since (`LateInv`): what
  an exit cuts off began in its last 50 ms, which is the action property `IdleStops`.

`ConnectionProofs`
* `Egress`. The references of a pin are the number of calls between vetting and the
  end of their request, and the address of a pin was vetted by one of them. A call
  that connects holds a pin, so its lookup never falls back to the resolver,
  although others release the same pin in between. `CallInv` relates what a call
  has journalled to where it has been, per phase.
* `OAuth`. `HeldList`: the list a revocation holds across its wait shows nothing as
  revoked that is usable, and differs from `connections.json` in complete flows
  only, so that writing it back revives names but no tokens (`VaultMatches`).
* `BrowserVault`. `CodesInv`: the number of a flow is pending with one provider at
  most, so a code is never sent to another (`CodesGoHome`). `KeysInv`: a
  token, and the key that is about to seal one, belongs to the saved record or to one
  that another enrolment raced with; whoever enrols saw no record, so if there is one
  by now it was saved meanwhile. Any number of connections may be under way in any
  number of tabs (`StoredOpen`).
* `AnchorQueue`. `QueueInv`: what a pass still has to look at and what is queued
  agree on the digest of every checkpoint, so what a pass takes out by checkpoint
  is what was stamped. `PacedInv`: requests of one start are an interval apart.
  That they stay within the relay's limit is then counting: the map from a request
  to the interval its age is in is injective, and a minute has fewer than
  `RelayLimit` of them, which is an assumption on the constants that the code's
  values meet with equality (60 s and four requests, 20 s apart).

`RecordProofs`
* `Packs`. `PacksInv`: what CI lets through is the published files under their pins,
  and a file in a directory that was unpacked is one build's or what a kill left of
  it, which never changes. A kernel cut short is imported, and never with the label
  of a verified one unless its bytes end after its artifact (`KernelsPinned`).
* `TabJournal`. `TabInv`: a worker that holds the access handle and was asked for
  nothing before it had read the file counts exactly its frames as valid, and a torn
  frame can only be the last; one that was has spoiled whatever it writes over, and
  what it spoils is known by name (`AckedRecovered`).
* `Lineage`. Events refer to earlier events by digest, so the walk from a head
  depends on walks from later events only, the function it computes exists, and
  a least counterexample shows its verdict right (`HistoryIsOne`).
* `Evidence`. Of what was signed in one bundle only one statement is a manifest, and
  it names every object by the digest of its statement; the step is that a
  verification that succeeds leaves no room for an exchanged part
  (`SealedIsAccepted`).
* `Matters`. The tables only grow, so what resolved once resolves for ever; a closing
  between its two commits holds a manifest that resolves; every export was assembled
  from one (`RecordsAreKept`).

`SurfaceProofs`
* `Gate`. `ConsentInv`: a name that was honoured was honoured once, as what it was
  minted for, and is gone; a name that is gone is not minted again, which is why
  presenting it later, elsewhere or to another process grants nothing. `JobInv`: a
  run has a dispatcher only if a REST call started it or took it up.
* `Shell`. An answered call carries data that the daemon held between the question
  and now and has said, or null, if the answer's body broke off for the tab; the cache holds something that was said. A call that is
  made takes a free slot, so no answer is read as that of another call.
* `Mcp`. `McpInv`: what an asserting request got done, the same request would get
  done now without asserting anything; the task's state only goes on.
* `InboundWebhook`. `NonceInv`: an accepted nonce is remembered as long as its
  timestamp is fresh; this needs `Skew = 0`, as the table above shows.
  `ReceivedInv`: without `run.resume` a received key is in the cache. `ResumeInv`: a
  key that resumed its run is cached or waits for it, and a run that is waited for
  is not held. `AnsweredInv`: a received key is cached or waits for its run, whatever
  the contract grants. `WebhookRetriesAreIdempotent` joins the last two.
* `Signer`. `Unbroken`: until the cap is reached, what was read and what is in the
  pipe are what was written; from then on what was read is its beginning, so what
  is accepted, being shorter than the cap, was cut nowhere (`SignaturesWhole`).
* `Desktop`. `ToggleInv`: a toggle that claims something shows what is there or waits
  for an answer that says what is there, and with both under way neither claims
  anything. `SchemeInv`: a registration is written with its command last
  (`EntriesShown`).
* `Plan`. `SortInv`: what is ready are the steps whose producers were all taken, the
  in-degree of each other step is the number of producers it still misses, and every
  step was, when it was taken, the least that was to be had (`Greedy`). Another order
  that respects the edges agrees with it up to some first place, and what it has
  there was to be had, too, so it is later; if nothing more is to be had and steps
  are left, the first of them in any such order would have been. The manifest's own
  order, which a plan without edges keeps, exists: a finite set of indexes that had
  none would have a least size. `RunInv`: the steps that ran are the first of the
  order, so what a step is bound to has run (`PlansAreRunnable`).

`WatchProofs`
* `UptimeInv`: every instant of a journalled interval, and of the one that is open, is
  accounted for. `WindowCovered` is about the check of a window alone: if an instant
  within it lay in no interval, the interval with the least start after it could
  neither be joined to an earlier one nor be the first. `RunsInv` is about every
  watch that somebody still knows, the list or a tick that read it before a
  revocation: its recorded run was started, at the instant of the record or later,
  and not before the watch was created. Hence `ReceiptsAreEvidence` and
  `NoRunBeforeItsTime`, if an id is used once (`MaxMade <= 1`): a watch that is made
  again takes over the old row (section 3).
* `SpacedInv`, for `FiresOncePerWindow`: a run that was alone from its start to its
  return is recorded with the instant of its tick, and from then on no tick is inside
  a run of that watch and none records over it before the next start. Ticks overlap,
  runs are slow, the daemon dies or is stopped, watches are revoked: the hypothesis is
  `MaxMade <= 1` alone. What is a cadence apart is the start of the next run from the
  instant of the tick the last one was recorded by, not from its start
  (`StartsACadenceApart` in section 3).

How induction over data is done. The library's induction theorems take an
operator as a parameter, which no installed prover can instantiate. Where a fact
is about all elements of a sequence or all events of a chain, the proofs take a least
counterexample instead: the natural numbers are well founded, which the library
states without an operator.

Only model-checked: liveness (`FlowSettles`, `PassEnds`, `MigrationEnds`,
`ShowsTheEnd`, `StartedRunSettles`, `DueWatchFires`), which this prover does not
reach, and that the compound modules' parts do not meet, which is how they are
composed.

## 5. Not modelled

* Encoders, other signature formats (Sigstore, SD-JWT, minisign) and document
  exports: pure functions without state. What a digest or a signature means is in
  the conventions above.
* The vendored kernels, except the evaluation of a gate and their pins.
* The markup of views, and the generators of documents and agent kits.
* `verifyAllCheckpoints` of `backup.mjs` and the `--check` modes of scripts, which
  compare files and change nothing.
* Torn writes of the JSON state files: the code has no answer to them
  (`listWatches` throws), so a model would only say so.
* The local socket of the command line and the parsing of its arguments.

## 6. Plan

1. Proofs: `MissNeedsUptime` and `MissNearlyDue`, also for ids that are used again.
2. An abstract specification of a consent (minted, spent, gone) that `Gate` and the
   tickets of `Stream` both implement.
3. `RunEngine` with the dispatcher of `Gate` and the transcripts of `Egress`, so
   that an effect outside is counted once per step.
