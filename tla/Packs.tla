-------------------------------- MODULE Packs --------------------------------
(***************************************************************************)
(* How a kernel gets from the site's repository into a run: vendor.mjs     *)
(* copies the files of a pinned commit, compile-packs.mjs pins their       *)
(* digests into packs, CI (verify-vendored.mjs, compile-parity-gate.mjs)   *)
(* lets a commit be released or not, a build embeds the files, its first   *)
(* start unpacks them (sea-entry.cjs), and kernel-runner.mjs compares the  *)
(* pin of a step with the manifest of the files it runs.                   *)
(***************************************************************************)
EXTENDS Naturals, FiniteSets

CONSTANTS Commit,    \* commits of the site's repository
          Dropping,  \* those that no longer have the kernel "kb"
          Gone,      \* no file, no value
          Cut,       \* a file cut short so that it does not parse
          Empty, NoArtifact, NoTail, \* a kernel cut where it still does, see Short
          Tree,      \* the checkout, as against a build
          Sentinel,  \* MARKER_SENTINEL_DIGEST
          MaxOdd,    \* bound: hand edits, new pins, kills, starts in the tree
          MaxBuilds  \* bound: releases

ASSUME PacksAssumption ==
    /\ Dropping \subseteq Commit /\ MaxOdd \in Nat /\ MaxBuilds \in Nat
    /\ {Gone, Cut, Empty, NoArtifact, NoTail, Tree} \cap Nat = {} /\ Tree # Gone
    /\ Gone \notin {Cut, Empty, NoArtifact, NoTail} /\ Cut \notin {Empty, NoArtifact, NoTail}
    /\ \A c \in Commit : [of |-> c, file |-> "registry"] \notin {Gone, Cut, Empty, NoArtifact, NoTail}

Kernel == {"ka", "kb"}
VendoredFile == Kernel \union {"registry"}   \* kernels/index.mjs with chaingraph.json
Chain == {"plain", "marked"}
toolsOf == [plain |-> {"ka", "kb"}, marked |-> {"ka", "tool"}]
MARKER_PILOT_CHAINS == {"marked"}
Build == 1 .. MaxBuilds

\* A build's files as they are unpacked, and a kernel cut short so that it is
\* still a module: nothing of it, all before buildArtifact, all before the last
\* export, which nothing that runs here asks for.
RuntimePart == Kernel \union {"hub", "packs"}
Short == {Empty, NoArtifact, NoTail}

VARIABLES config,   \* [pin, overlay]: vendor.config.json, and the chains ha-gate-overlay.json names
          vendored, \* [disk, manifest]: hub/vendored/ocg
          packsDir, \* packs/: per chain its pack, and "INDEX"
          script,   \* the script under way: [kind, todo, out]
          builds,   \* releases, by version
          exe,      \* the version of the program the user has
          runtime,  \* ~/.helm/_runtime/<version>: per part, Gone, cut or the build it is of
          daemon,   \* [of, hub, cache]: where it was started from, what it imported, the packs it has read
          ran,      \* the step just run: [of, step, fed, pin, bytes, outcome]; Gone after anything else
          odd

packsVars == <<config, vendored, packsDir, script, builds, exe, runtime, daemon, ran, odd>>

\* The user's machine is another one and sees builds only, which do not change:
\* what is done in the tree comes first.
atWork == script.kind = "none" /\ exe = Gone

NoDaemon == [of |-> Gone, hub |-> Gone, cache |-> Gone]
NoScript == [kind |-> "none", todo |-> {}, out |-> Gone]

published(c) == [f \in VendoredFile |-> IF f = "kb" /\ c \in Dropping THEN Gone ELSE [of |-> c, file |-> f]]
sha256(bytes) == IF bytes = Gone THEN Gone ELSE [sha256 |-> bytes]
hashes(disk) == [f \in VendoredFile |-> sha256(disk[f])]
\* Directories are copied and packs written in one order.
first(todo) == IF todo = {} THEN {} ELSE {CHOOSE f \in todo : TRUE}
emptied == [f \in VendoredFile |-> Gone]

----------------------------------------------------------------------------
(* vendor.mjs: wipe, copy, write the manifest last *)

vendor ==
    /\ atWork
    /\ vendored' = [disk |-> emptied, manifest |-> Gone]
    /\ script' = [kind |-> "vendor", todo |-> {f \in VendoredFile : published(config.pin)[f] # Gone}, out |-> config.pin]
    /\ UNCHANGED <<config, packsDir, builds, exe, runtime, daemon, odd>> /\ ran' = Gone

vendorStep ==
    /\ script.kind = "vendor"
    /\ \/ \E f \in first(script.todo) :
             /\ vendored' = [vendored EXCEPT !.disk[f] = published(script.out)[f]]
             /\ script' = [script EXCEPT !.todo = @ \ {f}]
       \/ /\ script.todo = {}
          /\ vendored' = [vendored EXCEPT !.manifest = [pinnedSha |-> script.out, files |-> hashes(vendored.disk)]]
          /\ script' = NoScript
    /\ UNCHANGED <<config, packsDir, builds, exe, runtime, daemon, odd>> /\ ran' = Gone

(* compile-packs.mjs *)

\* The registry lists the kernels of its commit; a tool no node of the graph names is a browser tool.
listed(disk) == {k \in Kernel : disk["registry"] # Gone /\ published(disk["registry"].of)[k] # Gone}
isConfirmedBrowserTool(tool) == tool \notin Kernel

loadKernelDigests == IF vendored.manifest = Gone THEN emptied ELSE vendored.manifest.files
digestOf(tool) == IF tool \in Kernel THEN loadKernelDigests[tool] ELSE Gone

compileChain(c) ==
    LET missing == {t \in toolsOf[c] : digestOf(t) = Gone}
        markable == c \in MARKER_PILOT_CHAINS /\ missing # {} /\ \A t \in missing : isConfirmedBrowserTool(t)
    IN IF missing # {} /\ ~markable THEN Gone
       ELSE [pins |-> [t \in toolsOf[c] |-> IF t \in missing THEN Sentinel ELSE digestOf(t)],
             gated |-> c \in config.overlay]

compiled == [c \in Chain |-> compileChain(c)]

\* An overlay entry whose chain did not compile stops the compiler before it writes.
generates == /\ vendored.manifest # Gone /\ vendored.disk["registry"] # Gone
             /\ \A c \in config.overlay : compiled[c] # Gone

writeOut ==
    /\ atWork
    /\ generates
    /\ packsDir' = [c \in Chain \union {"INDEX"} |-> Gone]
    /\ script' = [kind |-> "compile", todo |-> {c \in Chain : compiled[c] # Gone}, out |-> [packs |-> compiled, index |-> vendored.manifest.pinnedSha]]
    /\ UNCHANGED <<config, vendored, builds, exe, runtime, daemon, odd>> /\ ran' = Gone

writeStep ==
    /\ script.kind = "compile"
    /\ \/ \E c \in first(script.todo) : /\ packsDir' = [packsDir EXCEPT ![c] = script.out.packs[c]]
                                 /\ script' = [script EXCEPT !.todo = @ \ {c}]
       \/ script.todo = {} /\ packsDir' = [packsDir EXCEPT !["INDEX"] = script.out.index] /\ script' = NoScript
    /\ UNCHANGED <<config, vendored, builds, exe, runtime, daemon, odd>> /\ ran' = Gone

(* What people and machines do between *)

oddThing == odd < MaxOdd /\ odd' = odd + 1

scriptKilled == /\ oddThing /\ script.kind # "none" /\ script' = NoScript
          /\ UNCHANGED <<config, vendored, packsDir, builds, exe, runtime, daemon>> /\ ran' = Gone

newPin(c) == /\ oddThing /\ atWork /\ config' = [config EXCEPT !.pin = c]
             /\ UNCHANGED <<vendored, packsDir, script, builds, exe, runtime, daemon>> /\ ran' = Gone

editsOverlay == /\ oddThing /\ atWork
                /\ config' = [config EXCEPT !.overlay = IF @ = {} THEN {"plain"} ELSE {}]
                /\ UNCHANGED <<vendored, packsDir, script, builds, exe, runtime, daemon>> /\ ran' = Gone

editsKernel(k) == /\ oddThing /\ atWork
                  /\ vendored' = [vendored EXCEPT !.disk[k] = [of |-> "edited", file |-> k]]
                  /\ UNCHANGED <<config, packsDir, script, builds, exe, runtime, daemon>> /\ ran' = Gone

regeneratesManifest == /\ oddThing /\ atWork /\ vendored.manifest # Gone
                       /\ vendored' = [vendored EXCEPT !.manifest.files = hashes(vendored.disk)]
                       /\ UNCHANGED <<config, packsDir, script, builds, exe, runtime, daemon>> /\ ran' = Gone

----------------------------------------------------------------------------
(* CI *)

collectConfigDrivenIssues ==
    \/ vendored.manifest = Gone
    \/ vendored.manifest.pinnedSha # config.pin
    \/ vendored.manifest.files # hashes(vendored.disk)

DriftUnseen == FALSE
collectUpstreamDriftIssues ==
    \E f \in VendoredFile : published(config.pin)[f] # Gone /\ vendored.disk[f] # published(config.pin)[f]

\* index.mjs imports every kernel it lists.
importable(disk) == disk["registry"] # Gone /\ \A k \in listed(disk) : disk[k] # Gone

\* runKernelNode with the files hub and a node that pins pin; fed: the parameters are what the kernel needs.
RunUnpinned(hub, tool, pin, fed) ==
    IF pin = Sentinel THEN "skipped"
    ELSE IF tool \notin listed(hub.disk) THEN "unknown"
    ELSE IF fed /\ hub.disk[tool] \notin {Empty, NoArtifact} THEN "verified" ELSE "threw"
runKernelNode(hub, tool, pin, fed) ==
    IF pin = Sentinel THEN "skipped"
    ELSE IF tool \notin listed(hub.disk) \/ hub.manifest.files[tool] = Gone THEN "unknown"
    ELSE IF hub.manifest.files[tool] # pin THEN "mismatch"
    ELSE IF fed /\ hub.disk[tool] \notin {Empty, NoArtifact} THEN "verified" ELSE "threw"

ParityOfNames == {c \in Chain : packsDir[c] # Gone} # {} /\ importable(vendored.disk) /\ vendored.manifest # Gone
runParityGate ==
    /\ {c \in Chain : packsDir[c] # Gone} # {}
    /\ importable(vendored.disk) /\ vendored.manifest # Gone
    /\ \A c \in Chain : packsDir[c] # Gone =>
          \A t \in toolsOf[c] : runKernelNode(vendored, t, packsDir[c].pins[t], TRUE) \in {"verified", "skipped"}

\* verify-vendored.mjs ends with 0.
runCLI == ~collectConfigDrivenIssues /\ ~collectUpstreamDriftIssues

release ==
    /\ atWork
    /\ runCLI /\ runParityGate
    /\ \E v \in Build : /\ builds[v] = Gone /\ \A w \in 1 .. (v - 1) : builds[w] # Gone
                        /\ builds' = [builds EXCEPT ![v] = [hub |-> vendored, packs |-> packsDir, pin |-> config.pin, overlay |-> config.overlay]]
    /\ UNCHANGED <<config, vendored, packsDir, script, exe, runtime, daemon, odd>> /\ ran' = Gone

----------------------------------------------------------------------------
(* The user's machine. *)

installs(v) == /\ script.kind = "none" /\ builds[v] # Gone /\ exe # v /\ daemon.of # Tree /\ exe' = v
               /\ UNCHANGED <<config, vendored, packsDir, script, builds, runtime, daemon, odd>> /\ ran' = Gone

OneDirectory(v) == 1
destRoot(v) == v

\* extractRuntime, one file at a time; a file that is there is left alone, also one a kill has cut short.
notUnpacked(v) == {part \in RuntimePart :
    runtime[destRoot(v)][part] = Gone /\ (part \in Kernel => builds[v].hub.disk[part] # Gone)}
extractRuntime ==
    /\ exe # Gone /\ daemon = NoDaemon
    /\ \E part \in first(notUnpacked(exe)) :
          \/ runtime' = [runtime EXCEPT ![destRoot(exe)][part] = exe] /\ UNCHANGED odd
          \/ /\ oddThing
             /\ \E cut \in {Cut} \union (IF part \in Kernel THEN Short ELSE {}) :
                   runtime' = [runtime EXCEPT ![destRoot(exe)][part] = cut]
    /\ UNCHANGED <<config, vendored, packsDir, script, builds, exe, daemon>> /\ ran' = Gone

\* What is imported from a runtime. A kernel is imported as a namespace, of
\* which nothing need be there.
hubIn(v) ==
    LET hub == builds[runtime[v]["hub"]].hub
        kernel(k) == IF runtime[v][k] \in {Gone} \union Short THEN runtime[v][k] ELSE builds[runtime[v][k]].hub.disk[k]
    IN [disk |-> [f \in VendoredFile |-> IF f \in Kernel THEN kernel(f) ELSE hub.disk[f]], manifest |-> hub.manifest]

\* A file that does not parse, or one of the hub without what is imported from
\* it by name, is a fatal startup error, at every start from then on.
startsExe ==
    /\ exe # Gone /\ daemon = NoDaemon
    /\ notUnpacked(exe) = {}
    /\ \A part \in RuntimePart \ {"packs"} : runtime[destRoot(exe)][part] # Cut
    /\ daemon' = [of |-> exe, hub |-> hubIn(destRoot(exe)), cache |-> Gone]
    /\ UNCHANGED <<config, vendored, packsDir, script, builds, exe, runtime, odd>> /\ ran' = Gone

\* Outside a build: node hub/index.mjs, in the tree the scripts work on.
startsTree ==
    /\ oddThing /\ exe = Gone /\ daemon = NoDaemon /\ importable(vendored.disk) /\ vendored.manifest # Gone
    /\ daemon' = [of |-> Tree, hub |-> vendored, cache |-> Gone]
    /\ UNCHANGED <<config, vendored, packsDir, script, builds, exe, runtime>> /\ ran' = Gone

stopsDaemon == /\ daemon # NoDaemon /\ daemon' = NoDaemon /\ ran' = Gone
               /\ UNCHANGED <<config, vendored, packsDir, script, builds, exe, runtime, odd>>

\* The first list or get reads packs/ as it is by then, and keeps it; a cut pack throws.
loadAll ==
    /\ daemon # NoDaemon /\ daemon.cache = Gone
    /\ daemon.of # Tree => runtime[destRoot(daemon.of)]["packs"] # Cut
    /\ daemon' = [daemon EXCEPT !.cache = IF daemon.of = Tree THEN packsDir
                                          ELSE builds[runtime[destRoot(daemon.of)]["packs"]].packs]
    /\ UNCHANGED <<config, vendored, packsDir, script, builds, exe, runtime, odd>> /\ ran' = Gone

getPack(c) == IF daemon.cache = Gone THEN Gone ELSE daemon.cache[c]

\* missingDataGateCheck asks the registry for every node nobody supplied, marked or not,
\* and takes any exception of compute for missing data.
gateCheck(tool, fed) == IF tool \notin listed(daemon.hub.disk) THEN "unknown"
                        ELSE IF fed /\ daemon.hub.disk[tool] # Empty THEN "open" ELSE "held"

\* A step of a run: started by a person, whose gate checks the data, or resumed, which checks none.
runsStep(c, tool, via, fed) ==
    /\ daemon # NoDaemon /\ getPack(c) # Gone
    /\ LET gate == IF via = "start" THEN gateCheck(tool, fed) ELSE "open"
           outcome == IF gate # "open" THEN gate ELSE runKernelNode(daemon.hub, tool, getPack(c).pins[tool], fed)
       IN ran' = [of |-> daemon.of, step |-> tool, fed |-> fed, pin |-> getPack(c).pins[tool], outcome |-> outcome,
                  bytes |-> IF outcome = "verified" THEN daemon.hub.disk[tool] ELSE Gone]
    /\ UNCHANGED <<config, vendored, packsDir, script, builds, exe, runtime, daemon, odd>>

----------------------------------------------------------------------------
PacksInit ==
    /\ config \in [pin : Commit \ Dropping, overlay : {{}}]
    /\ vendored = [disk |-> published(config.pin), manifest |-> [pinnedSha |-> config.pin, files |-> hashes(published(config.pin))]]
    /\ packsDir = [c \in Chain \union {"INDEX"} |-> Gone]
    /\ script = NoScript
    /\ builds = [v \in Build |-> Gone]
    /\ exe = Gone
    /\ runtime = [v \in Build |-> [part \in RuntimePart |-> Gone]]
    /\ daemon = NoDaemon
    /\ ran = Gone
    /\ odd = 0

PacksNext ==
    \/ vendor \/ vendorStep \/ writeOut \/ writeStep \/ scriptKilled
    \/ (\E c \in Commit : newPin(c)) \/ editsOverlay \/ (\E k \in Kernel : editsKernel(k)) \/ regeneratesManifest
    \/ release
    \/ (\E v \in Build : installs(v)) \/ extractRuntime
    \/ startsExe \/ startsTree \/ stopsDaemon \/ loadAll
    \/ \E c \in Chain : \E t \in toolsOf[c], via \in {"start", "resume"}, fed \in BOOLEAN : runsStep(c, t, via, fed)

PacksSpec == PacksInit /\ [][PacksNext]_packsVars

----------------------------------------------------------------------------
\* In a release, the pin of a kernel step is the digest of the file the site
\* published at the pinned commit, and a step that has its data runs that file
\* and is labelled kernel_verified: neither a kill between two writes of
\* vendor.mjs or compile-packs.mjs, nor a pin moved without either, nor an
\* edited kernel with a regenerated manifest gets through CI. On the user's
\* machine only a kill during the unpacking of that kernel comes in between:
\* then it is held or throws, or lacks an export behind those that were run.
VerifiedIsPublished ==
    ran # Gone /\ ran.of \in Build /\ ran.pin # Sentinel /\ ran.fed =>
        LET bytes == published(builds[ran.of].pin)[ran.step]
            unpacked == runtime[destRoot(ran.of)][ran.step]
        IN /\ ran.pin = sha256(bytes)
           /\ ran.outcome = "verified" => ran.bytes \in {bytes} \union ({unpacked} \cap {NoTail})
           /\ ran.outcome # "verified" => ran.outcome \in {"held", "threw"} /\ unpacked \in {Empty, NoArtifact}

\* "an in-place upgrade can't serve a mix of two builds' files": a daemon
\* started from a build runs that build's kernels, or what a kill has left of
\* one, under that build's manifest and reads that build's packs. In a tree
\* whose files change under it, what is labelled kernel_verified is what the
\* step's pack pins in the manifest the daemon has imported.
RunsOneBuild ==
    /\ daemon.of \in Build =>
          LET build == builds[daemon.of]
          IN /\ daemon.hub.manifest = build.hub.manifest
             /\ \A f \in VendoredFile : daemon.hub.disk[f] \in {build.hub.disk[f]} \union (IF f \in Kernel THEN Short ELSE {})
             /\ daemon.cache \in {Gone, build.packs}
    /\ ran # Gone /\ ran.outcome = "verified" => ran.pin = daemon.hub.manifest.files[ran.step]

\* From the site's repository to a result: what is labelled kernel_verified is
\* what was published, pinned and released, whoever was interrupted on the way.
KernelsAsPinned == VerifiedIsPublished /\ RunsOneBuild

\* What comments say and the code does not do: a pack that compiles is
\* guaranteed runnable (compile-packs.mjs), although the gate of a start asks
\* the registry for a marked node and throws; a gated pack is never shipped
\* ungated, although CI runs no --check and a changed overlay needs a compile;
\* extraction is idempotent (sea-entry.cjs), although a file that a kill has
\* cut counts as there; the pin of a node must match the vendored file's own
\* digest (kernel-runner.mjs), although only the manifest's is compared.
CompiledIsRunnable == ran # Gone /\ ran.of \in Build => ran.outcome \notin {"unknown", "mismatch"}
OverlayIsShipped ==
    \A v \in Build : builds[v] # Gone => \A c \in builds[v].overlay : builds[v].packs[c] # Gone => builds[v].packs[c].gated
ExtractionIsIdempotent == daemon.of \in Build => daemon.hub = builds[daemon.of].hub
PinIsOwnDigest == ran # Gone /\ ran.outcome = "verified" => ran.pin = sha256(ran.bytes)
=============================================================================
