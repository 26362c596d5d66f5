---------------------------- MODULE RecordProofs ----------------------------
(***************************************************************************)
(* What a browser's journal recovers, what a release pins, what a lineage  *)
(* and a sealed bundle show and what a matter keeps, for any number of     *)
(* frames, tabs, builds, rotations, bindings and faults.                   *)
(***************************************************************************)
EXTENDS JournalProofs, Packs, TabJournal, Lineage, Evidence, Matters, FiniteSetTheorems

-----------------------------------------------------------------------------
(* Packs and kernels. What CI lets through is all that is known of a       *)
(* build, and it is enough: the files are those of the pinned commit, the  *)
(* manifest hashes them, and every pin is a hash of the manifest. A build  *)
(* is unpacked into a directory of its own and never changes.              *)

Released(b) ==
    /\ b.pin \in Commit
    /\ \A f \in VendoredFile : published(b.pin)[f] # Gone => b.hub.disk[f] = published(b.pin)[f]
    /\ b.hub.manifest.files = hashes(b.hub.disk)
    /\ \A c \in Chain : b.packs[c] # Gone =>
          \A t \in toolsOf[c] : runKernelNode(b.hub, t, b.packs[c].pins[t], TRUE) \in {"verified", "skipped"}

MachineInv ==
    /\ exe # Gone => exe \in Build /\ builds[exe] # Gone
    /\ \A v \in Build, part \in RuntimePart :
          runtime[v][part] \in {Gone, Cut, v} \union (IF part \in Kernel THEN Short ELSE {})
    /\ runtime \in [Build -> [RuntimePart -> {Gone, Cut} \union Short \union Build]]

\* What the daemon has imported of a file is the build's, or what a kill left of a kernel.
Unpacks(f) ==
    \/ daemon.hub.disk[f] = builds[daemon.of].hub.disk[f]
    \/ f \in Kernel /\ daemon.hub.disk[f] \in Short /\ daemon.hub.disk[f] = runtime[daemon.of][f]

DaemonInv ==
    daemon.of \in Build =>
        /\ builds[daemon.of] # Gone /\ daemon.hub.manifest = builds[daemon.of].hub.manifest
        /\ \A f \in VendoredFile : Unpacks(f)
        /\ daemon.cache \in {Gone, builds[daemon.of].packs}
        /\ runtime[daemon.of]["packs"] # Gone

PacksInv ==
    /\ config \in [pin : Commit, overlay : SUBSET Chain]
    /\ builds = [v \in Build |-> builds[v]]
    /\ \A v \in Build : builds[v] # Gone => Released(builds[v])
    /\ daemon = [of |-> daemon.of, hub |-> daemon.hub, cache |-> daemon.cache]
    /\ daemon.of \in Build \union {Gone, Tree}
    /\ MachineInv /\ DaemonInv
    /\ KernelsAsPinned

\* Nothing is released, installed or running.
LEMMA PacksStart == PacksInit => PacksInv
<1> SUFFICES ASSUME PacksInit PROVE PacksInv
  OBVIOUS
<1>1. config \in [pin : Commit, overlay : SUBSET Chain]
  BY DEF PacksInit
<1>2. builds = [v \in Build |-> builds[v]] /\ \A v \in Build : builds[v] = Gone
  BY DEF PacksInit
<1>3. daemon = [of |-> daemon.of, hub |-> daemon.hub, cache |-> daemon.cache] /\ daemon.of = Gone
  BY DEF PacksInit, NoDaemon
<1>4. Gone \notin Build
  BY PacksAssumption DEF Build
<1>5. MachineInv
  BY DEF PacksInit, MachineInv
<1>6. DaemonInv /\ KernelsAsPinned
  BY <1>3, <1>4 DEF PacksInit, DaemonInv, KernelsAsPinned, VerifiedIsPublished, RunsOneBuild
<1>7. QED
  BY <1>1, <1>2, <1>3, <1>5, <1>6 DEF PacksInv

\* A step that leaves the user's machine and the releases alone.
LEMMA MachineAlone ==
    ASSUME PacksInv, config' \in [pin : Commit, overlay : SUBSET Chain], ran' = Gone,
           UNCHANGED <<builds, exe, runtime, daemon>>
    PROVE  PacksInv'
<1>1. MachineInv'
  BY DEF PacksInv, MachineInv
<1>2. DaemonInv'
  BY DEF PacksInv, DaemonInv, Unpacks
<1>3. KernelsAsPinned'
  BY DEF PacksInv, KernelsAsPinned, VerifiedIsPublished, RunsOneBuild
<1>4. (\A v \in Build : builds[v] # Gone => Released(builds[v]))'
  <2>1. \A v \in Build : builds'[v] # Gone => Released(builds'[v])
    BY DEF PacksInv
  <2>2. QED
    BY <2>1
<1>5. QED
  BY <1>1, <1>2, <1>3, <1>4 DEF PacksInv

\* A step that leaves the pin and the releases alone: what is left to show.
LEMMA ReleasesAlone ==
    ASSUME PacksInv, UNCHANGED <<config, builds>>, daemon' = [of |-> daemon'.of, hub |-> daemon'.hub, cache |-> daemon'.cache],
           daemon'.of \in Build \union {Gone, Tree}, MachineInv', DaemonInv', KernelsAsPinned'
    PROVE  PacksInv'
<1>1. builds' = [v \in Build |-> builds'[v]] /\ config' \in [pin : Commit, overlay : SUBSET Chain]
  BY DEF PacksInv
<1>2. (\A v \in Build : builds[v] # Gone => Released(builds[v]))'
  <2>1. \A v \in Build : builds[v] # Gone => Released(builds[v])
    BY DEF PacksInv
  <2>2. builds' = builds
    OBVIOUS
  <2>3. \A v \in Build : builds'[v] # Gone => Released(builds'[v])
    BY <2>1, <2>2
  <2>4. QED
    BY <2>3
<1>3. QED
  BY <1>1, <1>2 DEF PacksInv

\* CI lets a commit be released: the build is what CI has seen.
LEMMA ReleaseKeeps == ASSUME PacksInv, release PROVE PacksInv'
<1> DEFINE b == [hub |-> vendored, packs |-> packsDir, pin |-> config.pin, overlay |-> config.overlay]
<1>1. PICK v \in Build : builds[v] = Gone /\ builds' = [builds EXCEPT ![v] = b]
  BY DEF release
<1>2. b.hub = vendored /\ b.packs = packsDir /\ b.pin = config.pin
  OBVIOUS
<1>3. runCLI /\ runParityGate /\ ran' = Gone /\ UNCHANGED <<config, exe, runtime, daemon>>
  BY DEF release
<1> HIDE DEF b
<1>4. Released(b)
  BY <1>2, <1>3 DEF Released, runCLI, runParityGate, collectConfigDrivenIssues,
     collectUpstreamDriftIssues, PacksInv
<1>5. /\ builds' = [w \in Build |-> builds'[w]] /\ builds'[v] = b
      /\ \A w \in Build : w # v => builds'[w] = builds[w]
  BY <1>1 DEF PacksInv
<1>6. \A w \in Build : builds'[w] # Gone => Released(builds'[w])
  BY <1>4, <1>5 DEF PacksInv
<1>7. exe # v /\ daemon.of # v
  BY <1>1, PacksAssumption DEF PacksInv, MachineInv, DaemonInv, Build
<1>8. MachineInv' /\ DaemonInv'
  BY <1>3, <1>5, <1>7 DEF PacksInv, MachineInv, DaemonInv, Unpacks
<1>9. KernelsAsPinned'
  BY <1>3, <1>5, <1>7 DEF PacksInv, KernelsAsPinned, VerifiedIsPublished, RunsOneBuild
<1>10. QED
  BY <1>3, <1>5, <1>6, <1>8, <1>9 DEF PacksInv, Released, runKernelNode, listed, published, hashes, sha256

\* A program is installed and unpacked into its own directory.
LEMMA Unpacked ==
    ASSUME PacksInv, (\E v \in Build : installs(v)) \/ extractRuntime
    PROVE  PacksInv'
<1>0. UNCHANGED <<config, builds, daemon>> /\ ran' = Gone
  BY DEF installs, extractRuntime
<1>1. MachineInv'
  <2>1. CASE \E v \in Build : installs(v)
    BY <1>0, <2>1 DEF installs, PacksInv, MachineInv
  <2>2. CASE extractRuntime
    <3>1. exe \in Build /\ exe' = exe
      BY <2>2 DEF extractRuntime, PacksInv, MachineInv
    <3>a. PICK p \in RuntimePart : \E x \in {exe, Cut} \union (IF p \in Kernel THEN Short ELSE {}) :
             runtime' = [runtime EXCEPT ![exe][p] = x]
      <4>1. PICK p \in first(notUnpacked(exe)) :
               \/ runtime' = [runtime EXCEPT ![exe][p] = exe]
               \/ \E cut \in {Cut} \union (IF p \in Kernel THEN Short ELSE {}) : runtime' = [runtime EXCEPT ![exe][p] = cut]
        BY <2>2 DEF extractRuntime, destRoot
      <4>2. p \in RuntimePart
        <5>1. notUnpacked(exe) \subseteq RuntimePart
          BY DEF notUnpacked
        <5>2. p \in notUnpacked(exe)
          BY <4>1 DEF first
        <5>3. QED
          BY <5>1, <5>2
      <4>3. QED
        BY <4>1, <4>2
    <3>2. PICK x \in {exe, Cut} \union (IF p \in Kernel THEN Short ELSE {}) : runtime' = [runtime EXCEPT ![exe][p] = x]
      BY <3>a
    <3>3. runtime' \in [Build -> [RuntimePart -> {Gone, Cut} \union Short \union Build]]
      BY <3>1, <3>2 DEF PacksInv, MachineInv
    <3>4. \A w \in Build, q \in RuntimePart : runtime'[w][q] = IF w = exe /\ q = p THEN x ELSE runtime[w][q]
      BY <3>1, <3>2 DEF PacksInv, MachineInv
    <3>5. QED
      BY <1>0, <3>1, <3>2, <3>3, <3>4 DEF PacksInv, MachineInv
  <2>3. QED
    BY <2>1, <2>2
<1>2. DaemonInv'
  <2>1. CASE \E v \in Build : installs(v)
    BY <1>0, <2>1 DEF installs, PacksInv, DaemonInv, Unpacks
  <2>2. CASE extractRuntime
    <3>1. daemon.of = Gone
      BY <2>2 DEF extractRuntime, NoDaemon
    <3>2. QED
      BY <1>0, <3>1, PacksAssumption DEF DaemonInv, Build
  <2>3. QED
    BY <2>1, <2>2
<1>3. KernelsAsPinned'
  BY <1>0 DEF PacksInv, KernelsAsPinned, VerifiedIsPublished, RunsOneBuild
<1>4. /\ daemon' = [of |-> daemon'.of, hub |-> daemon'.hub, cache |-> daemon'.cache]
      /\ daemon'.of \in Build \union {Gone, Tree}
  BY <1>0 DEF PacksInv
<1>5. QED
  BY <1>0, <1>1, <1>2, <1>3, <1>4, ReleasesAlone

\* The daemon starts, reads its packs or stops.
LEMMA DaemonLives ==
    ASSUME PacksInv, startsExe \/ startsTree \/ stopsDaemon \/ loadAll
    PROVE  PacksInv'
<1>0. UNCHANGED <<config, builds, exe, runtime>> /\ ran' = Gone /\ Gone \notin Build /\ Tree \notin Build
      /\ MachineInv'
  BY PacksAssumption DEF startsExe, startsTree, stopsDaemon, loadAll, Build, PacksInv, MachineInv
<1>1. /\ daemon' = [of |-> daemon'.of, hub |-> daemon'.hub, cache |-> daemon'.cache]
      /\ daemon'.of \in Build \union {Gone, Tree} /\ DaemonInv'
  <2>1. CASE startsExe
    <3>1. /\ daemon' = [of |-> exe, hub |-> hubIn(exe), cache |-> Gone] /\ exe # Gone /\ notUnpacked(exe) = {}
          /\ \A part \in RuntimePart \ {"packs"} : runtime[exe][part] # Cut
      BY <2>1 DEF startsExe, destRoot
    <3>2. exe \in Build /\ builds[exe] # Gone
      BY <3>1 DEF PacksInv, MachineInv
    <3>3. /\ \A part \in RuntimePart : runtime[exe][part] = Gone => part \in Kernel /\ builds[exe].hub.disk[part] = Gone
          /\ \A part \in RuntimePart \ {"packs"} :
                runtime[exe][part] \in {Gone, exe} \union (IF part \in Kernel THEN Short ELSE {})
      BY <3>1, <3>2 DEF notUnpacked, destRoot, PacksInv, MachineInv
    <3>4. runtime[exe]["hub"] = exe /\ runtime[exe]["packs"] # Gone
      BY <3>3 DEF RuntimePart, Kernel
    <3>5. daemon'.hub.manifest = builds[exe].hub.manifest
      BY <3>1, <3>4 DEF hubIn
    <3>6. ASSUME NEW f \in VendoredFile PROVE Unpacks(f)'
      <4>1. daemon'.hub.disk[f] = IF f \notin Kernel THEN builds[exe].hub.disk[f]
                ELSE IF runtime[exe][f] \in {Gone} \union Short THEN runtime[exe][f] ELSE builds[runtime[exe][f]].hub.disk[f]
        BY <3>1, <3>4 DEF hubIn
      <4>2. f \in Kernel => f \in RuntimePart \ {"packs"}
        BY DEF RuntimePart, Kernel
      <4>3. daemon'.of = exe
        BY <3>1
      <4>4. QED
        BY <1>0, <3>3, <4>1, <4>2, <4>3 DEF Unpacks
    <3>7. QED
      BY <1>0, <3>1, <3>2, <3>4, <3>5, <3>6 DEF DaemonInv
  <2>2. CASE startsTree
    <3>1. daemon' = [of |-> Tree, hub |-> vendored, cache |-> Gone]
      BY <2>2 DEF startsTree
    <3>2. QED
      BY <1>0, <3>1 DEF DaemonInv
  <2>3. CASE stopsDaemon
    <3>1. daemon' = [of |-> Gone, hub |-> Gone, cache |-> Gone]
      BY <2>3 DEF stopsDaemon, NoDaemon
    <3>2. QED
      BY <1>0, <3>1 DEF DaemonInv
  <2>4. CASE loadAll
    <3> DEFINE read == IF daemon.of = Tree THEN packsDir ELSE builds[runtime[daemon.of]["packs"]].packs
    <3>1. daemon' = [daemon EXCEPT !.cache = read] /\ (daemon.of # Tree => runtime[daemon.of]["packs"] # Cut)
      BY <2>4 DEF loadAll, destRoot
    <3>2. daemon'.of = daemon.of /\ daemon'.hub = daemon.hub /\ daemon'.cache = read
          /\ daemon' = [of |-> daemon'.of, hub |-> daemon'.hub, cache |-> daemon'.cache]
      BY <3>1 DEF PacksInv
    <3>3. daemon.of \in Build => read = builds[daemon.of].packs
      BY <1>0, <3>1 DEF PacksInv, MachineInv, DaemonInv, RuntimePart, Kernel
    <3> HIDE DEF read
    <3>4. QED
      BY <1>0, <3>2, <3>3 DEF PacksInv, DaemonInv, Unpacks
  <2>5. QED
    BY <2>1, <2>2, <2>3, <2>4
<1>2. KernelsAsPinned'
  BY <1>0, <1>1 DEF KernelsAsPinned, VerifiedIsPublished, RunsOneBuild, DaemonInv, Unpacks
<1>3. QED
  BY <1>0, <1>1, <1>2, ReleasesAlone

\* A step of a run. In a build the pin of the step is a hash of the manifest,
\* because CI has run the step; the kernel it names is listed, so the site
\* published it at the pinned commit, and the file is that one.
LEMMA RunKeeps ==
    ASSUME PacksInv, NEW c \in Chain, NEW t \in toolsOf[c], NEW via \in {"start", "resume"}, NEW fed \in BOOLEAN,
           runsStep(c, t, via, fed)
    PROVE  PacksInv'
<1>0. UNCHANGED <<config, builds, exe, runtime, daemon>>
  BY DEF runsStep
<1> DEFINE pin == daemon.cache[c].pins[t]
           ranAs == runKernelNode(daemon.hub, t, pin, fed)
           gate == IF via = "start" THEN gateCheck(t, fed) ELSE "open"
           outcome == IF gate # "open" THEN gate ELSE ranAs
           bytes == IF outcome = "verified" THEN daemon.hub.disk[t] ELSE Gone
<1>1. /\ daemon.cache # Gone /\ daemon.cache[c] # Gone
      /\ ran' = [of |-> daemon.of, step |-> t, fed |-> fed, pin |-> pin, outcome |-> outcome, bytes |-> bytes]
  BY DEF runsStep, getPack
<1>2. /\ ran'.of = daemon.of /\ ran'.step = t /\ ran'.fed = fed /\ ran'.pin = pin
      /\ ran'.outcome = outcome /\ ran'.bytes = bytes
  BY <1>1
<1>3. outcome = "verified" => ranAs = "verified"
  BY DEF gateCheck
<1>4. ranAs = "verified" => pin = daemon.hub.manifest.files[t]
  BY DEF runKernelNode
<1>5. RunsOneBuild'
  BY <1>0, <1>2, <1>3, <1>4 DEF PacksInv, KernelsAsPinned, RunsOneBuild
<1>6. ASSUME daemon.of \in Build, pin # Sentinel, fed
      PROVE  LET code == published(builds[daemon.of].pin)[t]
                 unpacked == runtime[daemon.of][t]
             IN /\ pin = sha256(code)
                /\ outcome = "verified" => bytes \in {code} \union ({unpacked} \cap {NoTail})
                /\ outcome # "verified" => outcome \in {"held", "threw"} /\ unpacked \in {Empty, NoArtifact}
  <2> DEFINE b == builds[daemon.of]
             code == published(b.pin)[t]
             copy == daemon.hub.disk[t]
  <2>1. /\ Released(b) /\ daemon.hub.manifest = b.hub.manifest /\ daemon.cache = b.packs
        /\ \A f \in VendoredFile : Unpacks(f)
    BY <1>1, <1>6 DEF PacksInv, DaemonInv
  <2>2. /\ daemon.hub.disk["registry"] = b.hub.disk["registry"]
        /\ \A f \in Kernel : (daemon.hub.disk[f] = b.hub.disk[f] \/ (daemon.hub.disk[f] \in Short /\ daemon.hub.disk[f] = runtime[daemon.of][f]))
    BY <2>1 DEF Unpacks, VendoredFile, Kernel
  <2> HIDE DEF b
  <2>3. runKernelNode(b.hub, t, pin, TRUE) \in {"verified", "skipped"}
    BY <1>1, <2>1 DEF Released
  <2>4. /\ t \in listed(b.hub.disk) /\ b.hub.manifest.files[t] = pin /\ pin # Gone
        /\ b.hub.disk[t] \notin {Empty, NoArtifact}
    BY <1>6, <2>3 DEF runKernelNode
  <2>5. b.hub.disk["registry"] = published(b.pin)["registry"] /\ published(b.pin)["registry"].of = b.pin
    <3>1. published(b.pin)["registry"] = [of |-> b.pin, file |-> "registry"]
      BY DEF published, VendoredFile
    <3>2. published(b.pin)["registry"] # Gone
      BY <2>1, <3>1, PacksAssumption DEF Released
    <3>3. QED
      BY <2>1, <3>1, <3>2 DEF Released, VendoredFile
  <2>6. t \in Kernel /\ code # Gone
    BY <2>4, <2>5 DEF listed
  <2>7. b.hub.disk[t] = code /\ t \in VendoredFile
    BY <2>1, <2>6 DEF Released, VendoredFile
  <2>8. pin = sha256(code)
    BY <2>1, <2>4, <2>7 DEF Released, hashes
  <2>9. t \in listed(daemon.hub.disk) /\ daemon.hub.manifest.files[t] = pin
    BY <2>1, <2>2, <2>4 DEF listed
  <2>10. outcome = IF via = "start" /\ copy = Empty THEN "held"
                   ELSE IF copy \notin {Empty, NoArtifact} THEN "verified" ELSE "threw"
    BY <1>6, <2>4, <2>9 DEF gateCheck, runKernelNode
  <2>11. copy = code \/ (copy \in Short /\ copy = runtime[daemon.of][t])
    BY <2>2, <2>6, <2>7
  <2>12. bytes = IF outcome = "verified" THEN copy ELSE Gone
    OBVIOUS
  <2> HIDE DEF outcome, bytes, pin, code, copy
  <2>13. code \notin {Empty, NoArtifact}
    BY <2>4, <2>7
  <2>14. QED
    <3>1. CASE copy = code
      BY <2>8, <2>10, <2>12, <2>13, <3>1 DEF b, code
    <3>2. CASE copy \in Short /\ copy = runtime[daemon.of][t]
      BY <2>8, <2>10, <2>12, <3>2 DEF b, code, Short
    <3>3. QED
      BY <2>11, <3>1, <3>2
<1>7. VerifiedIsPublished'
  <2> HIDE DEF pin, outcome, bytes
  <2>1. QED
    BY <1>0, <1>2, <1>6 DEF VerifiedIsPublished, published, sha256, destRoot
<1>8. /\ daemon' = [of |-> daemon'.of, hub |-> daemon'.hub, cache |-> daemon'.cache]
      /\ daemon'.of \in Build \union {Gone, Tree} /\ MachineInv' /\ DaemonInv'
  BY <1>0 DEF PacksInv, MachineInv, DaemonInv, Unpacks
<1>9. QED
  BY <1>0, <1>5, <1>7, <1>8, ReleasesAlone DEF KernelsAsPinned

\* The scripts, the edits and CI work on a tree that no installed program reads.
LEMMA PacksStep == ASSUME PacksInv, [PacksNext]_packsVars PROVE PacksInv'
<1>1. CASE \/ vendor \/ vendorStep \/ writeOut \/ writeStep \/ scriptKilled
           \/ (\E k \in Kernel : editsKernel(k)) \/ regeneratesManifest
  <2>1. UNCHANGED <<config, builds, exe, runtime, daemon>> /\ ran' = Gone
    BY <1>1 DEF vendor, vendorStep, writeOut, writeStep, scriptKilled, editsKernel, regeneratesManifest
  <2>2. config' \in [pin : Commit, overlay : SUBSET Chain]
    BY <2>1 DEF PacksInv
  <2>3. QED
    BY <2>1, <2>2, MachineAlone
<1>2. CASE (\E c \in Commit : newPin(c)) \/ editsOverlay
  <2>1. UNCHANGED <<builds, exe, runtime, daemon>> /\ ran' = Gone
    BY <1>2 DEF newPin, editsOverlay
  <2>2. config' \in [pin : Commit, overlay : SUBSET Chain]
    BY <1>2 DEF newPin, editsOverlay, PacksInv, Chain
  <2>3. QED
    BY <2>1, <2>2, MachineAlone
<1>3. CASE release
  BY <1>3, ReleaseKeeps
<1>4. CASE (\E v \in Build : installs(v)) \/ extractRuntime
  BY <1>4, Unpacked
<1>5. CASE startsExe \/ startsTree \/ stopsDaemon \/ loadAll
  BY <1>5, DaemonLives
<1>6. CASE \E c \in Chain : \E t \in toolsOf[c], via \in {"start", "resume"}, fed \in BOOLEAN : runsStep(c, t, via, fed)
  BY <1>6, RunKeeps
<1>7. CASE UNCHANGED packsVars
  <2>1. UNCHANGED <<config, builds, exe, runtime, daemon, ran>>
    BY <1>7 DEF packsVars
  <2>2. /\ daemon' = [of |-> daemon'.of, hub |-> daemon'.hub, cache |-> daemon'.cache]
        /\ daemon'.of \in Build \union {Gone, Tree} /\ MachineInv' /\ DaemonInv'
    BY <2>1 DEF PacksInv, MachineInv, DaemonInv, Unpacks
  <2>3. KernelsAsPinned'
    BY <2>1 DEF PacksInv, KernelsAsPinned, VerifiedIsPublished, RunsOneBuild, published, sha256
  <2>4. QED
    BY <2>1, <2>2, <2>3, ReleasesAlone
<1>8. QED
  BY <1>1, <1>2, <1>3, <1>4, <1>5, <1>6, <1>7 DEF PacksNext

\* In a release, what is labelled kernel_verified is the file published at the
\* pinned commit under the digest its pack pins, and a daemon runs one build:
\* whatever script was killed, pin moved or kernel edited on the way.
THEOREM KernelsPinned == PacksSpec => []KernelsAsPinned
<1>1. PacksInv => KernelsAsPinned
  BY DEF PacksInv
<1>2. QED
  BY PacksStart, PacksStep, <1>1, PTL DEF PacksSpec
-----------------------------------------------------------------------------
(* The browser's journal. The access handle, not the lock, keeps writers   *)
(* apart. A worker that holds it and has written nothing before it had     *)
(* read the file counts as valid exactly the frames of the file, so its    *)
(* frames land behind the last one; a worker that has, has spoiled         *)
(* whatever was answered before.                                           *)

Sound(f) == \A i \in 1..Len(f) : f[i] # 0

TabTypeOK ==
    /\ file \in Seq(Nat) /\ buffer \in Seq(Nat) /\ made \in Nat /\ early \in BOOLEAN
    /\ worker \in [Page -> {"none", "init", "opening", "opened", "ready", "failed", "closing"}]
    /\ validEnd \in [Page -> Nat] /\ encoding \in [Page -> SUBSET (Nat \ {0})]

\* What the worker of t relies on when it writes next.
Writer(t) ==
    /\ handle = t
    /\ early => acked \subseteq spoiled
    /\ worker[t] = "opening" => Len(buffer) <= Len(file) /\ (~early => file = buffer)
    /\ worker[t] # "opening" /\ ~early => validEnd[t] = Len(file) /\ Sound(file)
OneWriter == \A t \in Page : Writes(t) => Writer(t)

TabInv == TabTypeOK /\ OneWriter /\ AckedIsRecovered

\* No file, no worker, nothing answered.
LEMMA TabStart == TabInit => TabInv
<1> SUFFICES ASSUME TabInit PROVE TabInv
  OBVIOUS
<1>1. acked = {} /\ \A t \in Page : ~Writes(t)
  BY DEF TabInit, Writes
<1>2. TabTypeOK
  <2>1. file \in Seq(Nat) /\ buffer \in Seq(Nat)
    BY DEF TabInit
  <2>2. /\ worker = [t \in Page |-> "none"] /\ validEnd = [t \in Page |-> 0]
        /\ encoding = [t \in Page |-> {}] /\ made = 0 /\ early = FALSE
    BY DEF TabInit
  <2>3. QED
    BY <2>1, <2>2 DEF TabTypeOK
<1>3. QED
  BY <1>1, <1>2 DEF TabInv, OneWriter, AckedIsRecovered

\* Wherever a frame is placed, there is a file of frames.
LEMMA PlacedSomewhere ==
    ASSUME TabTypeOK, NEW t \in Page, NEW e \in Nat
    PROVE  /\ placed(t, e) \in Seq(Nat) /\ Len(file) <= Len(placed(t, e))
           /\ at(t) \in DOMAIN file => overwritten(t, e) \in Seq(Nat) /\ Len(file) <= Len(overwritten(t, e))
<1>1. at(t) \in Nat \ {0} /\ Len(file) \in Nat /\ DOMAIN file = 1..Len(file) /\ \A i \in 1..Len(file) : file[i] \in Nat
  BY DEF at, TabTypeOK
<1>2. placed(t, e) \in Seq(Nat) /\ Len(file) <= Len(placed(t, e))
  <2> DEFINE n == IF at(t) > Len(file) THEN at(t) ELSE Len(file)
  <2>1. n \in Nat /\ Len(file) <= n
    BY <1>1
  <2>2. placed(t, e) = [i \in 1..n |-> IF i = at(t) THEN e ELSE IF i \in DOMAIN file THEN file[i] ELSE 0]
    BY DEF placed
  <2> HIDE DEF n
  <2>3. \A i \in 1..n : (IF i = at(t) THEN e ELSE IF i \in DOMAIN file THEN file[i] ELSE 0) \in Nat
    BY <1>1
  <2>4. QED
    BY <2>1, <2>2, <2>3
<1>3. ASSUME at(t) \in DOMAIN file PROVE overwritten(t, e) \in Seq(Nat) /\ Len(file) <= Len(overwritten(t, e))
  <2> DEFINE n == IF at(t) >= Len(file) THEN at(t) + 1 ELSE Len(file)
  <2>1. n \in Nat /\ Len(file) <= n
    BY <1>1
  <2>2. overwritten(t, e) = [i \in 1..n |-> IF i = at(t) THEN e ELSE IF i = at(t) + 1 \/ i \notin DOMAIN file THEN 0 ELSE file[i]]
    BY DEF overwritten
  <2> HIDE DEF n
  <2>3. \A i \in 1..n : (IF i = at(t) THEN e ELSE IF i = at(t) + 1 \/ i \notin DOMAIN file THEN 0 ELSE file[i]) \in Nat
    BY <1>1
  <2>4. QED
    BY <2>1, <2>2, <2>3
<1>4. QED
  BY <1>2, <1>3

\* A frame placed behind a file that its worker counts to the end.
LEMMA PlacedLast ==
    ASSUME TabTypeOK, NEW t \in Page, validEnd[t] = Len(file), NEW e \in Nat
    PROVE  /\ Len(placed(t, e)) = Len(file) + 1 /\ placed(t, e)[Len(file) + 1] = e
           /\ \A i \in 1..Len(file) : placed(t, e)[i] = file[i]
<1>1. at(t) = Len(file) + 1 /\ Len(file) \in Nat /\ DOMAIN file = 1..Len(file)
  BY DEF at, TabTypeOK
<1>2. placed(t, e) = [i \in 1..(Len(file) + 1) |-> IF i = Len(file) + 1 THEN e ELSE IF i \in 1..Len(file) THEN file[i] ELSE 0]
  BY <1>1 DEF placed
<1>3. \A i \in 1..Len(file) : file[i] \in Nat
  BY DEF TabTypeOK
<1>4. QED
  BY <1>1, <1>2, <1>3

\* Opening keeps the frames before the first that does not check.
LEMMA ScanFinds ==
    ASSUME NEW f \in Seq(Nat)
    PROVE  LET n == scanRecords(f) IN
           /\ n \in 0..Len(f) /\ \A i \in 1..n : f[i] # 0
           /\ n = Len(f) \/ f[n + 1] = 0
<1> DEFINE Stops == {n \in Nat : n <= Len(f) /\ (n = Len(f) \/ f[n + 1] = 0)}
<1>1. Len(f) \in Stops
  OBVIOUS
<1>2. PICK n \in Stops : \A m \in Stops : n <= m
  BY <1>1, LeastNat
<1>3. ASSUME NEW i \in 1..n, f[i] = 0 PROVE FALSE
  <2>1. i - 1 \in Nat /\ i - 1 <= Len(f) /\ (i - 1) + 1 = i /\ i - 1 < n /\ n \in Nat
    BY <1>2
  <2>2. i - 1 \in Stops
    BY <1>3, <2>1
  <2>3. n <= i - 1
    BY <1>2, <2>2
  <2> HIDE DEF Stops
  <2>4. QED
    BY <2>1, <2>3
<1>4. n \in 0..Len(f) /\ \A i \in 1..n : f[i] # 0
  BY <1>2, <1>3
<1>5. \E m \in 0..Len(f) : (\A i \in 1..m : f[i] # 0) /\ (m = Len(f) \/ f[m + 1] = 0)
  BY <1>2, <1>4
<1>6. QED
  BY <1>5 DEF scanRecords

\* A file that goes on as before, or further, still holds what it held.
LEMMA LongerRecovers ==
    ASSUME NEW f \in Seq(Nat), NEW g \in Seq(Nat), Len(f) <= Len(g),
           \A i \in 1..Len(f) : g[i] = f[i], NEW e, Recoverable(f, e)
    PROVE  Recoverable(g, e)
<1>1. PICK i \in 1..Len(f) : f[i] = e /\ \A j \in 1..i : f[j] # 0
  BY DEF Recoverable
<1>2. i \in 1..Len(g) /\ \A j \in 1..i : j \in 1..Len(f)
  <2>1. Len(f) \in Nat /\ Len(g) \in Nat /\ i \in Nat /\ 1 <= i /\ i <= Len(f)
    OBVIOUS
  <2>2. QED
    BY <2>1
<1>3. g[i] = e /\ \A j \in 1..i : g[j] # 0
  BY <1>1, <1>2
<1>4. QED
  BY <1>2, <1>3 DEF Recoverable

\* Cutting a file behind its last good frame leaves within reach what was.
LEMMA CutRecovers ==
    ASSUME NEW f \in Seq(Nat), NEW n \in 0..Len(f), n = Len(f) \/ f[n + 1] = 0, NEW e, Recoverable(f, e)
    PROVE  Recoverable(SubSeq(f, 1, n), e)
<1>1. PICK i \in 1..Len(f) : f[i] = e /\ \A j \in 1..i : f[j] # 0
  BY DEF Recoverable
<1>2. Len(f) \in Nat /\ n \in Nat /\ i <= n
  BY <1>1
<1>3. Len(SubSeq(f, 1, n)) = n /\ \A j \in 1..n : SubSeq(f, 1, n)[j] = f[j]
  BY <1>2
<1>4. i \in 1..n /\ \A j \in 1..i : j \in 1..n
  BY <1>2
<1>5. QED
  BY <1>1, <1>3, <1>4 DEF Recoverable

\* The file and what was answered stay, and whoever still writes relies on the same.
LEMMA WorkersAlone ==
    ASSUME TabInv, TabTypeOK', UNCHANGED <<file, acked, readVars>>,
           \A t \in Page : Writes(t)' => /\ Writes(t) /\ handle' = handle /\ validEnd'[t] = validEnd[t]
                                         /\ (worker'[t] = "opening" <=> worker[t] = "opening")
    PROVE  TabInv'
  BY DEF TabInv, OneWriter, Writer, AckedIsRecovered, Recoverable, Sound, readVars

\* A tab that ends takes its worker and its handle with it.
LEMMA TabDies ==
    ASSUME TabInv, NEW t \in Page, dies(t)
    PROVE  /\ \A u \in Page : Writes(u)' => /\ u # t /\ Writes(u) /\ validEnd'[u] = validEnd[u] /\ handle' = handle
                                            /\ worker'[u] = worker[u]
           /\ worker' \in [Page -> {"none", "init", "opening", "opened", "ready", "failed", "closing"}]
           /\ validEnd' \in [Page -> Nat] /\ encoding' \in [Page -> SUBSET (Nat \ {0})]
<1>1. /\ worker' = [worker EXCEPT ![t] = "none"] /\ encoding' = [encoding EXCEPT ![t] = {}]
      /\ validEnd' = [validEnd EXCEPT ![t] = 0]
      /\ handle' = (IF handle = t THEN Vacant ELSE handle)
  BY DEF dies
<1>2. \A u \in Page : Writes(u)' => u # t /\ Writes(u) /\ validEnd'[u] = validEnd[u] /\ worker'[u] = worker[u]
  BY <1>1 DEF Writes, TabInv, TabTypeOK
<1>3. \A u \in Page : Writes(u) /\ u # t => handle # t
  BY DEF TabInv, OneWriter, Writer
<1>4. QED
  BY <1>1, <1>2, <1>3 DEF TabInv, TabTypeOK

\* The worker takes the handle and reads.
LEMMA OpensHandle == ASSUME TabInv, NEW t \in Page, openHandle(t) PROVE TabInv'
<1>1. CASE handle = Vacant
  <2>1. /\ handle' = t /\ worker' = [worker EXCEPT ![t] = "opening"] /\ buffer' = file /\ early' = FALSE
        /\ validEnd' = [validEnd EXCEPT ![t] = 0]
        /\ UNCHANGED <<file, encoding, made, acked, spoiled>>
    BY <1>1 DEF openHandle
  <2>2. TabTypeOK'
    BY <2>1 DEF TabInv, TabTypeOK
  <2>3. \A u \in Page : ~Writes(u)
    BY <1>1, TabAssumption DEF TabInv, OneWriter, Writer
  <2>4. \A u \in Page : Writes(u)' => u = t
    BY <2>1, <2>3 DEF Writes, TabInv, TabTypeOK
  <2>5. Len(file) \in Nat /\ worker'[t] = "opening"
    BY <2>1 DEF TabInv, TabTypeOK
  <2>6. Writer(t)'
    BY <2>1, <2>5 DEF Writer
  <2>7. QED
    BY <2>1, <2>2, <2>4, <2>6 DEF TabInv, OneWriter, AckedIsRecovered, Recoverable
<1>2. CASE handle # Vacant
  <2>1. /\ worker' = [worker EXCEPT ![t] = "failed"]
        /\ UNCHANGED <<file, handle, validEnd, encoding, made, acked, readVars>>
    BY <1>2 DEF openHandle, readVars
  <2>2. TabTypeOK' /\ \A u \in Page : Writes(u)' => Writes(u) /\ worker'[u] = worker[u]
    BY <2>1 DEF TabInv, TabTypeOK, Writes, readVars
  <2>3. QED
    BY <2>1, <2>2, WorkersAlone
<1>3. QED
  BY <1>1, <1>2

\* The worker has scanned what it read, and cuts the file.
LEMMA Scans == ASSUME TabInv, NEW t \in Page, scanned(t) PROVE TabInv'
<1> DEFINE n == scanRecords(buffer)
<1>1. /\ worker[t] = "opening" /\ worker' = [worker EXCEPT ![t] = "opened"]
      /\ file' = (IF n < Len(buffer) THEN SubSeq(file, 1, n) ELSE file)
      /\ validEnd' = [validEnd EXCEPT ![t] = n] /\ UNCHANGED <<handle, encoding, made, acked, buffer, early, spoiled>>
  BY DEF scanned, readVars
<1>2. buffer \in Seq(Nat) /\ file \in Seq(Nat) /\ Len(file) \in Nat /\ Len(buffer) \in Nat
  BY DEF TabInv, TabTypeOK
<1>3. /\ n \in 0..Len(buffer) /\ \A i \in 1..n : buffer[i] # 0
      /\ n = Len(buffer) \/ buffer[n + 1] = 0
  BY <1>2, ScanFinds
<1> HIDE DEF n
<1>4. Writer(t)
  BY <1>1 DEF TabInv, OneWriter, Writes
<1>5. n \in 0..Len(file) /\ n \in Nat
  BY <1>1, <1>2, <1>3, <1>4 DEF Writer
<1>6. file' \in Seq(Nat)
  <2>1. \A f \in Seq(Nat) : \A m \in 0..Len(f) : SubSeq(f, 1, m) \in Seq(Nat)
    OBVIOUS
  <2>2. QED
    BY <1>1, <1>2, <1>5, <2>1
<1>7. TabTypeOK'
  BY <1>1, <1>5, <1>6 DEF TabInv, TabTypeOK
<1>8. ASSUME ~early PROVE file' = SubSeq(file, 1, n) /\ Len(file') = n /\ Sound(file') /\ (n = Len(file) \/ file[n + 1] = 0)
  <2>1. file = buffer
    BY <1>1, <1>4, <1>8 DEF Writer
  <2>2. file' = SubSeq(file, 1, n)
    BY <1>1, <1>2, <1>3, <2>1
  <2>3. Len(file') = n /\ \A i \in 1..n : file'[i] = file[i]
    <3>1. \A f \in Seq(Nat) : \A m \in 0..Len(f) : Len(SubSeq(f, 1, m)) = m /\ \A i \in 1..m : SubSeq(f, 1, m)[i] = f[i]
      OBVIOUS
    <3>2. QED
      BY <1>2, <1>5, <2>2, <3>1
  <2>4. QED
    BY <1>3, <2>1, <2>2, <2>3 DEF Sound
<1>9. \A u \in Page : Writes(u)' => u = t
  BY <1>1, <1>4 DEF Writes, TabInv, OneWriter, Writer, TabTypeOK
<1>10. worker'[t] = "opened" /\ validEnd'[t] = n
  BY <1>1 DEF TabInv, TabTypeOK
<1>11. Writer(t)'
  BY <1>1, <1>4, <1>8, <1>10 DEF Writer
<1>12. AckedIsRecovered'
  <2>1. CASE early
    BY <1>1, <1>4, <2>1 DEF Writer, AckedIsRecovered
  <2>2. CASE ~early
    <3>1. ASSUME NEW e \in acked \ spoiled PROVE Recoverable(SubSeq(file, 1, n), e)
      <4>1. Recoverable(file, e)
        BY DEF TabInv, AckedIsRecovered
      <4>2. QED
        BY <1>2, <1>5, <1>8, <2>2, <4>1, CutRecovers
    <3>2. QED
      BY <1>1, <1>8, <2>2, <3>1 DEF AckedIsRecovered
  <2>3. QED
    BY <2>1, <2>2
<1>13. QED
  BY <1>7, <1>9, <1>11, <1>12 DEF TabInv, OneWriter

\* A frame is written and answered: behind the last one, or early.
LEMMA WritesFrame == ASSUME TabInv, NEW t \in Page, NEW e \in encoding[t], writes(t, e) PROVE TabInv'
<1>1. /\ Writes(t) /\ validEnd' = [validEnd EXCEPT ![t] = @ + 1]
      /\ encoding' = [encoding EXCEPT ![t] = @ \ {e}] /\ acked' = acked \union {e}
      /\ early' = writtenEarly(t) /\ UNCHANGED <<handle, worker, made, buffer>>
      /\ file' = placed(t, e) \/ (writtenEarly(t) /\ at(t) \in DOMAIN file /\ file' = overwritten(t, e))
      /\ spoiled' = (IF writtenEarly(t) THEN spoiled \union acked \union {e} ELSE spoiled)
  BY DEF writes
<1>2. Writer(t) /\ e \in Nat \ {0} /\ file \in Seq(Nat) /\ Len(file) \in Nat
  BY <1>1 DEF TabInv, OneWriter, TabTypeOK
<1>3. file' \in Seq(Nat) /\ Len(file) <= Len(file')
  BY <1>1, <1>2, PlacedSomewhere DEF TabInv
<1>4. TabTypeOK' /\ validEnd'[t] = validEnd[t] + 1
  <2>1. writtenEarly(t) \in BOOLEAN
    BY DEF writtenEarly, TabInv, TabTypeOK
  <2>2. QED
    BY <1>1, <1>3, <2>1 DEF TabInv, TabTypeOK
<1>5. \A u \in Page : Writes(u)' => u = t
  BY <1>1, <1>2 DEF Writes, TabInv, OneWriter, Writer
<1>6. CASE writtenEarly(t)
  <2>1. early' /\ acked' \subseteq spoiled'
    BY <1>1, <1>6
  <2>2. worker[t] = "opening" => Len(buffer) <= Len(file')
    <3>1. Len(buffer) \in Nat /\ Len(file') \in Nat
      BY <1>3 DEF TabInv, TabTypeOK
    <3>2. QED
      BY <1>2, <1>3, <3>1 DEF Writer
  <2>3. Writer(t)'
    BY <1>1, <1>2, <2>1, <2>2 DEF Writer
  <2>4. QED
    BY <1>4, <1>5, <2>1, <2>3 DEF TabInv, OneWriter, AckedIsRecovered
<1>7. CASE ~writtenEarly(t)
  <2>1. file' = placed(t, e) /\ ~early /\ worker[t] # "opening" /\ spoiled' = spoiled /\ ~early'
    BY <1>1, <1>7 DEF writtenEarly
  <2>2. validEnd[t] = Len(file) /\ Sound(file)
    BY <1>2, <2>1 DEF Writer
  <2>3. /\ Len(file') = Len(file) + 1 /\ file'[Len(file) + 1] = e
        /\ \A i \in 1..Len(file) : file'[i] = file[i]
    BY <1>2, <2>1, <2>2, PlacedLast DEF TabInv
  <2>4. Sound(file')
    <3>1. ASSUME NEW i \in 1..Len(file') PROVE file'[i] # 0
      <4>1. i \in 1..Len(file) \/ i = Len(file) + 1
        BY <1>2, <2>3
      <4>2. QED
        BY <1>2, <2>2, <2>3, <4>1 DEF Sound
    <3>2. QED
      BY <3>1 DEF Sound
  <2>5. Writer(t)'
    BY <1>1, <1>2, <1>4, <2>1, <2>2, <2>3, <2>4 DEF Writer
  <2>6. Recoverable(file', e)
    BY <1>2, <2>3, <2>4 DEF Recoverable, Sound
  <2>7. ASSUME NEW x \in acked \ spoiled PROVE Recoverable(file', x)
    <3>1. Recoverable(file, x)
      BY DEF TabInv, AckedIsRecovered
    <3>2. QED
      BY <1>2, <1>3, <2>3, <3>1, LongerRecovers
  <2>8. QED
    BY <1>1, <1>4, <1>5, <2>1, <2>5, <2>6, <2>7 DEF TabInv, OneWriter, AckedIsRecovered
<1>8. QED
  BY <1>6, <1>7

\* Part of a frame is left behind the last one, or early, and its writer is gone.
LEMMA TornFrame == ASSUME TabInv, NEW t \in Page, torn(t) PROVE TabInv'
<1>1. /\ Writes(t) /\ file' = placed(t, 0) /\ dies(t) /\ UNCHANGED <<made, acked, buffer, early>>
      /\ spoiled' = (IF writtenEarly(t) THEN spoiled \union acked ELSE spoiled)
  BY DEF torn
<1>2. Writer(t) /\ file \in Seq(Nat) /\ Len(file) \in Nat /\ 0 \in Nat
  BY <1>1 DEF TabInv, OneWriter, TabTypeOK
<1>3. file' \in Seq(Nat) /\ Len(file) <= Len(file')
  BY <1>1, <1>2, PlacedSomewhere DEF TabInv
<1>4. TabTypeOK' /\ \A u \in Page : ~Writes(u)'
  <2>1. \A u \in Page : Writes(u)' => u # t /\ Writes(u)
    BY <1>1, TabDies
  <2>2. \A u \in Page : Writes(u) => handle = u
    BY DEF TabInv, OneWriter, Writer
  <2>3. QED
    BY <1>1, <1>2, <1>3, <2>1, <2>2, TabDies DEF TabInv, TabTypeOK, Writer
<1>5. AckedIsRecovered'
  <2>1. CASE writtenEarly(t)
    BY <1>1, <2>1 DEF AckedIsRecovered
  <2>2. CASE ~writtenEarly(t)
    <3>1. validEnd[t] = Len(file) /\ spoiled' = spoiled
      BY <1>1, <1>2, <2>2 DEF Writer, writtenEarly
    <3>2. Len(file') = Len(file) + 1 /\ \A i \in 1..Len(file) : file'[i] = file[i]
      BY <1>1, <1>2, <3>1, PlacedLast DEF TabInv
    <3>3. ASSUME NEW x \in acked \ spoiled PROVE Recoverable(file', x)
      <4>1. Recoverable(file, x)
        BY DEF TabInv, AckedIsRecovered
      <4>2. QED
        BY <1>2, <1>3, <3>2, <4>1, LongerRecovers
    <3>4. QED
      BY <1>1, <3>1, <3>3 DEF AckedIsRecovered
  <2>3. QED
    BY <2>1, <2>2
<1>6. QED
  BY <1>4, <1>5 DEF TabInv, OneWriter

\* Every step of every tab keeps what was answered in reach.
LEMMA TabStep == TabInv /\ [TabNext]_tabVars => TabInv'
<1> SUFFICES ASSUME TabInv, [TabNext]_tabVars PROVE TabInv'
  OBVIOUS
<1>1. ASSUME NEW t \in Page, opens(t) \/ restored(t) \/ append(t) PROVE TabInv'
  <2>1. UNCHANGED <<file, handle, worker, validEnd, acked, readVars>>
    BY <1>1 DEF opens, restored, append
  <2>2. TabTypeOK'
    <3>1. UNCHANGED <<encoding, made>> \/ append(t)
      BY <1>1 DEF opens, restored
    <3>2. CASE UNCHANGED <<encoding, made>>
      BY <2>1, <3>2 DEF TabInv, TabTypeOK, readVars
    <3>3. CASE append(t)
      <4>1. made' = made + 1 /\ encoding' = [encoding EXCEPT ![t] = @ \union {made + 1}]
        BY <3>3 DEF append
      <4>2. made \in Nat /\ encoding \in [Page -> SUBSET (Nat \ {0})]
        BY DEF TabInv, TabTypeOK
      <4>3. made' \in Nat /\ made' \in Nat \ {0} /\ encoding[t] \union {made'} \in SUBSET (Nat \ {0})
        BY <4>1, <4>2
      <4>4. encoding' \in [Page -> SUBSET (Nat \ {0})]
        BY <4>1, <4>2, <4>3
      <4>5. QED
        BY <2>1, <4>3, <4>4 DEF TabInv, TabTypeOK, readVars
    <3>4. QED
      BY <3>1, <3>2, <3>3
  <2>3. QED
    BY <2>1, <2>2, WorkersAlone DEF Writes
<1>2. ASSUME NEW t \in Page, electWriterRole(t) \/ initAnswered(t) \/ pagehide(t) PROVE TabInv'
  <2>1. /\ \/ worker' = worker
           \/ worker' = [worker EXCEPT ![t] = "init"]
           \/ worker[t] = "opened" /\ worker' = [worker EXCEPT ![t] = "ready"]
           \/ worker[t] = "ready" /\ worker' = [worker EXCEPT ![t] = "closing"]
        /\ UNCHANGED <<file, handle, validEnd, encoding, made, acked, readVars>>
    BY <1>2 DEF electWriterRole, initAnswered, pagehide
  <2>2. TabTypeOK' /\ \A u \in Page : Writes(u)' => Writes(u) /\ (worker'[u] = "opening" <=> worker[u] = "opening")
    BY <2>1 DEF TabInv, TabTypeOK, Writes, readVars
  <2>3. QED
    BY <2>1, <2>2, WorkersAlone
<1>3. ASSUME NEW t \in Page, killed(t) \/ discarded(t) PROVE TabInv'
  <2>1. dies(t) /\ UNCHANGED <<file, made, acked, readVars>>
    BY <1>3 DEF killed, discarded
  <2>2. TabTypeOK' /\ \A u \in Page : Writes(u)' => Writes(u) /\ handle' = handle /\ validEnd'[u] = validEnd[u] /\ worker'[u] = worker[u]
    BY <2>1, TabDies DEF TabInv, TabTypeOK, readVars
  <2>3. QED
    BY <2>1, <2>2, WorkersAlone
<1>4. ASSUME NEW t \in Page, workerCloses(t) PROVE TabInv'
  <2>1. /\ worker' = [worker EXCEPT ![t] = "failed"] /\ encoding' = [encoding EXCEPT ![t] = {}]
        /\ worker[t] = "closing" /\ handle' = (IF handle = t THEN Vacant ELSE handle)
        /\ UNCHANGED <<file, validEnd, made, acked, readVars>>
    BY <1>4 DEF workerCloses
  <2>2. TabTypeOK' /\ \A u \in Page : Writes(u)' => u # t /\ Writes(u) /\ worker'[u] = worker[u]
    BY <2>1 DEF TabInv, TabTypeOK, Writes, readVars
  <2>3. \A u \in Page : Writes(u)' => handle' = handle
    BY <2>1, <2>2 DEF TabInv, OneWriter, Writer
  <2>4. QED
    BY <2>1, <2>2, <2>3, WorkersAlone
<1>5. CASE UNCHANGED tabVars
  BY <1>5, WorkersAlone DEF tabVars, TabInv, TabTypeOK, Writes, readVars
<1>6. QED
  BY <1>1, <1>2, <1>3, <1>4, <1>5, OpensHandle, Scans, WritesFrame, TornFrame DEF TabNext

\* An append that was answered is found by whoever opens the file next, however
\* many tabs append, are killed in a write, hidden or restored (open and append,
\* browser-journal.mjs), unless a worker wrote before it had read the file.
THEOREM AckedRecovered == TabSpec => []AckedIsRecovered
<1>1. TabInv => AckedIsRecovered
  BY DEF TabInv
<1>2. QED
  BY <1>1, TabStart, TabStep, PTL DEF TabSpec
-----------------------------------------------------------------------------
(* The key lifecycle. An event follows only events built before it, so the *)
(* walk from a head depends on the walks from later events alone and the   *)
(* function it computes exists; and whatever it passes is undisputed.      *)

KeyEvent == [prev : Nat, seq : Nat, reveals : KeyPair \cup {0}, commits : KeyPair]
Envelope == [digest : Nat, intact : BOOLEAN]

LineageTypeOK == keyEvents \in Seq(KeyEvent) /\ trail \in Seq(Nat) /\ envelopes \in Seq(Envelope)

\* An event holds the digest of an earlier one, the inception none.
FollowEarlier ==
    /\ 1 \in EventDigests /\ keyEvents[1].prev = 0
    /\ \A d \in EventDigests \ {1} : keyEvents[d].prev \in 1..(d - 1)

\* The accepted events are a chain from the inception, each later than the last.
TrailGrows ==
    /\ Len(trail) > 0 /\ trail[1] = 1
    /\ \A i \in 1..Len(trail) : trail[i] \in EventDigests
    /\ \A i \in 1..Len(trail) : i > 1 => keyEvents[trail[i]].prev = trail[i - 1]
    /\ \A i, j \in 1..Len(trail) : i < j => trail[i] < trail[j]

DeliveredWereBuilt == Delivered \subseteq EventDigests \ {1}

LineageInv == LineageTypeOK /\ FollowEarlier /\ TrailGrows /\ DeliveredWereBuilt

\* What VerdictIsRight says of the verdict v.
IsRight(v) ==
    LET h == v.headDigest
        next == {e \in Delivered : keyEvents[e].prev = h}
    IN  /\ Undisputed(h)
        /\ CASE next = {} -> v.status = "continuous"
             [] Cardinality(next) > 1 -> v.status = "fork_detected"
             [] OTHER -> /\ v.status = "invalid"
                         /\ ~ \E e \in next :
                                /\ Undisputed(e)
                                /\ \A i \in 1..Len(envelopes) : envelopes[i].digest = e => envelopes[i].intact

\* At first there is the inception, and nothing was exported.
LEMMA LineageStart == LineageInit => LineageInv /\ VerdictIsRight
<1> SUFFICES ASSUME LineageInit PROVE LineageInv /\ VerdictIsRight
  OBVIOUS
<1>1. PICK next \in KeyPair : keyEvents = <<buildInceptionEvent(next)>>
  BY DEF LineageInit
<1>2. trail = <<1>> /\ envelopes = <<>> /\ verdict = NoVerdict
  BY DEF LineageInit
<1>3. keyEvents \in Seq(KeyEvent) /\ Len(keyEvents) = 1 /\ keyEvents[1].prev = 0
  <2>1. buildInceptionEvent(next) \in KeyEvent /\ buildInceptionEvent(next).prev = 0
    BY DEF buildInceptionEvent, KeyEvent
  <2>2. QED
    BY <1>1, <2>1
<1>4. EventDigests = {1}
  BY <1>3 DEF EventDigests
<1>5. trail \in Seq(Nat) /\ Len(trail) = 1 /\ trail[1] = 1
  BY <1>2
<1>6. envelopes \in Seq(Envelope) /\ Delivered = {}
  BY <1>2 DEF Delivered
<1>7. QED
  BY <1>2, <1>3, <1>4, <1>5, <1>6
  DEF LineageInv, LineageTypeOK, FollowEarlier, TrailGrows, DeliveredWereBuilt, VerdictIsRight

\* A new event changes nothing for the events before it.
LEMMA EventsStay ==
    ASSUME LineageInv, NEW e \in KeyEvent, e.prev \in EventDigests, keyEvents' = Append(keyEvents, e)
    PROVE  /\ keyEvents' \in Seq(KeyEvent) /\ Len(keyEvents') = Len(keyEvents) + 1
           /\ EventDigests \subseteq EventDigests' /\ FollowEarlier'
           /\ \A d \in EventDigests : keyEvents'[d] = keyEvents[d]
<1>1. keyEvents \in Seq(KeyEvent) /\ Len(keyEvents) \in Nat
  BY DEF LineageInv, LineageTypeOK
<1>2. /\ keyEvents' \in Seq(KeyEvent) /\ Len(keyEvents') = Len(keyEvents) + 1
      /\ keyEvents'[Len(keyEvents) + 1] = e /\ \A d \in 1..Len(keyEvents) : keyEvents'[d] = keyEvents[d]
  BY <1>1
<1>3. EventDigests \subseteq EventDigests' /\ \A d \in EventDigests : keyEvents'[d] = keyEvents[d]
  BY <1>1, <1>2 DEF EventDigests
<1>4. ASSUME NEW d \in EventDigests' \ {1} PROVE keyEvents'[d].prev \in 1..(d - 1)
  <2>1. d \in EventDigests \/ d = Len(keyEvents) + 1
    BY <1>1, <1>2 DEF EventDigests
  <2>2. CASE d \in EventDigests
    BY <1>3, <2>2 DEF LineageInv, FollowEarlier
  <2>3. CASE d = Len(keyEvents) + 1
    BY <1>1, <1>2, <2>3 DEF EventDigests
  <2>4. QED
    BY <2>1, <2>2, <2>3
<1>5. FollowEarlier'
  BY <1>3, <1>4 DEF LineageInv, FollowEarlier
<1>6. QED
  BY <1>2, <1>3, <1>5

\* What is undisputed stays so while nothing is delivered, whatever is built.
LEMMA UndisputedStays ==
    ASSUME LineageInv, envelopes' = envelopes, \A d \in EventDigests : keyEvents'[d] = keyEvents[d], NEW h
    PROVE  Undisputed(h)' <=> Undisputed(h)
<1>1. Delivered' = Delivered /\ Delivered \cup {1} \subseteq EventDigests
  BY DEF Delivered, LineageInv, DeliveredWereBuilt, FollowEarlier
<1>2. \A d \in Delivered \cup {1} : keyEvents'[d] = keyEvents[d]
  BY <1>1
<1>3. QED
  BY <1>1, <1>2 DEF Undisputed

\* So a verdict stays right.
LEMMA VerdictStays ==
    ASSUME LineageInv, VerdictIsRight, envelopes' = envelopes, verdict' = verdict,
           \A d \in EventDigests : keyEvents'[d] = keyEvents[d]
    PROVE  VerdictIsRight'
<1> DEFINE h == verdict.headDigest
           next == {e \in Delivered : keyEvents[e].prev = h}
<1>1. CASE verdict = NoVerdict
  BY <1>1 DEF VerdictIsRight
<1>2. CASE verdict # NoVerdict
  <2>1. IsRight(verdict)
    BY <1>2 DEF VerdictIsRight, IsRight
  <2>2. Undisputed(h)' /\ \A e : Undisputed(e)' <=> Undisputed(e)
    BY <2>1, UndisputedStays DEF IsRight
  <2>3. {e \in Delivered : keyEvents[e].prev = h}' = next
    BY DEF LineageInv, DeliveredWereBuilt, Delivered
  <2>4. Cardinality({}) = 0
    BY FS_EmptySet
  <2> HIDE DEF next
  <2>5. CASE next = {}
    <3>1. Cardinality(next) = 0
      BY <2>4, <2>5
    <3>2. verdict.status = "continuous"
      BY <2>1, <2>5, <3>1 DEF IsRight, next
    <3>3. QED
      BY <2>2, <2>3, <2>4, <2>5, <3>2 DEF VerdictIsRight
  <2>6. CASE next # {} /\ Cardinality(next) > 1
    <3>1. verdict.status = "fork_detected"
      BY <2>1, <2>6 DEF IsRight, next
    <3>2. QED
      BY <2>2, <2>3, <2>6, <3>1 DEF VerdictIsRight
  <2>7. CASE next # {} /\ ~(Cardinality(next) > 1)
    <3>1. /\ verdict.status = "invalid"
          /\ ~ \E e \in next : /\ Undisputed(e)
                               /\ \A i \in 1..Len(envelopes) : envelopes[i].digest = e => envelopes[i].intact
      BY <2>1, <2>7 DEF IsRight, next
    <3>2. ~ \E e \in next : /\ Undisputed(e)'
                           /\ \A i \in 1..Len(envelopes') : envelopes'[i].digest = e => envelopes'[i].intact
      BY <2>2, <3>1
    <3>3. QED
      BY <2>2, <2>3, <2>7, <3>1, <3>2 DEF VerdictIsRight
  <2>8. QED
    BY <2>5, <2>6, <2>7
<1>3. QED
  BY <1>1, <1>2

\* Of the envelopes of an event the last one counts.
LEMMA LastEnvelopeCounts ==
    ASSUME LineageInv, NEW d \in Delivered
    PROVE  \E i \in 1..Len(envelopes) :
              envelopes[i].digest = d /\ verifySignatureByLabel(d) = envelopes[i].intact
<1> DEFINE n == Len(envelopes)
           T == {k \in Nat : \E i \in 1..n : k = n - i /\ envelopes[i].digest = d}
           IsLast(i) == envelopes[i].digest = d /\ \A j \in (i + 1)..n : envelopes[j].digest # d
<1>1. n \in Nat
  BY DEF LineageInv, LineageTypeOK
<1>2. PICK i0 \in 1..n : envelopes[i0].digest = d
  BY DEF Delivered
<1>3. n - i0 \in T
  BY <1>1, <1>2
<1>4. PICK m \in T : \A k \in T : m <= k
  BY <1>3, LeastNat
<1>5. PICK last \in 1..n : m = n - last /\ envelopes[last].digest = d
  OBVIOUS
<1>6. ASSUME NEW j \in (last + 1)..n PROVE envelopes[j].digest # d
  <2>1. j \in 1..n /\ n - j \in Nat /\ n - j < m
    BY <1>1, <1>5
  <2>2. n - j \in T => m <= n - j
    BY <1>4
  <2>3. QED
    BY <2>1, <2>2, <1>1
<1>7. IsLast(last)
  BY <1>5, <1>6
<1> HIDE DEF IsLast
<1>8. \E i \in 1..n : IsLast(i)
  BY <1>5, <1>7
<1>9. (CHOOSE i \in 1..n : IsLast(i)) \in 1..n /\ IsLast(CHOOSE i \in 1..n : IsLast(i))
  BY <1>8
<1>10. verifySignatureByLabel(d) = envelopes[CHOOSE i \in 1..n : IsLast(i)].intact
  BY DEF verifySignatureByLabel, rotationsByDigest, IsLast
<1>11. QED
  BY <1>9, <1>10 DEF IsLast

\* The one event that follows a head was built after it.
LEMMA OnlyFollower ==
    ASSUME LineageInv, NEW head \in EventDigests, byPrevDigest(head) # {}
    PROVE  LET only == CHOOSE d \in byPrevDigest(head) : TRUE
           IN  /\ only \in byPrevDigest(head) /\ only \in EventDigests \ {1} /\ only > head
               /\ only \in Delivered /\ keyEvents[only].prev = head
<1> DEFINE only == CHOOSE d \in byPrevDigest(head) : TRUE
<1>1. only \in byPrevDigest(head)
  OBVIOUS
<1> HIDE DEF only
<1>2. only \in Delivered /\ keyEvents[only].prev = head /\ only \in EventDigests \ {1}
  BY <1>1 DEF byPrevDigest, LineageInv, DeliveredWereBuilt
<1>3. head \in 1..(only - 1) /\ only \in Nat
  BY <1>2 DEF LineageInv, FollowEarlier, EventDigests
<1>4. QED
  BY <1>1, <1>2, <1>3 DEF only

\* The walk from a head depends on the walks from later events alone.
LEMMA StepUsesLater ==
    ASSUME LineageInv, NEW head \in EventDigests, NEW f, NEW g,
           \A d \in EventDigests : d > head => f[d] = g[d]
    PROVE  walkStep(head, f) = walkStep(head, g)
<1> DEFINE only == CHOOSE d \in byPrevDigest(head) : TRUE
<1>1. CASE byPrevDigest(head) = {}
  BY <1>1 DEF walkStep
<1>2. CASE byPrevDigest(head) # {}
  <2>1. f[only] = g[only]
    BY <1>2, OnlyFollower
  <2>2. QED
    BY <2>1 DEF walkStep
<1>3. QED
  BY <1>1, <1>2

\* So there is a function that is the walk from every event.
LEMMA WalkExists ==
    ASSUME LineageInv
    PROVE  \E f : f = [head \in EventDigests |-> walkStep(head, f)]
<1> DEFINE n == Len(keyEvents)
           Walks(f, m) == \A head \in EventDigests : head > n - m => f[head] = walkStep(head, f)
           T == {m \in Nat : ~ \E f : Walks(f, m)}
<1>1. n \in Nat /\ EventDigests = 1..n
  BY DEF LineageInv, LineageTypeOK, EventDigests
<1>2. T = {}
  <2> SUFFICES ASSUME T # {} PROVE FALSE
    OBVIOUS
  <2>1. PICK m \in T : \A k \in T : m <= k
    BY LeastNat
  <2>2. CASE m = 0
    <3>1. Walks([head \in EventDigests |-> 0], 0)
      BY <1>1
    <3>2. QED
      BY <2>2, <3>1
  <2>3. CASE m # 0
    <3>1. m \in Nat /\ m - 1 \in Nat /\ m - 1 \notin T
      BY <2>1, <2>3
    <3>2. PICK f : Walks(f, m - 1)
      BY <3>1
    <3> DEFINE g == [head \in EventDigests |-> walkStep(head, f)]
    <3>3. \A d \in EventDigests : d > n - (m - 1) => g[d] = f[d]
      BY <3>2
    <3> HIDE DEF Walks
    <3>4. ASSUME NEW head \in EventDigests, head > n - m PROVE g[head] = walkStep(head, g)
      <4>1. \A d \in EventDigests : d > head => g[d] = f[d]
        BY <1>1, <3>1, <3>3, <3>4
      <4>2. g[head] = walkStep(head, f)
        OBVIOUS
      <4> HIDE DEF g
      <4>3. walkStep(head, g) = walkStep(head, f)
        BY <4>1, StepUsesLater
      <4>4. QED
        BY <4>2, <4>3
    <3>5. Walks(g, m)
      BY <3>4 DEF Walks
    <3>6. QED
      BY <2>1, <3>5
  <2>4. QED
    BY <2>2, <2>3
<1>3. PICK f : Walks(f, n)
  BY <1>1, <1>2
<1> DEFINE g == [head \in EventDigests |-> f[head]]
<1>4. ASSUME NEW head \in EventDigests PROVE g[head] = walkStep(head, g)
  <2>1. f[head] = walkStep(head, f)
    BY <1>1, <1>3
  <2>2. g[head] = f[head] /\ \A d \in EventDigests : d > head => g[d] = f[d]
    OBVIOUS
  <2> HIDE DEF g
  <2>3. walkStep(head, g) = walkStep(head, f)
    BY <2>2, StepUsesLater
  <2>4. QED
    BY <2>1, <2>2, <2>3
<1>5. g = [head \in EventDigests |-> g[head]]
  OBVIOUS
<1> HIDE DEF g
<1>6. [head \in EventDigests |-> g[head]] = [head \in EventDigests |-> walkStep(head, g)]
  BY <1>4
<1>7. QED
  BY <1>5, <1>6

\* The inception is undisputed.
LEMMA InceptionUndisputed == LineageInv => Undisputed(1)
<1> SUFFICES ASSUME LineageInv PROVE Undisputed(1)
  OBVIOUS
<1>1. {1} \in SUBSET (Delivered \cup {1}) /\ {1, 1} \subseteq {1} /\ \A d \in {1} : d <= 1
  OBVIOUS
<1>2. {1} \ {1} = {}
  OBVIOUS
<1>3. QED
  BY <1>1, <1>2 DEF Undisputed

\* The walk passes on to an undisputed event only.
LEMMA UndisputedStep ==
    ASSUME LineageInv, NEW head \in EventDigests, Undisputed(head),
           NEW next \in Delivered, byPrevDigest(head) = {next},
           Follows(keyEvents[next], keyEvents[head]), verifySignatureByLabel(next)
    PROVE  Undisputed(next)
<1>1. PICK way \in SUBSET (Delivered \cup {1}) :
          /\ {1, head} \subseteq way
          /\ \A d \in way : d <= head
          /\ \A d \in way \ {1} :
                /\ keyEvents[d].prev \in way
                /\ keyEvents[d].seq = keyEvents[keyEvents[d].prev].seq + 1
                /\ keyEvents[d].reveals = keyEvents[keyEvents[d].prev].commits
                /\ \E i \in 1..Len(envelopes) : envelopes[i] = [digest |-> d, intact |-> TRUE]
                /\ \A e \in Delivered \ {d} : keyEvents[e].prev # keyEvents[d].prev
  BY DEF Undisputed
<1>2. keyEvents[next].prev = head /\ next \in EventDigests \ {1} /\ head < next /\ head \in Nat /\ next \in Nat
  <2>1. next \in EventDigests \ {1} /\ keyEvents[next].prev = head
    BY DEF byPrevDigest, LineageInv, DeliveredWereBuilt
  <2>2. head \in 1..(next - 1) /\ next \in Nat
    BY <2>1 DEF LineageInv, FollowEarlier, EventDigests
  <2>3. QED
    BY <2>1, <2>2
<1>3. \A e \in Delivered \ {next} : keyEvents[e].prev # head
  BY DEF byPrevDigest
<1>4. \E i \in 1..Len(envelopes) : envelopes[i] = [digest |-> next, intact |-> TRUE]
  <2>1. PICK i \in 1..Len(envelopes) : envelopes[i].digest = next /\ verifySignatureByLabel(next) = envelopes[i].intact
    BY LastEnvelopeCounts
  <2>2. envelopes[i] \in Envelope
    BY DEF LineageInv, LineageTypeOK
  <2>3. envelopes[i].intact = TRUE
    BY <2>1, <2>2, Zenon DEF Envelope
  <2>4. envelopes[i] = [digest |-> next, intact |-> TRUE]
    BY <2>1, <2>2, <2>3 DEF Envelope
  <2>5. QED
    BY <2>4
<1> DEFINE longer == way \cup {next}
<1>5. longer \in SUBSET (Delivered \cup {1}) /\ {1, next} \subseteq longer
  BY <1>1
<1>6. \A d \in longer : d <= next
  <2>1. \A d \in way : d \in Nat
    BY <1>1 DEF LineageInv, DeliveredWereBuilt, EventDigests
  <2>2. QED
    BY <1>1, <1>2, <2>1
<1>7. ASSUME NEW d \in longer \ {1}
      PROVE  /\ keyEvents[d].prev \in longer
             /\ keyEvents[d].seq = keyEvents[keyEvents[d].prev].seq + 1
             /\ keyEvents[d].reveals = keyEvents[keyEvents[d].prev].commits
             /\ \E i \in 1..Len(envelopes) : envelopes[i] = [digest |-> d, intact |-> TRUE]
             /\ \A e \in Delivered \ {d} : keyEvents[e].prev # keyEvents[d].prev
  <2>1. CASE d \in way
    BY <1>1, <2>1
  <2>2. CASE d = next
    BY <1>1, <1>2, <1>3, <1>4, <2>2 DEF Follows
  <2>3. QED
    BY <2>1, <2>2
<1> HIDE DEF longer
<1>8. QED
  BY <1>5, <1>6, <1>7 DEF Undisputed

\* Where the walk ends, it reports what the export shows there.
LEMMA StepIsRight ==
    ASSUME LineageInv, NEW f, NEW head \in EventDigests, Undisputed(head),
           \A d \in EventDigests : d > head /\ Undisputed(d) => IsRight(f[d])
    PROVE  IsRight(walkStep(head, f))
<1> DEFINE next == byPrevDigest(head)
           only == CHOOSE d \in next : TRUE
           ended(s) == [status |-> s, headDigest |-> head]
<1>1. next = {e \in Delivered : keyEvents[e].prev = head}
  BY DEF byPrevDigest
<1>2. IsFiniteSet(next) /\ Cardinality(next) \in Nat /\ (Cardinality(next) = 0 <=> next = {})
  <2>1. next \in SUBSET (1..Len(keyEvents)) /\ Len(keyEvents) \in Nat
    <3>1. \A d \in next : d \in 1..Len(keyEvents)
      BY DEF byPrevDigest, LineageInv, DeliveredWereBuilt, EventDigests
    <3>2. QED
      BY <3>1 DEF LineageInv, LineageTypeOK
  <2>2. IsFiniteSet(1..Len(keyEvents))
    BY <2>1, FS_Interval
  <2>3. IsFiniteSet(next)
    BY <2>1, <2>2, FS_Subset
  <2>4. QED
    BY <2>3, FS_CardinalityType, FS_EmptySet
<1>3. CASE next = {}
  <2>1. walkStep(head, f) = ended("continuous")
    BY <1>2, <1>3 DEF walkStep
  <2>2. IsRight(ended("continuous"))
    BY <1>1, <1>2, <1>3 DEF IsRight
  <2>3. QED
    BY <2>1, <2>2
<1>4. CASE Cardinality(next) > 1
  <2>1. next # {}
    BY <1>2, <1>4
  <2>2. walkStep(head, f) = ended("fork_detected")
    BY <1>4, <2>1 DEF walkStep
  <2>3. IsRight(ended("fork_detected"))
    BY <1>1, <1>4, <2>1 DEF IsRight
  <2>4. QED
    BY <2>2, <2>3
<1>5. CASE next # {} /\ ~(Cardinality(next) > 1)
  <2>1. PICK x : next = {x}
    BY <1>2, <1>5, FS_Singleton
  <2>2. /\ only \in EventDigests \ {1} /\ only > head /\ only \in Delivered /\ keyEvents[only].prev = head
        /\ next = {only}
    BY <1>5, <2>1, OnlyFollower
  <2>3. CASE Follows(keyEvents[only], keyEvents[head]) /\ verifySignatureByLabel(only)
    <3>1. walkStep(head, f) = f[only]
      BY <1>5, <2>3 DEF walkStep
    <3> HIDE DEF only
    <3>2. Undisputed(only)
      BY <2>2, <2>3, UndisputedStep
    <3>3. QED
      BY <2>2, <3>1, <3>2
  <2>4. CASE ~(Follows(keyEvents[only], keyEvents[head]) /\ verifySignatureByLabel(only))
    <3>1. walkStep(head, f) = ended("invalid")
      BY <1>5, <2>4 DEF walkStep
    <3> HIDE DEF only
    <3>2. ASSUME Undisputed(only), \A i \in 1..Len(envelopes) : envelopes[i].digest = only => envelopes[i].intact
          PROVE  FALSE
      <4>1. Follows(keyEvents[only], keyEvents[head])
        BY <2>2, <3>2 DEF Undisputed, Follows
      <4>2. PICK i \in 1..Len(envelopes) :
                envelopes[i].digest = only /\ verifySignatureByLabel(only) = envelopes[i].intact
        BY <2>2, LastEnvelopeCounts
      <4>3. verifySignatureByLabel(only)
        BY <3>2, <4>2, Zenon
      <4>4. QED
        BY <2>4, <4>1, <4>3
    <3>3. IsRight(ended("invalid"))
      BY <1>1, <1>5, <2>2, <3>2 DEF IsRight
    <3>4. QED
      BY <3>1, <3>3
  <2>5. QED
    BY <2>3, <2>4
<1>6. QED
  BY <1>3, <1>4, <1>5

\* So what the walk from the inception returns is right.
LEMMA WalkIsRight == LineageInv => IsRight(verifyKeyLineage)
<1> SUFFICES ASSUME LineageInv PROVE IsRight(verifyKeyLineage)
  OBVIOUS
<1> DEFINE IsWalk(f) == f = [head \in EventDigests |-> walkStep(head, f)]
           walk == CHOOSE f : IsWalk(f)
           n == Len(keyEvents)
           T == {k \in Nat : \E head \in EventDigests : k = n - head /\ Undisputed(head) /\ ~IsRight(walk[head])}
<1>1. verifyKeyLineage = walk[1]
  BY DEF verifyKeyLineage
<1>2. IsWalk(walk)
  <2>1. \E f : IsWalk(f)
    BY WalkExists
  <2> HIDE DEF IsWalk
  <2>2. QED
    BY <2>1
<1> HIDE DEF walk
<1>3. \A head \in EventDigests : walk[head] = walkStep(head, walk)
  BY <1>2
<1>4. n \in Nat /\ EventDigests = 1..n
  BY DEF LineageInv, LineageTypeOK, EventDigests
<1>5. T = {}
  <2> SUFFICES ASSUME T # {} PROVE FALSE
    OBVIOUS
  <2>1. PICK m \in T : \A k \in T : m <= k
    BY LeastNat
  <2>2. PICK head \in EventDigests : m = n - head /\ Undisputed(head) /\ ~IsRight(walk[head])
    OBVIOUS
  <2>3. ASSUME NEW d \in EventDigests, d > head, Undisputed(d) PROVE IsRight(walk[d])
    <3>1. n - d \in Nat /\ m \in Nat /\ n - d < m
      BY <1>4, <2>2, <2>3
    <3>2. n - d \in T => m <= n - d
      BY <2>1
    <3> HIDE DEF T
    <3>4. n - d \notin T
      BY <1>4, <2>1, <3>1, <3>2
    <3> USE DEF T
    <3>3. QED
      BY <2>3, <3>1, <3>4
  <2>4. IsRight(walkStep(head, walk))
    BY <2>2, <2>3, StepIsRight
  <2>5. QED
    BY <1>3, <2>2, <2>4
<1>6. 1 \in EventDigests /\ n - 1 \in Nat
  BY <1>4 DEF LineageInv, FollowEarlier
<1>7. QED
  BY <1>1, <1>5, <1>6, InceptionUndisputed

\* Every step of the holder, the store, the export and the verifier keeps both.
LEMMA LineageStep ==
    ASSUME LineageInv, VerdictIsRight, [LineageNext]_lineageVars
    PROVE  LineageInv' /\ VerdictIsRight'
<1>1. CASE envelopeEvent
  <2>1. PICK prior \in EventDigests, seq \in 1..MaxRotations, revealed \in KeyPair, next \in KeyPair :
            keyEvents' = Append(keyEvents, buildRotationEvent(prior, seq, revealed, next))
    BY <1>1 DEF envelopeEvent
  <2> DEFINE e == buildRotationEvent(prior, seq, revealed, next)
  <2>2. e \in KeyEvent /\ e.prev \in EventDigests
    BY DEF buildRotationEvent, KeyEvent, EventDigests
  <2>3. UNCHANGED <<trail, envelopes, verdict>>
    BY <1>1 DEF envelopeEvent
  <2> HIDE DEF e
  <2>4. /\ keyEvents' \in Seq(KeyEvent) /\ EventDigests \subseteq EventDigests' /\ FollowEarlier'
        /\ \A d \in EventDigests : keyEvents'[d] = keyEvents[d]
    BY <2>1, <2>2, EventsStay DEF e
  <2>5. TrailGrows'
    BY <2>3, <2>4 DEF LineageInv, TrailGrows
  <2>6. Delivered' = Delivered /\ DeliveredWereBuilt'
    BY <2>3, <2>4 DEF LineageInv, DeliveredWereBuilt, Delivered
  <2>9. VerdictIsRight'
    BY <2>3, <2>4, VerdictStays
  <2>10. QED
    BY <2>3, <2>4, <2>5, <2>6, <2>9 DEF LineageInv, LineageTypeOK
<1>2. CASE acceptRotation
  <2>1. PICK candidate \in EventDigests \ {1}, intact \in BOOLEAN :
            /\ assertRotationAppendable(trail[Len(trail)], candidate, intact)
            /\ trail' = Append(trail, candidate)
    BY <1>2 DEF acceptRotation
  <2>2. UNCHANGED <<keyEvents, envelopes, verdict>>
    BY <1>2 DEF acceptRotation
  <2>3. trail \in Seq(Nat) /\ Len(trail) \in Nat /\ Len(trail) > 0 /\ candidate \in Nat
    BY DEF LineageInv, LineageTypeOK, TrailGrows, EventDigests
  <2>4. /\ trail' \in Seq(Nat) /\ Len(trail') = Len(trail) + 1 /\ trail'[Len(trail) + 1] = candidate
        /\ \A i \in 1..Len(trail) : trail'[i] = trail[i]
    BY <2>1, <2>3
  <2>5. /\ keyEvents[candidate].prev = trail[Len(trail)] /\ trail[Len(trail)] < candidate
    <3>1. keyEvents[candidate].prev = trail[Len(trail)]
      BY <2>1 DEF assertRotationAppendable
    <3>2. keyEvents[candidate].prev \in 1..(candidate - 1)
      BY DEF LineageInv, FollowEarlier
    <3>3. QED
      BY <2>3, <3>1, <3>2
  <2>6. ASSUME NEW i \in 1..Len(trail) PROVE trail[i] \in Nat /\ trail[i] <= trail[Len(trail)]
    <3>1. trail[i] \in Nat /\ trail[Len(trail)] \in Nat
      BY <2>3 DEF LineageInv, TrailGrows, EventDigests
    <3>2. \A a, b \in 1..Len(trail) : a < b => trail[a] < trail[b]
      BY Zenon DEF LineageInv, TrailGrows
    <3>3. i \in 1..Len(trail) /\ Len(trail) \in 1..Len(trail)
      BY <2>3
    <3>4. i < Len(trail) => trail[i] < trail[Len(trail)]
      BY <3>2, <3>3, Zenon
    <3>5. QED
      BY <2>3, <3>1, <3>3, <3>4
  <2>7. ASSUME NEW i \in 1..Len(trail'), NEW j \in 1..Len(trail'), i < j PROVE trail'[i] < trail'[j]
    <3>1. i \in 1..Len(trail) /\ trail'[i] = trail[i]
      BY <2>3, <2>4, <2>7
    <3>2. CASE j \in 1..Len(trail)
      BY <2>4, <2>7, <3>1, <3>2 DEF LineageInv, TrailGrows
    <3>3. CASE j = Len(trail) + 1
      BY <2>3, <2>4, <2>5, <2>6, <3>1, <3>3
    <3>4. QED
      BY <2>3, <2>4, <3>2, <3>3
  <2>8. ASSUME NEW i \in 1..Len(trail')
        PROVE  trail'[i] \in EventDigests /\ (i > 1 => keyEvents[trail'[i]].prev = trail'[i - 1])
    <3>1. CASE i \in 1..Len(trail)
      <4>1. trail'[i] = trail[i] /\ (i > 1 => trail'[i - 1] = trail[i - 1])
        <5>1. trail'[i] = trail[i]
          BY <2>4, <3>1
        <5>2. i > 1 => i - 1 \in 1..Len(trail)
          BY <2>3, <3>1
        <5>3. QED
          BY <2>4, <5>1, <5>2
      <4>2. QED
        BY <3>1, <4>1 DEF LineageInv, TrailGrows
    <3>2. CASE i = Len(trail) + 1
      BY <2>3, <2>4, <2>5, <3>2
    <3>3. QED
      BY <2>3, <2>4, <3>1, <3>2
  <2>9. TrailGrows'
    <3>1. EventDigests' = EventDigests /\ Len(trail') > 0 /\ trail'[1] = 1
      BY <2>2, <2>3, <2>4 DEF LineageInv, TrailGrows, EventDigests
    <3>2. \A i \in 1..Len(trail') : trail'[i] \in EventDigests' /\ (i > 1 => keyEvents'[trail'[i]].prev = trail'[i - 1])
      BY <2>2, <2>8, <3>1
    <3>3. QED
      BY <2>7, <3>1, <3>2 DEF TrailGrows
  <2>10. QED
    BY <2>2, <2>4, <2>9, VerdictStays DEF LineageInv, LineageTypeOK, FollowEarlier, EventDigests,
       DeliveredWereBuilt,
                                          Delivered
<1>3. CASE deliver
  <2>1. PICK d \in EventDigests \ {1}, intact \in BOOLEAN : envelopes' = Append(envelopes, [digest |-> d, intact |-> intact])
    BY <1>3 DEF deliver
  <2>2. verdict' = NoVerdict /\ UNCHANGED <<keyEvents, trail>>
    BY <1>3 DEF deliver
  <2> DEFINE w == [digest |-> d, intact |-> intact]
  <2>3. w \in Envelope /\ w.digest = d
    BY DEF Envelope, EventDigests
  <2> HIDE DEF w
  <2>4. /\ envelopes' \in Seq(Envelope) /\ Len(envelopes') = Len(envelopes) + 1 /\ Len(envelopes) \in Nat
        /\ envelopes'[Len(envelopes) + 1] = w /\ \A i \in 1..Len(envelopes) : envelopes'[i] = envelopes[i]
    BY <2>1, <2>3 DEF w, LineageInv, LineageTypeOK
  <2>5. \A i \in 1..Len(envelopes') : envelopes'[i].digest = d \/ envelopes'[i].digest \in Delivered
    BY <2>3, <2>4 DEF Delivered
  <2>6. DeliveredWereBuilt'
    BY <2>2, <2>5 DEF LineageInv, DeliveredWereBuilt, Delivered, EventDigests
  <2>7. QED
    BY <2>2, <2>4, <2>6 DEF LineageInv, LineageTypeOK, FollowEarlier, TrailGrows, EventDigests, VerdictIsRight
<1>4. CASE audit
  <2>1. verdict' = verifyKeyLineage /\ UNCHANGED <<keyEvents, trail, envelopes>>
    BY <1>4 DEF audit
  <2>2. LineageInv'
    BY <2>1 DEF LineageInv, LineageTypeOK, FollowEarlier, TrailGrows, EventDigests, DeliveredWereBuilt,
       Delivered
  <2>3. IsRight(verdict')
    BY <2>1, WalkIsRight
  <2>4. QED
    BY <2>1, <2>2, <2>3 DEF IsRight, VerdictIsRight, Undisputed, Delivered
<1>5. CASE UNCHANGED lineageVars
  BY <1>5, VerdictStays DEF lineageVars, LineageInv, LineageTypeOK, FollowEarlier, TrailGrows, EventDigests,
                            DeliveredWereBuilt, Delivered
<1>6. QED
  BY <1>1, <1>2, <1>3, <1>4, <1>5 DEF LineageNext

\* A chain in which every event is later than the last does not fork.
LEMMA ChainNeverForks == LineageInv => TrailNeverForks
<1> SUFFICES ASSUME LineageInv, NEW i \in 1..Len(trail), NEW j \in 1..Len(trail),
                    keyEvents[trail[i]].prev = keyEvents[trail[j]].prev
             PROVE  i = j
  BY DEF TrailNeverForks, LineageInv, TrailGrows
<1>1. i \in Nat /\ j \in Nat /\ Len(trail) \in Nat
  BY DEF LineageInv, LineageTypeOK
<1>2. \A k \in 1..Len(trail) : k > 1 => keyEvents[trail[k]].prev = trail[k - 1] /\ trail[k - 1] \in 1..Len(keyEvents)
  BY <1>1 DEF LineageInv, TrailGrows, EventDigests
<1>3. keyEvents[trail[1]].prev = 0
  BY DEF LineageInv, TrailGrows, FollowEarlier
<1>4. CASE i = 1 \/ j = 1
  BY <1>1, <1>2, <1>3, <1>4
<1>5. CASE i > 1 /\ j > 1
  <2>1. trail[i - 1] = trail[j - 1] /\ i - 1 \in 1..Len(trail) /\ j - 1 \in 1..Len(trail)
    BY <1>1, <1>2, <1>5
  <2>2. ~(i - 1 < j - 1) /\ ~(j - 1 < i - 1)
    <3>1. trail[i - 1] \in Nat /\ trail[j - 1] \in Nat
      BY <2>1 DEF LineageInv, TrailGrows, EventDigests
    <3>2. QED
      BY <2>1, <3>1 DEF LineageInv, TrailGrows
  <2>3. QED
    BY <1>1, <2>2
<1>6. QED
  BY <1>1, <1>4, <1>5

\* The store's chain of accepted rotations never forks, and the verifier of an
\* export reports exactly what the export shows, in whatever order, however
\* often and however damaged its envelopes come (key-lifecycle.mjs: the guard
\* assertRotationAppendable and the walk verifyKeyLineage).
THEOREM HistoryIsOne == LineageSpec => []LineageIsOne
<1>1. LineageInv /\ VerdictIsRight => LineageIsOne
  BY ChainNeverForks DEF LineageIsOne
<1>2. LineageInv /\ VerdictIsRight /\ [LineageNext]_lineageVars => (LineageInv /\ VerdictIsRight)'
  BY LineageStep
<1>3. QED
  BY LineageStart, <1>1, <1>2, PTL DEF LineageSpec
-----------------------------------------------------------------------------
(* Evidence. On the way a part can be exchanged for another that the same  *)
(* keys signed, so all a valid signature shows is that its statement is    *)
(* one of these; of all of them only one is a manifest, and it names every *)
(* object by the digest of its statement.                                  *)

Signature == {"valid", "wrong", "none"}
CarriedEnvelope ==
    [statement : signed, ed25519 : Signature, mldsa44 : Signature]
        \cup [statement : {Unreadable}, ed25519 : {"wrong", "none"}, mldsa44 : Signature]
ObjectKind == {"check_result", "freshness_receipt", "connector_attestation", "review_decision"}
TrustLabel == {"kernel_verified", "hash_verified", "connector_asserted", "human_attested"}
CarriedObject == [kind : ObjectKind, trust_label : TrustLabel, digest : signed, envelope : CarriedEnvelope]

IsCarried(b) ==
    /\ b = [predicate |-> b.predicate, manifest |-> b.manifest, objects |-> b.objects, checkpoints |-> b.checkpoints]
    /\ b.manifest \in CarriedEnvelope /\ b.objects \in Seq(CarriedObject) /\ b.checkpoints \in Seq(CarriedEnvelope)

\* Of what was signed only the predicate of the bundle is a manifest; it has an
\* entry for each object and each checkpoint.
IsAssembled(b) ==
    /\ \A s \in signed : s.type = "evidence_bundle_manifest" => s = b.predicate
    /\ Len(b.predicate.entries) = Len(b.objects)
    /\ \A i \in 1..Len(b.objects) : /\ b.predicate.entries[i] = entryOf(b.objects[i])
                                    /\ b.objects[i].digest = b.objects[i].envelope.statement
    /\ \A i \in 1..Len(b.checkpoints) : b.checkpoints[i].statement \in b.predicate.checkpoints_ref

BundleInv ==
    /\ (assembled = Absent <=> carried = Absent) /\ (carried = Absent => judged = NoResult)
    /\ carried # Absent => IsCarried(carried) /\ IsAssembled(assembled)

Imported == outFile = <<>> \/ \E e, strict : outFile = <<e>> /\ importH2HEnvelope(e, strict)

MovingShape(m) ==
    /\ m = [journal_entries |-> m.journal_entries, root |-> m.root, raw |-> m.raw,
            made_from |-> m.made_from, accepted |-> m.accepted]
    /\ m.raw \in Seq(RunId) /\ m.made_from \in Seq(RunId) /\ m.root = digestEntries(m.made_from)
    /\ m.accepted \in BOOLEAN

MovingInv == moving # <<>> => MovingShape(moving)

EvidenceInv == BundleInv /\ Imported /\ MovingInv /\ AcceptedIsSealed /\ OfflineNoLaxer /\ MigratedIsWhole

\* What is left of a sequence is made of its elements.
LEMMA WithoutOne ==
    ASSUME NEW S, NEW s \in Seq(S), NEW i \in 1..Len(s)
    PROVE  RemoveAt(s, i) \in Seq(S)
<1>1. SubSeq(s, 1, i - 1) \in Seq(S) /\ SubSeq(s, i + 1, Len(s)) \in Seq(S)
  BY SubSeqProperties
<1>2. QED
  BY <1>1, ConcatProperties DEF RemoveAt

\* One element of a sequence is exchanged.
LEMMA WithOther ==
    ASSUME NEW S, NEW s \in Seq(S), NEW i \in 1..Len(s), NEW e \in S
    PROVE  [s EXCEPT ![i] = e] \in Seq(S) /\ Len([s EXCEPT ![i] = e]) = Len(s)
  OBVIOUS

\* Of several places the last one is one of them.
LEMMA LastOfSome ==
    ASSUME NEW n \in Nat, NEW T \in SUBSET (1..n), T # {}
    PROVE  Max(T) \in T
<1> DEFINE back == {k \in Nat : \E i \in T : k = n - i}
<1>1. PICK i0 \in T : TRUE
  OBVIOUS
<1>2. n - i0 \in back
  BY <1>1
<1>3. PICK m \in back : \A k \in back : m <= k
  BY <1>2, LeastNat
<1>4. PICK i \in T : m = n - i
  OBVIOUS
<1>5. ASSUME NEW j \in T PROVE i >= j
  <2>1. n - j \in back
    BY <1>5
  <2>2. m <= n - j
    BY <1>3, <2>1
  <2>3. i \in 1..n /\ j \in 1..n
    OBVIOUS
  <2>4. QED
    BY <1>4, <2>2, <2>3
<1>6. QED
  BY <1>4, <1>5 DEF Max

\* What is worn is still made of what was signed, or cannot be read.
LEMMA WornEnvelope ==
    ASSUME NEW e \in CarriedEnvelope, NEW w \in Worn(e)
    PROVE  w \in CarriedEnvelope
  BY DEF Worn, CarriedEnvelope, Signature, emitEnvelope, Unreadable

\* What one object can turn into on the way is still an object a bundle can hold.
LEMMA WornPart ==
    ASSUME NEW o \in CarriedObject, NEW w \in WornObject(o)
    PROVE  w \in CarriedObject
<1>1. o.envelope \in CarriedEnvelope
  BY DEF CarriedObject
<1>2. \A e \in Worn(o.envelope) : e \in CarriedEnvelope
  BY <1>1, WornEnvelope
<1> HIDE DEF CarriedEnvelope
<1>3. QED
  BY <1>2 DEF WornObject, CarriedObject, ObjectKind, TrustLabel

\* And so the worn bundle is still made of such objects and envelopes.
LEMMA WornWhole ==
    ASSUME IsCarried(carried), wearBundle
    PROVE  IsCarried(carried')
<1> DEFINE like(p, m, o, c) == [predicate |-> p, manifest |-> m, objects |-> o, checkpoints |-> c]
<1>1. /\ carried = like(carried.predicate, carried.manifest, carried.objects, carried.checkpoints)
      /\ carried.manifest \in CarriedEnvelope /\ carried.objects \in Seq(CarriedObject) /\ carried.checkpoints \in Seq(CarriedEnvelope)
  BY DEF IsCarried
<1>2. ASSUME NEW p, NEW m \in CarriedEnvelope, NEW o \in Seq(CarriedObject), NEW c \in Seq(CarriedEnvelope),
             carried' = like(p, m, o, c)
      PROVE  IsCarried(carried')
  BY <1>2 DEF IsCarried
<1>3. ASSUME NEW i \in 1..Len(carried.objects), carried' = [carried EXCEPT !.objects = RemoveAt(@, i)]
      PROVE IsCarried(carried')
  <2>1. RemoveAt(carried.objects, i) \in Seq(CarriedObject)
    BY <1>1, WithoutOne
  <2>2. carried' = like(carried.predicate, carried.manifest, RemoveAt(carried.objects, i), carried.checkpoints)
    BY <1>1, <1>3
  <2>3. QED
    BY <1>1, <1>2, <2>1, <2>2
<1>4. ASSUME NEW i \in 1..Len(carried.objects), NEW o \in WornObject(carried.objects[i]), carried' = [carried EXCEPT !.objects[i] = o]
      PROVE  IsCarried(carried')
  <2>1. o \in CarriedObject
    BY <1>1, WornPart
  <2>2. [carried.objects EXCEPT ![i] = o] \in Seq(CarriedObject)
    BY <1>1, <2>1, WithOther
  <2>3. carried' = like(carried.predicate, carried.manifest, [carried.objects EXCEPT ![i] = o], carried.checkpoints)
    BY <1>1, <1>4
  <2>4. QED
    BY <1>1, <1>2, <2>2, <2>3
<1>5. ASSUME NEW i \in 1..Len(carried.objects), NEW k \in {"connector_attestation", "check_result"},
             carried' = [carried EXCEPT !.objects = Append(@, [carried.objects[i] EXCEPT !.kind = k])]
      PROVE  IsCarried(carried')
  <2> DEFINE twin == [carried.objects[i] EXCEPT !.kind = k]
  <2>1. twin \in CarriedObject
    <3>1. carried.objects[i] \in CarriedObject
      BY <1>1
    <3>2. \A o \in CarriedObject : [o EXCEPT !.kind = k] \in CarriedObject
      BY DEF CarriedObject, ObjectKind
    <3>3. QED
      BY <3>1, <3>2
  <2> HIDE DEF twin
  <2>2. Append(carried.objects, twin) \in Seq(CarriedObject)
    BY <1>1, <2>1
  <2>3. carried' = like(carried.predicate, carried.manifest, Append(carried.objects, twin), carried.checkpoints)
    BY <1>1, <1>5 DEF twin
  <2>4. QED
    BY <1>1, <1>2, <2>2, <2>3
<1>6. ASSUME NEW i \in 1..Len(carried.checkpoints), carried' = [carried EXCEPT !.checkpoints = RemoveAt(@, i)]
      PROVE IsCarried(carried')
  <2>1. RemoveAt(carried.checkpoints, i) \in Seq(CarriedEnvelope)
    BY <1>1, WithoutOne
  <2>2. carried' = like(carried.predicate, carried.manifest, carried.objects, RemoveAt(carried.checkpoints, i))
    BY <1>1, <1>6
  <2>3. QED
    BY <1>1, <1>2, <2>1, <2>2
<1>7. ASSUME NEW i \in 1..Len(carried.checkpoints), NEW e \in Worn(carried.checkpoints[i]), carried' = [carried EXCEPT !.checkpoints[i] = e]
      PROVE  IsCarried(carried')
  <2>1. e \in CarriedEnvelope
    BY <1>1, WornEnvelope
  <2>2. [carried.checkpoints EXCEPT ![i] = e] \in Seq(CarriedEnvelope)
    BY <1>1, <2>1, WithOther
  <2>3. carried' = like(carried.predicate, carried.manifest, carried.objects, [carried.checkpoints EXCEPT ![i] = e])
    BY <1>1, <1>7
  <2>4. QED
    BY <1>1, <1>2, <2>2, <2>3
<1>8. ASSUME NEW s \in signed, carried' = [carried EXCEPT !.checkpoints = Append(@, emitEnvelope(s))]
      PROVE IsCarried(carried')
  <2>1. emitEnvelope(s) \in CarriedEnvelope
    BY DEF emitEnvelope, CarriedEnvelope, Signature
  <2>2. Append(carried.checkpoints, emitEnvelope(s)) \in Seq(CarriedEnvelope)
    BY <1>1, <2>1
  <2>3. carried' = like(carried.predicate, carried.manifest, carried.objects, Append(carried.checkpoints, emitEnvelope(s)))
    BY <1>1, <1>8
  <2>4. QED
    BY <1>1, <1>2, <2>2, <2>3
<1>9. ASSUME NEW e \in Worn(carried.manifest), carried' = [carried EXCEPT !.manifest = e]
      PROVE IsCarried(carried')
  <2>1. e \in CarriedEnvelope
    BY <1>1, WornEnvelope
  <2>2. carried' = like(carried.predicate, e, carried.objects, carried.checkpoints)
    BY <1>1, <1>9
  <2>3. QED
    BY <1>1, <1>2, <2>1, <2>2
<1>10. ASSUME carried' = [carried EXCEPT !.predicate.entries = <<>>] PROVE IsCarried(carried')
  <2>1. carried' = like([carried.predicate EXCEPT !.entries = <<>>], carried.manifest, carried.objects, carried.checkpoints)
    BY <1>1, <1>10
  <2>2. QED
    BY <1>1, <1>2, <2>1
<1> HIDE DEF like
<1>11. QED
  BY <1>3, <1>4, <1>5, <1>6, <1>7, <1>8, <1>9, <1>10 DEF wearBundle

Sealable == [type : {"check_result", "freshness_receipt", "connector_attestation"}, run : RunId \cup {Runless}, n : Nat]
CheckpointStatement == [type : {"checkpoint"}, run : {Runless}, n : Nat]

\* A bundle is assembled of what was sealed for it.
LEMMA Produced ==
    ASSUME NEW run, NEW objects \in Seq({sealBundleObject(s) : s \in Sealable}),
           NEW checkpoints \in Seq({emitEnvelope(s) : s \in CheckpointStatement}),
           NEW earlier, \A s \in earlier : s.type # "evidence_bundle_manifest",
           produce(assembleBundle(run, objects, checkpoints), earlier)
    PROVE  IsCarried(carried)' /\ IsAssembled(assembled)' /\ carried' # Absent /\ assembled' # Absent
<1> DEFINE b == assembleBundle(run, objects, checkpoints)
           p == manifestOf(run, objects, checkpoints)
           no == Len(objects)
           nc == Len(checkpoints)
<1>1. b = [predicate |-> p, manifest |-> emitEnvelope(p), objects |-> objects, checkpoints |-> checkpoints]
  BY DEF assembleBundle
<1>2. /\ p.type = "evidence_bundle_manifest" /\ p.entries = [i \in 1..no |-> entryOf(objects[i])]
      /\ p.checkpoints_ref = {envelopeDigest(checkpoints[i]) : i \in 1..nc}
  BY DEF manifestOf
<1> HIDE DEF p
<1>3. /\ b.predicate = p /\ b.manifest = emitEnvelope(p) /\ b.objects = objects /\ b.checkpoints = checkpoints
      /\ b = [predicate |-> b.predicate, manifest |-> b.manifest, objects |-> b.objects, checkpoints |-> b.checkpoints]
      /\ b # Absent
  <2>1. DOMAIN b = {"predicate", "manifest", "objects", "checkpoints"} /\ DOMAIN Absent = {"objects"}
    BY <1>1 DEF Absent
  <2>2. QED
    BY <1>1, <2>1
<1>4. carried' = b /\ assembled' = b /\ signed' = StatementsOf(b) \cup earlier
  BY DEF produce
<1> HIDE DEF b
<1>5. no \in Nat /\ nc \in Nat /\ \A i \in 1..no : objects[i] \in {sealBundleObject(s) : s \in Sealable}
  OBVIOUS
<1>6. \A i \in 1..nc : checkpoints[i] \in {emitEnvelope(s) : s \in CheckpointStatement}
  OBVIOUS
<1>7. signed' = {p} \cup {objects[i].envelope.statement : i \in 1..no} \cup {checkpoints[i].statement : i \in 1..nc} \cup earlier
  BY <1>3, <1>4 DEF StatementsOf, emitEnvelope
<1>8. emitEnvelope(p) \in CarriedEnvelope'
  BY <1>7 DEF emitEnvelope, CarriedEnvelope, Signature
<1>9. ASSUME NEW i \in 1..no
      PROVE  /\ objects[i] \in CarriedObject' /\ objects[i].digest = objects[i].envelope.statement
             /\ objects[i].envelope.statement.type # "evidence_bundle_manifest"
  <2>1. PICK s \in Sealable : objects[i] = sealBundleObject(s)
    BY <1>5
  <2>2. s.type \in {"check_result", "freshness_receipt", "connector_attestation"}
    BY DEF Sealable
  <2>3. DEFAULT_TRUST_LABEL[s.type] \in TrustLabel
    BY <2>2 DEF DEFAULT_TRUST_LABEL, TrustLabel
  <2>4. objects[i] = [kind |-> s.type, trust_label |-> DEFAULT_TRUST_LABEL[s.type], digest |-> s,
                      envelope |-> emitEnvelope(s)]
    BY <2>1 DEF sealBundleObject
  <2>5. emitEnvelope(s).statement = s /\ objects[i].envelope.statement = s
    BY <2>4 DEF emitEnvelope
  <2>6. s \in signed'
    BY <1>7, <2>5
  <2>7. emitEnvelope(s) \in CarriedEnvelope'
    BY <2>6 DEF emitEnvelope, CarriedEnvelope, Signature
  <2> HIDE DEF CarriedEnvelope
  <2>8. objects[i] \in CarriedObject'
    BY <2>2, <2>3, <2>4, <2>6, <2>7 DEF CarriedObject, ObjectKind
  <2>9. QED
    BY <2>2, <2>4, <2>5, <2>8
<1>10. ASSUME NEW i \in 1..nc
      
             PROVE  /\ checkpoints[i] \in CarriedEnvelope' /\ checkpoints[i].statement.type # "evidence_bundle_manifest"
              /\ checkpoints[i].statement \in p.checkpoints_ref
  <2>1. PICK s \in CheckpointStatement : checkpoints[i] = emitEnvelope(s)
    BY <1>6
  <2>2. checkpoints[i].statement = s /\ s.type = "checkpoint"
    BY <2>1 DEF emitEnvelope, CheckpointStatement
  <2>3. checkpoints[i].statement \in signed'
    BY <1>7
  <2>4. checkpoints[i] \in CarriedEnvelope'
    BY <2>1, <2>2, <2>3 DEF emitEnvelope, CarriedEnvelope, Signature
  <2>5. checkpoints[i].statement \in p.checkpoints_ref
    BY <1>2 DEF envelopeDigest
  <2>6. QED
    BY <2>2, <2>4, <2>5
<1>11. objects \in Seq(CarriedObject') /\ checkpoints \in Seq(CarriedEnvelope')
  <2>1. objects \in [1..no -> CarriedObject'] /\ checkpoints \in [1..nc -> CarriedEnvelope']
    <3>1. objects = [i \in 1..no |-> objects[i]] /\ checkpoints = [i \in 1..nc |-> checkpoints[i]]
      OBVIOUS
    <3> HIDE DEF CarriedObject, CarriedEnvelope
    <3>2. QED
      BY <1>9, <1>10, <3>1
  <2>2. QED
    BY <1>5, <2>1
<1>12. IsCarried(carried)'
  BY <1>3, <1>4, <1>8, <1>11 DEF IsCarried
<1>13. \A s \in signed' : s.type = "evidence_bundle_manifest" => s = p
  BY <1>7, <1>9, <1>10
<1>14. Len(p.entries) = no /\ \A i \in 1..no : p.entries[i] = entryOf(objects[i])
  BY <1>2, <1>5
<1>15. IsAssembled(assembled)'
  BY <1>3, <1>4, <1>9, <1>10, <1>13, <1>14 DEF IsAssembled
<1>16. QED
  BY <1>3, <1>4, <1>12, <1>15

\* Whatever is sealed and sent off, it is made of what was signed.
LEMMA BundlesAreProduced ==
    ASSUME runCheck \/ exportFreshnessReceiptZip \/ buildGwlogBundle
    PROVE  /\ IsCarried(carried)' /\ IsAssembled(assembled)' /\ carried' # Absent /\ assembled' # Absent
           /\ assembled = Absent
<1> DEFINE Objects == {sealBundleObject(s) : s \in Sealable}
           Checkpoints == {emitEnvelope(s) : s \in CheckpointStatement}
<1>1. \A s \in Earlier : s.type # "evidence_bundle_manifest"
  BY DEF Earlier, buildStatement
<1>2. assembled = Absent
  BY DEF runCheck, exportFreshnessReceiptZip, buildGwlogBundle, produce
<1>3. <<>> \in Seq(Checkpoints)
  OBVIOUS
<1>4. ASSUME NEW t \in {"check_result", "freshness_receipt"}
      PROVE  <<sealBundleObject(buildStatement(t, Runless, 1))>> \in Seq(Objects)
  <2>1. buildStatement(t, Runless, 1) \in Sealable
    BY DEF buildStatement, Sealable
  <2>2. sealBundleObject(buildStatement(t, Runless, 1)) \in Objects
    BY <2>1
  <2> HIDE DEF Objects
  <2>3. QED
    BY <2>2
<1>5. CASE runCheck
  BY <1>1, <1>2, <1>3, <1>4, <1>5, Produced DEF runCheck
<1>6. CASE exportFreshnessReceiptZip
  BY <1>1, <1>2, <1>3, <1>4, <1>6, Produced DEF exportFreshnessReceiptZip
<1>7. CASE buildGwlogBundle
  <2>1. PICK rows \in UNION {[1..n -> RunId] : n \in 1..MaxRows} :
            produce(assembleBundle(rows[1],
                        [i \in DOMAIN rows |->
                            sealBundleObject(buildStatement("connector_attestation", rows[i], i))],
                        <<emitEnvelope(buildStatement("checkpoint", Runless, Len(rows)))>>), {})
    BY <1>7 DEF buildGwlogBundle
  <2>2. PICK n \in 1..MaxRows : rows \in [1..n -> RunId]
    OBVIOUS
  <2>3. n \in Nat /\ DOMAIN rows = 1..n /\ Len(rows) = n /\ \A i \in 1..n : rows[i] \in RunId
    BY <2>2
  <2> DEFINE objects == [i \in DOMAIN rows |-> sealBundleObject(buildStatement("connector_attestation", rows[i], i))]
  <2>4. \A i \in 1..n : buildStatement("connector_attestation", rows[i], i) \in Sealable
    BY <2>3 DEF buildStatement, Sealable
  <2>5. \A i \in 1..n : sealBundleObject(buildStatement("connector_attestation", rows[i], i)) \in Objects
    BY <2>4
  <2>6. buildStatement("checkpoint", Runless, Len(rows)) \in CheckpointStatement
    BY <2>3 DEF buildStatement, CheckpointStatement
  <2>7. emitEnvelope(buildStatement("checkpoint", Runless, Len(rows))) \in Checkpoints
    BY <2>6
  <2> HIDE DEF Objects, Checkpoints
  <2>8. objects \in Seq(Objects)
    BY <2>3, <2>5
  <2>9. <<emitEnvelope(buildStatement("checkpoint", Runless, Len(rows)))>> \in Seq(Checkpoints)
    BY <2>7
  <2> DEFINE cps == <<emitEnvelope(buildStatement("checkpoint", Runless, Len(rows)))>>
  <2>10. produce(assembleBundle(rows[1], objects, cps), {})
    BY <2>1
  <2> HIDE DEF objects, cps
  <2>11. objects \in Seq({sealBundleObject(s) : s \in Sealable}) /\ cps \in Seq({emitEnvelope(s) : s \in CheckpointStatement})
    BY <2>8, <2>9 DEF cps, Objects, Checkpoints
  <2>12. \A s \in {} : s.type # "evidence_bundle_manifest"
    OBVIOUS
  <2>13. IsCarried(carried)' /\ IsAssembled(assembled)' /\ carried' # Absent /\ assembled' # Absent
    BY <2>10, <2>11, <2>12, Produced
  <2>14. QED
    BY <1>2, <2>13
<1>8. QED
  BY <1>5, <1>6, <1>7

\* A valid signature shows that the statement was signed.
LEMMA ValidIsSigned ==
    ASSUME NEW e \in CarriedEnvelope, NEW keys, NEW strict, verifyEnvelope(e, keys, strict)
    PROVE  e.ed25519 = "valid" /\ e.statement \in signed
  BY DEF CarriedEnvelope, verifyEnvelope

\* A bundle that either verifier finds valid is as it was sealed.
LEMMA ValidIsSealed ==
    ASSUME IsCarried(carried), IsAssembled(assembled), NEW keys, NEW passed,
           verdictOf(carried, keys, passed) = "valid"
    PROVE  /\ passed
           /\ carried.predicate = assembled.predicate
           /\ \A i \in 1..Len(assembled.objects) :
                 \E j \in 1..Len(carried.objects) :
                     /\ entryOf(carried.objects[j]) = entryOf(assembled.objects[i])
                     /\ carried.objects[j].envelope.statement = assembled.objects[i].envelope.statement
                     /\ carried.objects[j].envelope.ed25519 = "valid"
           /\ \A i \in 1..Len(assembled.checkpoints) :
                 \E j \in 1..Len(carried.checkpoints) :
                     carried.checkpoints[j].statement = assembled.checkpoints[i].statement
<1> DEFINE predicate == carried.manifest.statement
<1>1. /\ verifyEnvelope(carried.manifest, keys, FALSE) /\ predicate.type = "evidence_bundle_manifest"
      /\ carried.predicate = predicate /\ passed
      /\ \A i \in 1..Len(predicate.entries) : verifyEntry(carried, predicate.entries[i], keys)
      /\ predicate.checkpoints_ref \subseteq {envelopeDigest(carried.checkpoints[i]) : i \in 1..Len(carried.checkpoints)}
  BY DEF verdictOf
<1>2. predicate \in signed
  BY <1>1, ValidIsSigned DEF IsCarried
<1>3. predicate = assembled.predicate
  BY <1>1, <1>2 DEF IsAssembled
<1> HIDE DEF predicate
<1>4. ASSUME NEW i \in 1..Len(assembled.objects)
      PROVE  \E j \in 1..Len(carried.objects) :
                 /\ entryOf(carried.objects[j]) = entryOf(assembled.objects[i])
                 /\ carried.objects[j].envelope.statement = assembled.objects[i].envelope.statement
                 /\ carried.objects[j].envelope.ed25519 = "valid"
  <2> DEFINE entry == predicate.entries[i]
             j == Max(Found(carried, entry.digest))
  <2>1. verifyEntry(carried, entry, keys) /\ entry = entryOf(assembled.objects[i])
    BY <1>1, <1>3 DEF IsAssembled
  <2>2. Len(carried.objects) \in Nat /\ carried.objects \in Seq(CarriedObject)
    BY DEF IsCarried
  <2>3. j \in Found(carried, entry.digest)
    <3>1. Found(carried, entry.digest) # {} /\ Found(carried, entry.digest) \in SUBSET (1..Len(carried.objects))
      BY <2>1 DEF verifyEntry, Found
    <3>2. QED
      BY <2>2, <3>1, LastOfSome
  <2> DEFINE obj == carried.objects[j]
  <2>4. /\ obj.kind = entry.kind /\ obj.trust_label = entry.trust_label
        /\ verifyEnvelope(obj.envelope, keys, FALSE) /\ envelopeDigest(obj.envelope) = entry.digest
    BY <2>1 DEF verifyEntry
  <2>5. j \in 1..Len(carried.objects) /\ obj.digest = entry.digest
    BY <2>3 DEF Found
  <2> HIDE DEF entry, j
  <2>6. entry.kind = assembled.objects[i].kind /\ entry.trust_label = assembled.objects[i].trust_label
        /\ entry.digest = assembled.objects[i].digest
    BY <2>1 DEF entryOf
  <2>7. entryOf(obj) = entryOf(assembled.objects[i])
    BY <2>4, <2>5, <2>6 DEF entryOf
  <2>8. obj.envelope.statement = assembled.objects[i].envelope.statement
    BY <2>4, <2>6 DEF envelopeDigest, IsAssembled
  <2>9. obj.envelope.ed25519 = "valid"
    BY <2>4 DEF verifyEnvelope
  <2>10. QED
    BY <2>5, <2>7, <2>8, <2>9
<1>5. ASSUME NEW i \in 1..Len(assembled.checkpoints)
     
            PROVE  \E j \in 1..Len(carried.checkpoints) : carried.checkpoints[j].statement = assembled.checkpoints[i].statement
  BY <1>1, <1>3 DEF IsAssembled, envelopeDigest
<1>6. QED
  BY <1>1, <1>3, <1>4, <1>5

\* What the verifiers find depends on the bundle alone, so it is right when it
\* is found, and the offline ones find no more than the daemon.
LEMMA JudgedRightly ==
    ASSUME BundleInv, verifyCarried
    PROVE  BundleInv' /\ AcceptedIsSealed' /\ OfflineNoLaxer'
<1>1. PICK keys \in {"both", "ed25519 only", "others"} :
          judged' = [keys |-> keys, hub |-> verifyBundle(carried, keys),
                     browser |-> verifyBundleOffline(carried, keys), cli |-> helmdVerify(carried, keys)]
  BY DEF verifyCarried
<1>2. UNCHANGED <<signed, assembled, carried>> /\ carried # Absent
  BY DEF verifyCarried
<1>3. IsCarried(carried) /\ IsAssembled(assembled)
  BY <1>2 DEF BundleInv
<1>4. BundleInv'
  BY <1>2 DEF BundleInv, IsCarried, IsAssembled, CarriedObject, CarriedEnvelope
<1>5. /\ judged'.hub = verifyBundle(carried, keys) /\ judged'.browser = verifyBundleOffline(carried, keys)
      /\ judged'.cli = helmdVerify(carried, keys)
  BY <1>1
<1> DEFINE hubPassed == \A i \in 1..Len(carried.checkpoints) : verifyEnvelope(carried.checkpoints[i], keys, FALSE)
           offlinePassed == \A i \in 1..Len(carried.checkpoints) : verifyCheckpointOffline(carried.checkpoints[i], keys)
<1>6. verifyBundle(carried, keys) = verdictOf(carried, keys, hubPassed)
  BY DEF verifyBundle
<1>7. verifyBundleOffline(carried, keys) = verdictOf(carried, keys, offlinePassed)
  BY DEF verifyBundleOffline
<1>8. offlinePassed => hubPassed
  BY DEF verifyCheckpointOffline
<1> HIDE DEF hubPassed, offlinePassed
<1>9. helmdVerify(carried, keys) = "valid" => verifyBundleOffline(carried, keys) = "valid"
  BY DEF helmdVerify
<1>10. AcceptedIsSealed'
  <2>1. CASE verdictOf(carried, keys, hubPassed) = "valid"
    BY <1>2, <1>3, <2>1, ValidIsSealed DEF AcceptedIsSealed
  <2>2. CASE verdictOf(carried, keys, offlinePassed) = "valid"
    BY <1>2, <1>3, <2>2, ValidIsSealed DEF AcceptedIsSealed
  <2>3. QED
    BY <1>5, <1>6, <1>7, <1>9, <2>1, <2>2 DEF AcceptedIsSealed
<1>11. OfflineNoLaxer'
  <2>1. verdictOf(carried, keys, offlinePassed) = "valid" => verdictOf(carried, keys, hubPassed) = "valid"
    BY <1>8 DEF verdictOf
  <2>2. helmdVerify(carried, keys) # "usage" =>
            (helmdVerify(carried, keys) = "valid" <=> verifyBundleOffline(carried, keys) = "valid")
    BY DEF helmdVerify
  <2>3. QED
    BY <1>5, <1>6, <1>7, <2>1, <2>2 DEF OfflineNoLaxer
<1>12. QED
  BY <1>4, <1>10, <1>11

\* An import has verified what it writes.
LEMMA ImportsKnown == Imported => ImportedIsKnown
<1> SUFFICES ASSUME Imported, NEW i \in 1..Len(outFile)
             PROVE  /\ outFile[i].ed25519 = "valid" /\ outFile[i].mldsa44 # "wrong"
                    /\ outFile[i].statement.type = "h2h_envelope_v1"
                    /\ outFile[i].statement.version = 1
                    /\ outFile[i].statement.payload_type = "matter_bundle"
  BY DEF ImportedIsKnown
<1>1. PICK e, strict : outFile = <<e>> /\ importH2HEnvelope(e, strict)
  <2>1. outFile # <<>>
    OBVIOUS
  <2>2. QED
    BY <2>1 DEF Imported
<1>2. outFile[i] = e
  BY <1>1
<1>3. QED
  BY <1>1, <1>2 DEF importH2HEnvelope, verifyEnvelope, KNOWN_PAYLOAD_TYPES

\* A root determines the entries it is chained from.
LEMMA RootDetermines ==
    ASSUME NEW s \in Seq(RunId), NEW t \in Seq(RunId), digestEntries(s) = digestEntries(t)
    PROVE  s = t
<1>1. 1..Len(s) = 1..Len(t) /\ Len(s) \in Nat /\ Len(t) \in Nat
  <2>1. DOMAIN digestEntries(s) = 1..Len(s) /\ DOMAIN digestEntries(t) = 1..Len(t)
    BY DEF digestEntries
  <2>2. QED
    BY <2>1
<1>2. Len(s) = Len(t)
  <2>1. \A n \in Nat : n \in 1..Len(s) <=> n \in 1..Len(t)
    BY <1>1
  <2>2. QED
    BY <1>1, <2>1
<1>3. ASSUME NEW i \in 1..Len(s) PROVE s[i] = t[i]
  <2>1. digestEntries(s)[i].digest = s[i] /\ digestEntries(t)[i].digest = t[i]
    BY <1>1 DEF digestEntries
  <2>2. QED
    BY <2>1
<1>4. QED
  BY <1>2, <1>3

\* A browser's journal on its way keeps what it was made from; only its parts wear.
LEMMA MovingKeeps ==
    ASSUME MovingInv, MigratedIsWhole, buildMigrationBundle \/ wearMigration \/ submitMigrationToDaemon
    PROVE  MovingInv' /\ MigratedIsWhole'
<1> DEFINE like(j, r, raw, m, a) == [journal_entries |-> j, root |-> r, raw |-> raw, made_from |-> m, accepted |-> a]
<1>1. CASE buildMigrationBundle
  <2>1. PICK entries \in UNION {[1..n -> RunId] : n \in 1..MaxRows} :
            moving' = like(digestEntries(entries), digestEntries(entries), entries, entries, FALSE)
    BY <1>1 DEF buildMigrationBundle
  <2>2. entries \in Seq(RunId)
    <3>1. PICK n \in 1..MaxRows : entries \in [1..n -> RunId]
      OBVIOUS
    <3>2. QED
      BY <3>1
  <2>3. QED
    BY <2>1, <2>2 DEF MovingInv, MovingShape, MigratedIsWhole
<1>2. CASE wearMigration
  <2>1. moving # <<>> /\ ~moving.accepted /\ MovingShape(moving)
    BY <1>2 DEF wearMigration, MovingInv
  <2>2. moving = like(moving.journal_entries, moving.root, moving.raw, moving.made_from, moving.accepted)
    BY <2>1 DEF MovingShape
  <2>3. ASSUME NEW raw \in Seq(RunId), NEW j,
               moving' = like(j, moving.root, raw, moving.made_from, moving.accepted)
        PROVE  MovingInv' /\ MigratedIsWhole'
    <3>1. /\ moving'.journal_entries = j /\ moving'.root = moving.root /\ moving'.raw = raw
          /\ moving'.made_from = moving.made_from
      BY <2>3
    <3>2. moving'.accepted = moving.accepted
      BY <2>3, Zenon
    <3>3. moving' = like(moving'.journal_entries, moving'.root, moving'.raw, moving'.made_from, moving'.accepted)
      BY <2>3, <3>1, <3>2, Zenon
    <3>4. moving'.accepted \in BOOLEAN /\ ~moving'.accepted
      BY <2>1, <3>2, Zenon DEF MovingShape
    <3>5. MovingShape(moving')
      BY <2>1, <3>1, <3>3, <3>4, Zenon DEF MovingShape
    <3>6. QED
      BY <3>4, <3>5, Zenon DEF MovingInv, MigratedIsWhole
  <2>4. ASSUME NEW i \in 1..Len(moving.raw), moving' = [moving EXCEPT !.raw = RemoveAt(@, i)]
        PROVE  MovingInv' /\ MigratedIsWhole'
    <3>1. RemoveAt(moving.raw, i) \in Seq(RunId)
      BY <2>1, WithoutOne DEF MovingShape
    <3>2. moving' = like(moving.journal_entries, moving.root, RemoveAt(moving.raw, i), moving.made_from, moving.accepted)
      BY <2>2, <2>4
    <3>3. QED
      BY <2>3, <3>1, <3>2
  <2>5. ASSUME NEW i \in 1..Len(moving.raw), NEW x \in RunId, moving' = [moving EXCEPT !.raw[i] = x]
        PROVE  MovingInv' /\ MigratedIsWhole'
    <3>1. [moving.raw EXCEPT ![i] = x] \in Seq(RunId)
      BY <2>1, WithOther DEF MovingShape
    <3>2. moving' = like(moving.journal_entries, moving.root, [moving.raw EXCEPT ![i] = x], moving.made_from, moving.accepted)
      BY <2>2, <2>5
    <3>3. QED
      BY <2>3, <3>1, <3>2
  <2>6. ASSUME NEW i \in 1..Len(moving.journal_entries),
               moving' = [moving EXCEPT !.journal_entries = RemoveAt(@, i)]
        PROVE  MovingInv' /\ MigratedIsWhole'
    <3>1. moving' = like(RemoveAt(moving.journal_entries, i), moving.root, moving.raw, moving.made_from, moving.accepted)
      BY <2>2, <2>6
    <3>2. moving.raw \in Seq(RunId)
      BY <2>1 DEF MovingShape
    <3>3. QED
      BY <2>3, <3>1, <3>2
  <2>7. QED
    BY <1>2, <2>4, <2>5, <2>6 DEF wearMigration
<1>3. CASE submitMigrationToDaemon
  <2>1. /\ moving # <<>> /\ MovingShape(moving) /\ moving' = [moving EXCEPT !.accepted = TRUE]
        /\ digestEntries(moving.raw) = moving.root
    BY <1>3 DEF submitMigrationToDaemon, MovingInv, verifyBundleContinuity
  <2>2. moving.raw = moving.made_from
    BY <2>1, RootDetermines DEF MovingShape
  <2>3. moving' = like(moving.journal_entries, moving.root, moving.raw, moving.made_from, TRUE)
    BY <2>1 DEF MovingShape
  <2>4. /\ moving'.journal_entries = moving.journal_entries /\ moving'.root = moving.root /\ moving'.raw = moving.raw
        /\ moving'.made_from = moving.made_from
    BY <2>3
  <2>5. moving'.accepted = TRUE
    BY <2>3, Zenon
  <2>6. MovingShape(moving')
    BY <2>1, <2>3, <2>4, <2>5, Zenon DEF MovingShape
  <2>7. QED
    BY <2>2, <2>4, <2>6 DEF MovingInv, MigratedIsWhole
<1>4. QED
  BY <1>1, <1>2, <1>3

\* Every step of the sender, the way and the receiver keeps the invariant.
LEMMA EvidenceStep == EvidenceInv /\ [EvidenceNext]_evidenceVars => EvidenceInv'
<1> SUFFICES ASSUME EvidenceInv, [EvidenceNext]_evidenceVars PROVE EvidenceInv'
  OBVIOUS
<1>1. ASSUME UNCHANGED <<signed, assembled, carried, judged>>
      PROVE BundleInv' /\ AcceptedIsSealed' /\ OfflineNoLaxer'
  BY <1>1 DEF EvidenceInv, BundleInv, AcceptedIsSealed, OfflineNoLaxer, IsCarried, IsAssembled,
     CarriedObject, CarriedEnvelope
<1>2. ASSUME UNCHANGED outFile PROVE Imported'
  BY <1>2 DEF EvidenceInv, Imported
<1>3. ASSUME UNCHANGED moving PROVE MovingInv' /\ MigratedIsWhole'
  BY <1>3 DEF EvidenceInv, MovingInv, MigratedIsWhole
<1>4. CASE runCheck \/ exportFreshnessReceiptZip \/ buildGwlogBundle
  <2>1. /\ IsCarried(carried)' /\ IsAssembled(assembled)' /\ carried' # Absent /\ assembled' # Absent
        /\ assembled = Absent
    BY <1>4, BundlesAreProduced
  <2>2. UNCHANGED <<judged, outFile, moving>>
    BY <1>4 DEF runCheck, exportFreshnessReceiptZip, buildGwlogBundle, produce
  <2>3. judged' = NoResult
    BY <2>1, <2>2 DEF EvidenceInv, BundleInv
  <2>4. BundleInv' /\ AcceptedIsSealed' /\ OfflineNoLaxer'
    BY <2>1, <2>3 DEF BundleInv, AcceptedIsSealed, OfflineNoLaxer
  <2>5. QED
    BY <1>2, <1>3, <2>2, <2>4 DEF EvidenceInv
<1>5. CASE wearBundle
  <2>1. carried # Absent /\ judged' = NoResult /\ UNCHANGED <<signed, assembled, outFile, moving>>
    BY <1>5 DEF wearBundle
  <2>2. IsCarried(carried) /\ IsAssembled(assembled) /\ assembled # Absent
    BY <2>1 DEF EvidenceInv, BundleInv
  <2>3. IsCarried(carried')
    BY <1>5, <2>2, WornWhole
  <2>4. carried' # Absent
    <3>1. DOMAIN carried' = {"predicate", "manifest", "objects", "checkpoints"} /\ DOMAIN Absent = {"objects"}
      BY <2>3 DEF IsCarried, Absent
    <3>2. QED
      BY <3>1
  <2>5. BundleInv'
    BY <2>1, <2>2, <2>3, <2>4 DEF BundleInv, IsCarried, IsAssembled, CarriedObject, CarriedEnvelope
  <2>6. QED
    BY <1>2, <1>3, <2>1, <2>5 DEF EvidenceInv, AcceptedIsSealed, OfflineNoLaxer
<1>6. CASE verifyCarried
  <2>1. UNCHANGED <<outFile, moving>>
    BY <1>6 DEF verifyCarried
  <2>2. QED
    BY <1>2, <1>3, <1>6, <2>1, JudgedRightly DEF EvidenceInv
<1>7. CASE (\E run \in RunId : exportRunProofZip(run)) \/ exportH2HEnvelope \/ UNCHANGED evidenceVars
  <2>1. UNCHANGED <<signed, assembled, carried, judged, outFile, moving>>
    BY <1>7 DEF exportRunProofZip, exportH2HEnvelope, evidenceVars
  <2>2. QED
    BY <1>1, <1>2, <1>3, <2>1 DEF EvidenceInv
<1>8. CASE bilatImport
  <2>1. PICK e \in mail, strict \in BOOLEAN :
            outFile' = IF importH2HEnvelope(e, strict) THEN Append(outFile, e) ELSE outFile
    BY <1>8 DEF bilatImport
  <2>2. Len(outFile) = 0 /\ UNCHANGED <<signed, assembled, carried, judged, moving>>
    BY <1>8 DEF bilatImport
  <2>3. outFile = <<>>
    BY <2>2 DEF EvidenceInv, Imported
  <2>4. Imported'
    BY <2>1, <2>3 DEF Imported
  <2>5. QED
    BY <1>1, <1>3, <2>2, <2>4 DEF EvidenceInv
<1>9. CASE buildMigrationBundle \/ wearMigration \/ submitMigrationToDaemon
  <2>1. UNCHANGED <<signed, assembled, carried, judged, outFile>>
    BY <1>9 DEF buildMigrationBundle, wearMigration, submitMigrationToDaemon
  <2>2. QED
    BY <1>1, <1>2, <1>9, <2>1, MovingKeeps DEF EvidenceInv
<1>10. QED
  BY <1>4, <1>5, <1>6, <1>7, <1>8, <1>9 DEF EvidenceNext

\* What leaves the machine is accepted elsewhere only as it was sealed, whatever
\* is dropped, doubled, exchanged or damaged on the way, and no verifier accepts
\* what the daemon would not (bundle.mjs, ui/lib/verify-bundle.mjs, h2h-envelope.mjs,
\* migration-import.mjs).
THEOREM SealedIsAccepted == EvidenceSpec => []EvidenceIsWhole
<1>1. EvidenceInit => EvidenceInv
  BY DEF EvidenceInit, EvidenceInv, BundleInv, Imported, MovingInv, AcceptedIsSealed, OfflineNoLaxer,
     MigratedIsWhole
<1>2. EvidenceInv => EvidenceIsWhole
  BY ImportsKnown DEF EvidenceInv, EvidenceIsWhole
<1>3. QED
  BY EvidenceStep, <1>1, <1>2, PTL DEF EvidenceSpec
-----------------------------------------------------------------------------
(* Matters. The tables only grow, so what once resolved resolves for ever, *)
(* and an export that was assembled from what resolved stays whole.        *)

MatterTypeOK ==
    /\ hashOf \in [Run -> Hash \cup {Nil}]
    /\ DOMAIN registry = Hash
    /\ matters \in [Matter -> Manifest \cup {Nil}]
    /\ closedAs \in [Matter -> Manifest \cup {Nil}]
    /\ used \subseteq Matter /\ closing \in used \cup {Nil}
    /\ DOMAIN exports \subseteq used
    /\ \A m \in Matter : matters[m] # Nil => m \in used

\* Between its two commits a closing has a row that resolves and is what it closed as.
ClosingHolds == closing # Nil => /\ matters[closing] \in Manifest
                                 /\ closedAs[closing] = matters[closing]
                                 /\ unresolvedBindings(matters[closing].bindings) = {}

\* A manifest whose local bindings resolve, and the runs that were sent with it.
Covers(manifest, runOf) ==
    \A b \in manifest.bindings :
        /\ b.kind # "external_reference" => resolves(b)
        /\ b.kind = "run" => runOf[b] \in RunsWith(b.hash)

Assembled(e) ==
    \E manifest \in Manifest : \E runOf \in [manifest.bindings -> Run \cup {NoRun}] :
        e = assembleMatterExport(manifest, runOf) /\ Covers(manifest, runOf)

ExportsAssembled == \A m \in DOMAIN exports : Assembled(exports[m])

MatterInv == /\ MatterTypeOK /\ BindingsResolve /\ ClosingHolds
             /\ ExportsAssembled /\ ExportOfLastClosing /\ DoneSinceExport

\* What ExportHasNoHole says of one export.
HasNoHole(e) ==
    /\ {a.binding : a \in ToSet(e.artifacts)} = e.matter.bindings
    /\ \A a \in ToSet(e.artifacts) :
          /\ a.exported <=> resolves(a.binding)
          /\ a.binding.kind = "run" => hashOf[a.run] = a.binding.hash
    /\ ToSet(e.dat) = e.matter.bindings
    /\ {line.binding : line \in ToSet(e.pdf.lines)} = e.matter.bindings
    /\ \A i \in DOMAIN e.pdf.lines :
          LET line == e.pdf.lines[i]
              leaf == e.pdf.kids[line.says]
          IN leaf = e.pdf.links[i] /\ leaf = e.pdf.bookmarks[line.says]
             /\ e.pdf.objects[leaf].binding = line.binding
    /\ \A d \in e.matter.deadlines : d.done \/ d \in e.pdf.open

\* A finite set put in order has each of its elements at some place.
LEMMA SetInOrder ==
    ASSUME NEW S, IsFiniteSet(S)
    PROVE  /\ Cardinality(S) \in Nat
           /\ SetToSeq(S) \in [1..Cardinality(S) -> S]
           /\ Len(SetToSeq(S)) = Cardinality(S)
           /\ \A x \in S : \E i \in 1..Cardinality(S) : SetToSeq(S)[i] = x
<1> DEFINE n == Cardinality(S)
           order == SetToSeq(S)
<1>1. n \in Nat /\ ExistsBijection(1..n, S)
  BY FS_CardinalityType
<1>2. PICK f : f \in Injection(1..n, S)
  BY <1>1 DEF ExistsBijection, Bijection
<1>3. f \in [1..n -> S] /\ IsInjective(f)
  BY <1>2 DEF Injection
<1>4. order \in [1..n -> S] /\ IsInjective(order)
  BY <1>3 DEF SetToSeq
<1>5. order \in Injection(1..n, S)
  BY <1>4 DEF Injection
<1>6. IsFiniteSet(1..n) /\ Cardinality(1..n) = n
  BY <1>1, FS_Interval
<1>7. order \in Surjection(1..n, S)
  BY <1>5, <1>6, FS_Injection
<1>8. \A x \in S : \E i \in 1..n : order[i] = x
  BY <1>7 DEF Surjection
<1> HIDE DEF order, n
<1>9. order \in Seq(S) /\ Len(order) = n
  BY <1>1, <1>4, SeqDef
<1>10. QED
  BY <1>1, <1>4, <1>8, <1>9 DEF order, n

\* Every binding of an assembled export has its artifact, its row, its line,
\* its link, its bookmark and its page.
LEMMA AssembledHasNoHole ==
    ASSUME NEW manifest \in Manifest, NEW runOf, Covers(manifest, runOf)
    PROVE  HasNoHole(assembleMatterExport(manifest, runOf))
<1> DEFINE S == manifest.bindings
           order == SetToSeq(S)
           n == Cardinality(S)
           artifacts == [i \in 1..n |-> exportBindingArtifact(order[i], runOf[order[i]])]
           pdf == buildEBundlePdf(manifest, artifacts)
           dat == buildEdrmDat(artifacts)
           e == assembleMatterExport(manifest, runOf)
<1>1. S \subseteq Binding /\ IsFiniteSet(S)
  BY DEF Manifest, Bindings
<1>2. n \in Nat /\ order \in [1..n -> S] /\ Len(order) = n
      /\ \A x \in S : \E i \in 1..n : order[i] = x
  BY <1>1, SetInOrder
<1>3. e.matter = manifest /\ e.artifacts = artifacts /\ e.pdf = pdf /\ e.dat = dat
  BY <1>2 DEF assembleMatterExport
<1> HIDE DEF e, order, n
<1>4. \A i \in 1..n : artifacts[i].binding = order[i] /\ order[i] \in S
  BY <1>2 DEF exportBindingArtifact
<1>5. DOMAIN artifacts = 1..n /\ Len(artifacts) = n
  BY <1>2
<1>6. \A i \in 1..n :
         /\ artifacts[i].exported <=> resolves(order[i])
         /\ order[i].kind = "run" => hashOf[artifacts[i].run] = order[i].hash
  <2> SUFFICES ASSUME NEW i \in 1..n
               PROVE  /\ artifacts[i].exported <=> resolves(order[i])
                      /\ order[i].kind = "run" => hashOf[artifacts[i].run] = order[i].hash
    OBVIOUS
  <2> DEFINE b == order[i]
  <2>1. b \in S /\ artifacts[i] = exportBindingArtifact(b, runOf[b])
    BY <1>4
  <2> HIDE DEF b, artifacts, S
  <2>2. CASE b.kind = "external_reference"
    <3>1. artifacts[i].exported = FALSE
      BY <2>1, <2>2 DEF exportBindingArtifact
    <3>2. ~resolves(b)
      BY <2>2 DEF resolves
    <3>3. QED
      BY <3>1, <3>2, <2>2, Zenon DEF b
  <2>3. CASE b.kind # "external_reference"
    <3>1. artifacts[i].exported = TRUE /\ artifacts[i].run = runOf[b]
      BY <2>1, <2>3 DEF exportBindingArtifact
    <3>2. resolves(b) /\ (b.kind = "run" => runOf[b] \in RunsWith(b.hash))
      BY <2>1, <2>3 DEF Covers, S
    <3>3. b.kind = "run" => hashOf[runOf[b]] = b.hash
      BY <3>2 DEF RunsWith
    <3>4. QED
      BY <3>1, <3>2, <3>3, Zenon DEF b
  <2>4. QED
    BY <2>2, <2>3
<1> HIDE DEF artifacts
<1>7. /\ pdf.open = {d \in manifest.deadlines : ~d.done}
      /\ pdf.lines = [i \in 1..n |-> [binding |-> artifacts[i].binding, says |-> i + 1]]
      /\ pdf.links = [i \in 1..n |-> 4 + 2 * i]
      /\ pdf.bookmarks = [k \in 1..(n + 1) |-> 4 + 2 * (k - 1)]
      /\ pdf.kids = [k \in 1..(n + 1) |-> 4 + 2 * (k - 1)]
      /\ pdf.objects = [p \in {4 + 2 * i : i \in 1..n} |-> artifacts[(p - 4) \div 2]]
  BY <1>5 DEF buildEBundlePdf
<1>8. dat = [i \in 1..n |-> artifacts[i].binding]
  BY <1>5 DEF buildEdrmDat
<1> HIDE DEF pdf, dat, S
<1>9. {a.binding : a \in ToSet(artifacts)} = S
  <2>1. \A a \in ToSet(artifacts) : a.binding \in S
    BY <1>4, <1>5, Zenon DEF ToSet
  <2>2. \A x \in S : \E a \in ToSet(artifacts) : a.binding = x
    BY <1>2, <1>4, <1>5, Zenon DEF ToSet
  <2>3. QED
    BY <2>1, <2>2, Zenon
<1>10. \A a \in ToSet(artifacts) :
          /\ a.exported <=> resolves(a.binding)
          /\ a.binding.kind = "run" => hashOf[a.run] = a.binding.hash
  <2> SUFFICES ASSUME NEW i \in 1..n
               PROVE  /\ artifacts[i].exported <=> resolves(artifacts[i].binding)
                      /\ artifacts[i].binding.kind = "run" => hashOf[artifacts[i].run] = artifacts[i].binding.hash
    BY <1>5, Zenon DEF ToSet
  <2>1. QED
    BY <1>4, <1>6, Zenon
<1>11. ToSet(dat) = S
  BY <1>2, <1>4, <1>8 DEF ToSet
<1>12. {line.binding : line \in ToSet(pdf.lines)} = S
  <2> DEFINE lines == pdf.lines
  <2>1. DOMAIN lines = 1..n /\ \A i \in 1..n : lines[i].binding = order[i]
    BY <1>4, <1>7
  <2> HIDE DEF lines
  <2>2. \A line \in ToSet(lines) : line.binding \in S
    BY <2>1, <1>4 DEF ToSet
  <2>3. \A x \in S : \E line \in ToSet(lines) : line.binding = x
    BY <2>1, <1>2 DEF ToSet
  <2>4. QED
    BY <2>2, <2>3 DEF lines
<1>13. \A i \in DOMAIN pdf.lines :
          LET line == pdf.lines[i]
              leaf == pdf.kids[line.says]
          IN leaf = pdf.links[i] /\ leaf = pdf.bookmarks[line.says]
             /\ pdf.objects[leaf].binding = line.binding
  <2> SUFFICES ASSUME NEW i \in 1..n
               PROVE  LET line == pdf.lines[i]
                          leaf == pdf.kids[line.says]
                      IN leaf = pdf.links[i] /\ leaf = pdf.bookmarks[line.says]
                         /\ pdf.objects[leaf].binding = line.binding
    BY <1>7
  <2>1. pdf.lines[i].binding = artifacts[i].binding /\ pdf.lines[i].says = i + 1
    BY <1>7
  <2>2. i + 1 \in 1..(n + 1) /\ i \in Nat
    BY <1>2
  <2>3. pdf.kids[i + 1] = 4 + 2 * i /\ pdf.bookmarks[i + 1] = 4 + 2 * i /\ pdf.links[i] = 4 + 2 * i
    BY <1>7, <2>2
  <2>4. (4 + 2 * i - 4) \div 2 = i
    BY <2>2
  <2>5. pdf.objects[4 + 2 * i] = artifacts[i]
    BY <1>7, <2>4
  <2>6. QED
    BY <2>1, <2>3, <2>5
<1>14. \A d \in manifest.deadlines : d.done \/ d \in pdf.open
  BY <1>7
<1>15. HasNoHole(e)
  BY <1>3, <1>9, <1>10, <1>11, <1>12, <1>13, <1>14 DEF HasNoHole, S
<1>16. QED
  BY <1>15 DEF e

\* What a binding of a local kind resolves by.
LEMMA ResolvesBy ==
    ASSUME NEW b
    PROVE  /\ b.kind = "run" => (resolves(b) <=> \E r \in Run : hashOf[r] = b.hash)
           /\ b.kind = "approval_record" => (resolves(b) <=> b.hash \in approvals)
           /\ b.kind = "attested_artifact" => (resolves(b) <=> b.hash \in attested)
           /\ b.kind = "evidence_bundle" => (resolves(b) <=> registry[b.hash] # Nil)
<1>1. RunsWith(b.hash) # {} <=> \E r \in Run : hashOf[r] = b.hash
  BY Zenon DEF RunsWith
<1>2. QED
  BY <1>1, Zenon DEF resolves

\* A table keeps what it holds.
TablesKeep == /\ \A r \in Run : hashOf[r] # Nil => hashOf'[r] = hashOf[r]
              /\ approvals \subseteq approvals' /\ attested \subseteq attested'
              /\ \A h \in Hash : registry[h] # Nil => registry'[h] = registry[h]

\* What resolves goes on resolving, by the same runs.
LEMMA ResolvesOn ==
    ASSUME TablesKeep, NEW b \in Binding
    PROVE  /\ b.kind # "external_reference" /\ resolves(b) => resolves(b)'
           /\ RunsWith(b.hash) \subseteq RunsWith(b.hash)'
<1>1. b.hash \in Hash /\ b.hash # Nil
  BY MatterAssumption DEF Binding
<1>2. RunsWith(b.hash) \subseteq RunsWith(b.hash)'
  BY <1>1 DEF RunsWith, TablesKeep
<1>3. b.kind \in {"run", "approval_record", "attested_artifact", "evidence_bundle", "external_reference"}
  BY DEF Binding, LocalKind
<1>4. CASE b.kind = "run"
  <2>1. resolves(b) => resolves(b)'
    BY <1>2, <1>4, Zenon DEF resolves
  <2>2. QED
    BY <1>2, <2>1
<1>5. CASE b.kind = "approval_record"
  <2>1. resolves(b) => resolves(b)'
    <3>1. resolves(b) <=> b.hash \in approvals
      BY <1>5, ResolvesBy
    <3>2. resolves(b)' <=> b.hash \in approvals'
      BY <1>5, Zenon DEF resolves
    <3>3. QED
      BY <3>1, <3>2 DEF TablesKeep
  <2>2. QED
    BY <1>2, <2>1
<1>6. CASE b.kind = "attested_artifact"
  <2>1. resolves(b) => resolves(b)'
    <3>1. resolves(b) <=> b.hash \in attested
      BY <1>6, ResolvesBy
    <3>2. resolves(b)' <=> b.hash \in attested'
      BY <1>6, Zenon DEF resolves
    <3>3. QED
      BY <3>1, <3>2 DEF TablesKeep
  <2>2. QED
    BY <1>2, <2>1
<1>7. CASE b.kind = "evidence_bundle"
  <2>1. resolves(b) => resolves(b)'
    <3>1. resolves(b) <=> registry[b.hash] # Nil
      BY <1>7, ResolvesBy
    <3>2. resolves(b)' <=> registry'[b.hash] # Nil
      BY <1>7, Zenon DEF resolves
    <3>3. QED
      BY <1>1, <3>1, <3>2 DEF TablesKeep
  <2>2. QED
    BY <1>2, <2>1
<1>8. QED
  BY <1>2, <1>3, <1>4, <1>5, <1>6, <1>7

\* A manifest that is covered stays covered, by the same runs.
LEMMA CoversOn ==
    ASSUME TablesKeep, NEW manifest \in Manifest, NEW runOf, Covers(manifest, runOf)
    PROVE  Covers(manifest, runOf)'
<1>1. manifest.bindings \subseteq Binding
  BY DEF Manifest, Bindings
<1>2. \A b \in manifest.bindings : /\ b.kind # "external_reference" => resolves(b)'
                                   /\ b.kind = "run" => runOf[b] \in RunsWith(b.hash)'
  <2> SUFFICES ASSUME NEW b \in manifest.bindings
               PROVE  /\ b.kind # "external_reference" => resolves(b)'
                      /\ b.kind = "run" => runOf[b] \in RunsWith(b.hash)'
    OBVIOUS
  <2>1. b \in Binding
    BY <1>1
  <2>2. /\ b.kind # "external_reference" => resolves(b)
        /\ b.kind = "run" => runOf[b] \in RunsWith(b.hash)
    BY Zenon DEF Covers
  <2>3. /\ b.kind # "external_reference" /\ resolves(b) => resolves(b)'
        /\ RunsWith(b.hash) \subseteq RunsWith(b.hash)'
    BY <2>1, ResolvesOn
  <2>4. QED
    BY <2>2, <2>3, Zenon
<1>3. QED
  BY <1>2, Zenon DEF Covers

\* An export that was assembled from what resolved counts as such for ever.
LEMMA AssembledOn == ASSUME TablesKeep, NEW e, Assembled(e) PROVE Assembled(e)'
<1>1. PICK manifest \in Manifest : \E runOf \in [manifest.bindings -> Run \cup {NoRun}] :
          e = assembleMatterExport(manifest, runOf) /\ Covers(manifest, runOf)
  BY Zenon DEF Assembled
<1>2. PICK runOf \in [manifest.bindings -> Run \cup {NoRun}] :
          e = assembleMatterExport(manifest, runOf) /\ Covers(manifest, runOf)
  BY <1>1, Zenon
<1>3. Covers(manifest, runOf)'
  BY <1>2, CoversOn, Zenon
<1>4. QED
  BY <1>2, <1>3, Zenon DEF Assembled

\* Bindings of which none is left unresolved go on resolving.
LEMMA BindingsOn ==
    ASSUME TablesKeep, NEW B, B \subseteq Binding, unresolvedBindings(B) = {}
    PROVE  /\ \A b \in B : b.kind # "external_reference" => resolves(b) /\ resolves(b)'
           /\ unresolvedBindings(B)' = {}
<1>1. \A b \in B : b.kind # "external_reference" => resolves(b)
  BY Zenon DEF unresolvedBindings
<1>2. \A b \in B : b.kind # "external_reference" => resolves(b)'
  BY <1>1, ResolvesOn, Zenon
<1>3. unresolvedBindings(B)' = {}
  BY <1>2, Zenon DEF unresolvedBindings
<1>4. QED
  BY <1>1, <1>2, <1>3, Zenon

\* A step that only inserts into the tables.
LEMMA TablesStep ==
    ASSUME MatterInv, TablesKeep, hashOf' \in [Run -> Hash \cup {Nil}], DOMAIN registry' = Hash,
           UNCHANGED <<matters, exports, closing, used, closedAs>>
    PROVE  MatterInv'
<1>1. MatterTypeOK'
  BY DEF MatterInv, MatterTypeOK
<1>2. \A m \in Matter : matters[m] # Nil =>
          matters[m].bindings \subseteq Binding /\ unresolvedBindings(matters[m].bindings) = {}
  <2> SUFFICES ASSUME NEW m \in Matter, matters[m] # Nil
               PROVE  matters[m].bindings \subseteq Binding /\ unresolvedBindings(matters[m].bindings) = {}
    OBVIOUS
  <2>1. matters[m] \in Manifest
    BY DEF MatterInv, MatterTypeOK
  <2>2. matters[m].bindings \subseteq Binding
    BY <2>1 DEF Manifest, Bindings
  <2>3. QED
    BY <2>2, Zenon DEF MatterInv, BindingsResolve, unresolvedBindings
<1>3. BindingsResolve'
  BY <1>2, BindingsOn, Zenon DEF BindingsResolve
<1>4. ClosingHolds'
  <2>1. CASE closing = Nil
    BY <2>1 DEF ClosingHolds
  <2>2. CASE closing # Nil
    <3>1. matters[closing] \in Manifest /\ closedAs[closing] = matters[closing]
          /\ unresolvedBindings(matters[closing].bindings) = {}
      BY <2>2 DEF MatterInv, ClosingHolds
    <3>2. matters[closing].bindings \subseteq Binding
      BY <3>1 DEF Manifest, Bindings
    <3>3. \A b \in matters[closing].bindings : b.kind # "external_reference" => resolves(b)'
      BY <3>1, <3>2, BindingsOn, Zenon
    <3>4. QED
      BY <3>1, <3>3, Zenon DEF ClosingHolds, unresolvedBindings
  <2>3. QED
    BY <2>1, <2>2
<1>5. ExportsAssembled'
  BY AssembledOn, Zenon DEF MatterInv, ExportsAssembled
<1>6. ExportOfLastClosing' /\ DoneSinceExport'
  BY Zenon DEF MatterInv, ExportOfLastClosing, DoneSinceExport
<1>7. QED
  BY <1>1, <1>3, <1>4, <1>5, <1>6 DEF MatterInv

\* The owners of the tables insert one row.
LEMMA InsertStep ==
    ASSUME MatterInv,
           \/ \E r \in Run, h \in Hash : RunSealed(r, h)
           \/ \E h \in Hash : ApprovalRecorded(h) \/ ArtifactAttested(h)
           \/ \E h \in Hash, r \in Run \cup {NoRun} : registerEvidenceBundle(h, r)
    PROVE  MatterInv'
<1> USE DEF MatterInv, MatterTypeOK
<1>1. CASE \E r \in Run, h \in Hash : RunSealed(r, h)
  <2>1. PICK r \in Run, h \in Hash : RunSealed(r, h)
    BY <1>1
  <2>2. TablesKeep /\ hashOf' \in [Run -> Hash \cup {Nil}]
    BY <2>1 DEF RunSealed, TablesKeep
  <2>3. QED
    BY <2>1, <2>2, TablesStep DEF RunSealed
<1>2. CASE \E h \in Hash : ApprovalRecorded(h) \/ ArtifactAttested(h)
  <2>1. TablesKeep
    BY <1>2 DEF ApprovalRecorded, ArtifactAttested, TablesKeep
  <2>2. QED
    BY <1>2, <2>1, TablesStep DEF ApprovalRecorded, ArtifactAttested
<1>3. CASE \E h \in Hash, r \in Run \cup {NoRun} : registerEvidenceBundle(h, r)
  <2>1. PICK h \in Hash, r \in Run \cup {NoRun} : registerEvidenceBundle(h, r)
    BY <1>3
  <2>2. TablesKeep /\ DOMAIN registry' = Hash
    BY <2>1 DEF registerEvidenceBundle, TablesKeep
  <2>3. QED
    BY <2>1, <2>2, TablesStep DEF registerEvidenceBundle
<1>4. QED
  BY <1>1, <1>2, <1>3

\* What still resolves where no table changed.
LEMMA TablesStay == ASSUME UNCHANGED tables PROVE TablesKeep
BY DEF tables, TablesKeep

\* Rows that are accepted only when their bindings resolve.
LEMMA RowsResolve ==
    ASSUME BindingsResolve, UNCHANGED tables, NEW m \in Matter, NEW row,
           DOMAIN matters = Matter, matters' = [matters EXCEPT ![m] = row],
           unresolvedBindings(row.bindings) = {} \/ row = Nil
    PROVE  BindingsResolve'
<1> SUFFICES ASSUME NEW n \in Matter, matters'[n] # Nil, NEW b \in matters'[n].bindings,
                    b.kind # "external_reference"
             PROVE  resolves(b)'
  BY DEF BindingsResolve
<1>1. resolves(b)
  <2>1. CASE n = m
    <3>1. matters'[n] = row
      BY <2>1
    <3>2. QED
      BY <3>1, Zenon DEF unresolvedBindings
  <2>2. CASE n # m
    <3>1. matters'[n] = matters[n]
      BY <2>2
    <3>2. QED
      BY <3>1, Zenon DEF BindingsResolve
  <2>3. QED
    BY <2>1, <2>2
<1>2. QED
  BY <1>1, Zenon DEF resolves, RunsWith, tables

\* A new matter is open or closed, and has no export yet.
LEMMA CreateStep ==
    ASSUME MatterInv, NEW m \in Matter, NEW manifest \in Manifest, createMatter(m, manifest)
    PROVE  MatterInv'
<1> USE DEF MatterInv
<1>1. /\ closing = Nil /\ m \notin used /\ unresolvedBindings(manifest.bindings) = {}
      /\ matters' = [matters EXCEPT ![m] = manifest] /\ used' = used \cup {m}
      /\ UNCHANGED <<tables, exports, closing, closedAs>>
  BY DEF createMatter, idle
<1>2. MatterTypeOK'
  BY <1>1 DEF MatterTypeOK, tables
<1>3. BindingsResolve'
  BY <1>1, RowsResolve DEF MatterTypeOK
<1>4. ClosingHolds'
  BY <1>1 DEF ClosingHolds
<1>5. ExportsAssembled'
  BY <1>1, TablesStay, AssembledOn, Zenon DEF ExportsAssembled
<1>6. ExportOfLastClosing'
  BY <1>1, Zenon DEF ExportOfLastClosing
<1>7. DoneSinceExport'
  <2>1. \A n \in DOMAIN exports : n # m /\ matters'[n] = matters[n]
    BY <1>1 DEF MatterTypeOK
  <2>2. QED
    BY <1>1, <2>1, Zenon DEF DoneSinceExport
<1>8. QED
  BY <1>2, <1>3, <1>4, <1>5, <1>6, <1>7

\* A deleted matter leaves its export behind.
LEMMA DeleteStep == ASSUME MatterInv, NEW m \in Matter, deleteMatter(m) PROVE MatterInv'
<1> USE DEF MatterInv
<1>1. /\ closing = Nil /\ matters' = [matters EXCEPT ![m] = Nil]
      /\ UNCHANGED <<tables, exports, closing, used, closedAs>>
  BY DEF deleteMatter, idle, tables
<1>2. MatterTypeOK'
  BY <1>1 DEF MatterTypeOK, tables
<1>3. BindingsResolve'
  BY <1>1, RowsResolve DEF MatterTypeOK
<1>4. ClosingHolds'
  BY <1>1 DEF ClosingHolds
<1>5. ExportsAssembled'
  BY <1>1, TablesStay, AssembledOn, Zenon DEF ExportsAssembled
<1>6. ExportOfLastClosing'
  BY <1>1, Zenon DEF ExportOfLastClosing
<1>7. DoneSinceExport'
  <2>1. \A n \in DOMAIN exports : matters'[n] # Nil => matters'[n] = matters[n] /\ matters[n] # Nil
    BY <1>1 DEF MatterTypeOK
  <2>2. QED
    BY <1>1, <2>1, Zenon DEF DoneSinceExport
<1>8. QED
  BY <1>2, <1>3, <1>4, <1>5, <1>6, <1>7

\* A patch makes a manifest of a manifest.
LEMMA MergedIsManifest ==
    ASSUME NEW existing \in Manifest, NEW patch \in Patch
    PROVE  merged(existing, patch) \in Manifest
<1>1. existing.status \in Status /\ existing.deadlines \in Deadlines /\ existing.bindings \in Bindings
      /\ DOMAIN existing = {"status", "deadlines", "bindings"}
  BY DEF Manifest
<1>2. patch.status \in Status \cup {Nil} /\ patch.deadlines \in Deadlines \cup {Nil}
      /\ patch.bindings \in Bindings \cup {Nil}
  BY DEF Patch
<1> DEFINE row == merged(existing, patch)
<1>3. row = [f \in {"status", "deadlines", "bindings"} |-> IF patch[f] = Nil THEN existing[f] ELSE patch[f]]
  BY <1>1 DEF merged
<1> HIDE DEF row
<1>4. row.status \in Status /\ row.deadlines \in Deadlines /\ row.bindings \in Bindings
  BY <1>1, <1>2, <1>3
<1>5. row = [status |-> row.status, deadlines |-> row.deadlines, bindings |-> row.bindings]
  BY <1>3
<1>6. row \in Manifest
  BY <1>4, <1>5 DEF Manifest
<1>7. QED
  BY <1>6 DEF row

\* A matter is patched, closed, reopened or closed again.
LEMMA CloseStep ==
    ASSUME MatterInv, NEW m \in Matter, NEW patch \in Patch, closeMatter(m, patch)
    PROVE  MatterInv'
<1> USE DEF MatterInv
<1> DEFINE before == matters[m]
           row == merged(before, patch)
<1>1. /\ closing = Nil /\ matters[m] # Nil
      /\ stillDone(before.deadlines, row.deadlines) /\ unresolvedBindings(row.bindings) = {}
      /\ matters' = [matters EXCEPT ![m] = row]
      /\ closing' = IF emits(m, before, row) THEN m ELSE Nil
      /\ closedAs' = IF before.status = "open" /\ row.status = "closed"
                     THEN [closedAs EXCEPT ![m] = row] ELSE closedAs
      /\ UNCHANGED <<tables, exports, used>>
  BY DEF closeMatter, idle
<1>2. before \in Manifest /\ m \in used
  BY <1>1 DEF MatterTypeOK
<1>3. row \in Manifest
  BY <1>2, MergedIsManifest
<1>4. before.status \in {"open", "closed"}
  BY <1>2 DEF Manifest, Status
<1>5. emits(m, before, row) <=> before.status = "open" /\ row.status = "closed"
  BY <1>4 DEF emits
<1> HIDE DEF row, before
<1>6. UNCHANGED <<hashOf, registry>>
  BY <1>1 DEF tables
<1>7. MatterTypeOK'
  <2>1. matters' \in [Matter -> Manifest \cup {Nil}]
    BY <1>1, <1>3 DEF MatterTypeOK
  <2>2. closedAs' \in [Matter -> Manifest \cup {Nil}]
    BY <1>1, <1>3 DEF MatterTypeOK
  <2>3. closing' \in used \cup {Nil}
    BY <1>1, <1>2
  <2>4. \A n \in Matter : matters'[n] # Nil => n \in used
    BY <1>1, <1>2 DEF MatterTypeOK
  <2>5. QED
    BY <1>1, <1>6, <2>1, <2>2, <2>3, <2>4 DEF MatterTypeOK
<1>8. BindingsResolve'
  BY <1>1, RowsResolve DEF MatterTypeOK
<1>9. ClosingHolds'
  <2>1. CASE emits(m, before, row)
    <3>1. closing' = m /\ matters'[m] = row /\ closedAs'[m] = row
      BY <1>1, <1>5, <2>1 DEF MatterTypeOK
    <3>2. \A b \in row.bindings : b.kind # "external_reference" => resolves(b)'
      <4>1. row.bindings \subseteq Binding
        BY <1>3 DEF Manifest, Bindings
      <4>2. TablesKeep
        BY <1>1, TablesStay
      <4>3. QED
        BY <1>1, <4>1, <4>2, BindingsOn, Zenon
    <3>3. QED
      BY <1>3, <3>1, <3>2, Zenon DEF ClosingHolds, unresolvedBindings
  <2>2. CASE ~emits(m, before, row)
    BY <1>1, <2>2 DEF ClosingHolds
  <2>3. QED
    BY <2>1, <2>2
<1>10. ExportsAssembled'
  BY <1>1, TablesStay, AssembledOn, Zenon DEF ExportsAssembled
<1>11. ExportOfLastClosing'
  <2> SUFFICES ASSUME NEW n \in Matter, closedAs'[n] # Nil, closing' # n
               PROVE  n \in DOMAIN exports /\ exports[n].matter = closedAs'[n]
    BY <1>1, Zenon DEF ExportOfLastClosing
  <2>1. closedAs'[n] = closedAs[n]
    BY <1>1, <1>5 DEF MatterTypeOK
  <2>2. closing # n
    <3>1. m # Nil
      BY MatterAssumption
    <3>2. n # Nil
      BY MatterAssumption
    <3>3. QED
      BY <1>1, <3>2
  <2>3. QED
    BY <2>1, <2>2, Zenon DEF ExportOfLastClosing
<1>12. DoneSinceExport'
  <2> SUFFICES ASSUME NEW n \in DOMAIN exports, matters'[n] # Nil,
                      NEW d \in exports[n].matter.deadlines, d.done
               PROVE  d \in matters'[n].deadlines
    BY <1>1, Zenon DEF DoneSinceExport
  <2>1. n \in Matter
    BY DEF MatterTypeOK
  <2>2. CASE n = m
    <3>1. matters'[m] = row
      BY <1>1 DEF MatterTypeOK
    <3>2. d \in before.deadlines
      BY <1>1, <2>2 DEF DoneSinceExport, before
    <3>3. d \in row.deadlines
      BY <1>1, <3>2, Zenon DEF stillDone
    <3>4. QED
      BY <2>2, <3>1, <3>3
  <2>3. CASE n # m
    <3>1. matters'[n] = matters[n]
      BY <1>1, <2>1, <2>3 DEF MatterTypeOK
    <3>2. QED
      BY <3>1, Zenon DEF DoneSinceExport
  <2>4. QED
    BY <2>2, <2>3
<1>13. QED
  BY <1>7, <1>8, <1>9, <1>10, <1>11, <1>12

\* The export of a closing is assembled and kept.
LEMMA PersistStep ==
    ASSUME MatterInv, ~idle,
           NEW runOf \in [matters[closing].bindings -> Run \cup {NoRun}],
           persistMatterExport(runOf)
    PROVE  MatterInv'
<1> USE DEF MatterInv
<1> DEFINE manifest == matters[closing]
<1>1. /\ closing # Nil /\ closing \in Matter /\ closing \in used
      /\ manifest \in Manifest /\ closedAs[closing] = manifest
      /\ unresolvedBindings(manifest.bindings) = {}
  BY DEF idle, ClosingHolds, MatterTypeOK
<1>2. \A b \in manifest.bindings : runOf[b] \in artifactRuns(b)
  BY DEF persistMatterExport
<1>3. /\ exports' = [m \in DOMAIN exports \cup {closing} |->
                        IF m = closing THEN assembleMatterExport(manifest, runOf) ELSE exports[m]]
      /\ closing' = Nil /\ UNCHANGED <<tables, matters, used, closedAs>>
  BY <1>1 DEF persistMatterExport
<1>4. Assembled(assembleMatterExport(manifest, runOf))
  <2>1. \A b \in manifest.bindings : b.kind # "external_reference" => resolves(b)
    BY <1>1, Zenon DEF unresolvedBindings
  <2>2. \A b \in manifest.bindings : b.kind = "run" => runOf[b] \in RunsWith(b.hash)
    BY <1>2, Zenon DEF artifactRuns
  <2>3. QED
    BY <1>1, <2>1, <2>2, Zenon DEF Assembled, Covers
<1>5. assembleMatterExport(manifest, runOf).matter = manifest
  BY DEF assembleMatterExport
<1> DEFINE e == assembleMatterExport(manifest, runOf)
<1> HIDE DEF e, manifest
<1>6. /\ DOMAIN exports' = DOMAIN exports \cup {closing} /\ exports'[closing] = e
      /\ \A m \in DOMAIN exports : m # closing => exports'[m] = exports[m]
  BY <1>3 DEF e
<1>7. MatterTypeOK'
  BY <1>1, <1>3, <1>6 DEF MatterTypeOK, tables
<1>8. BindingsResolve'
  BY <1>3, Zenon DEF BindingsResolve, resolves, RunsWith, tables
<1>9. ClosingHolds'
  BY <1>3 DEF ClosingHolds
<1>10. ExportsAssembled'
  <2>1. \A m \in DOMAIN exports' : Assembled(exports'[m])
    BY <1>4, <1>6 DEF ExportsAssembled, e
  <2>2. TablesKeep
    BY <1>3, TablesStay
  <2>3. \A x : Assembled(x) => Assembled(x)'
    BY <2>2, AssembledOn
  <2>4. QED
    BY <2>1, <2>3, Zenon DEF ExportsAssembled
<1>11. ExportOfLastClosing'
  <2> SUFFICES ASSUME NEW m \in Matter, closedAs[m] # Nil
               PROVE  m \in DOMAIN exports' /\ exports'[m].matter = closedAs[m]
    BY <1>3 DEF ExportOfLastClosing
  <2>1. CASE m = closing
    BY <1>1, <1>5, <1>6, <2>1 DEF e
  <2>2. CASE m # closing
    <3>1. m \in DOMAIN exports /\ exports[m].matter = closedAs[m]
      BY <2>2 DEF ExportOfLastClosing
    <3>2. QED
      BY <1>6, <2>2, <3>1
  <2>3. QED
    BY <2>1, <2>2
<1>12. DoneSinceExport'
  <2> SUFFICES ASSUME NEW m \in DOMAIN exports', matters[m] # Nil,
                      NEW d \in exports'[m].matter.deadlines, d.done
               PROVE  d \in matters[m].deadlines
    BY <1>3 DEF DoneSinceExport
  <2>1. CASE m = closing
    BY <1>5, <1>6, <2>1 DEF e, manifest
  <2>2. CASE m # closing
    BY <1>6, <2>2 DEF DoneSinceExport
  <2>3. QED
    BY <2>1, <2>2
<1>13. QED
  BY <1>7, <1>8, <1>9, <1>10, <1>11, <1>12

\* The process dies between the two commits: the row stays, the export is missing.
LEMMA DiesStep == ASSUME MatterInv, diesClosing PROVE MatterInv'
<1> USE DEF MatterInv
<1>1. /\ closing # Nil /\ closedAs' = [closedAs EXCEPT ![closing] = Nil] /\ closing' = Nil
      /\ UNCHANGED <<tables, matters, exports, used>>
  BY DEF diesClosing, idle
<1>2. MatterTypeOK'
  BY <1>1 DEF MatterTypeOK, tables
<1>3. BindingsResolve'
  BY <1>1, Zenon DEF BindingsResolve, resolves, RunsWith, tables
<1>4. ClosingHolds'
  BY <1>1 DEF ClosingHolds
<1>5. ExportsAssembled'
  BY <1>1, TablesStay, AssembledOn, Zenon DEF ExportsAssembled
<1>6. ExportOfLastClosing'
  <2>1. \A m \in Matter : closedAs'[m] # Nil => closing # m /\ closedAs'[m] = closedAs[m]
    BY <1>1 DEF MatterTypeOK
  <2>2. QED
    BY <1>1, <2>1, Zenon DEF ExportOfLastClosing
<1>7. DoneSinceExport'
  BY <1>1, Zenon DEF DoneSinceExport
<1>8. QED
  BY <1>2, <1>3, <1>4, <1>5, <1>6, <1>7

\* Whatever is bound, closed, exported or done again in between, and whenever the
\* process dies, for any matters, runs and hashes: the bindings of every matter
\* resolve, the export of a matter is the one of its last closing and has no
\* hole, and what it shows as done is done (hub/matter-store.mjs).
THEOREM RecordsAreKept == MatterSpec => []MatterKeepsRecord
<1>1. MatterInit => MatterInv
  BY MatterAssumption DEF MatterInit, MatterInv, MatterTypeOK, BindingsResolve, ClosingHolds,
     ExportsAssembled, ExportOfLastClosing, DoneSinceExport
<1>2. MatterInv /\ [MatterNext]_matterVars => MatterInv'
  <2> SUFFICES ASSUME MatterInv, [MatterNext]_matterVars PROVE MatterInv'
    OBVIOUS
  <2>1. CASE UNCHANGED matterVars
    <3>1. TablesKeep /\ UNCHANGED <<matters, exports, closing, used, closedAs>>
      BY <2>1, TablesStay DEF matterVars
    <3>2. hashOf' \in [Run -> Hash \cup {Nil}] /\ DOMAIN registry' = Hash
      BY <2>1 DEF matterVars, tables, MatterInv, MatterTypeOK
    <3>3. QED
      BY <3>1, <3>2, TablesStep
  <2>2. CASE MatterNext
    BY <2>2, InsertStep, CreateStep, CloseStep, DeleteStep, PersistStep, DiesStep DEF MatterNext
  <2>3. QED
    BY <2>1, <2>2
<1>3. MatterInv => MatterKeepsRecord
  <2> SUFFICES ASSUME MatterInv PROVE MatterKeepsRecord
    OBVIOUS
  <2>1. \A m \in DOMAIN exports : HasNoHole(exports[m])
    BY AssembledHasNoHole, Zenon DEF MatterInv, ExportsAssembled, Assembled
  <2>2. ExportHasNoHole
    BY <2>1, Zenon DEF ExportHasNoHole, HasNoHole
  <2>3. QED
    BY <2>2, Zenon DEF MatterInv, MatterKeepsRecord
<1>4. QED
  BY <1>1, <1>2, <1>3, PTL DEF MatterSpec
=============================================================================
