------------------------------ MODULE Identity -------------------------------
(***************************************************************************)
(* hub/keys.mjs, hub/ha-identity.mjs, hub/vault.mjs and                    *)
(* hub/state-snapshot.mjs: the at-rest passphrase, its move out of the     *)
(* state directory into the keychain of the machine, the two blobs it      *)
(* encrypts, and the chain of heads the daemon signs with one of them at   *)
(* every start.                                                            *)
(*                                                                         *)
(* Several processes load the keys: the daemon, before it knows whether    *)
(* the port is free, and verbs such as check, bilat-export and             *)
(* export-intoto. Each file is written by one call, but a load makes many  *)
(* of them, waits for keychain programs in between, and can die anywhere.  *)
(*                                                                         *)
(* A passphrase is a number: 0 is the one of a vault.key from before the   *)
(* keychain, the others are minted. A signing key is the passphrase and    *)
(* the process that wrote its blob.                                        *)
(***************************************************************************)
EXTENDS Naturals, Sequences, FiniteSets

CONSTANTS Daemon, Verb,  \* processes: the daemon and the verbs
          None,
          MaxCrashes,    \* bound: deaths of a process
          MaxLocks,      \* bound: times the keychain becomes unreachable
          MaxLies,       \* bound: times it reports success for nothing
          MaxMints,      \* bound: passphrases minted
          MaxLoads,      \* bound: loads by the daemon
          LoadsOverlap   \* may a load begin during one that sets up the passphrase?

Proc == {Daemon} \cup Verb
Tier == {"native", "file-fallback"}
Pass == 0..MaxMints

ASSUME IdentityAssumption ==
    /\ Daemon \notin Verb /\ None \notin Proc \cup Tier
    /\ None \notin 0..(MaxMints + 1) \cup [phrase : 0..(MaxMints + 1), by : Proc]
    /\ MaxCrashes \in Nat /\ MaxLocks \in Nat /\ MaxLies \in Nat
    /\ MaxMints \in Nat \ {0} /\ MaxLoads \in Nat
    /\ LoadsOverlap \in BOOLEAN

VARIABLES label,    \* passphrase-ref.json: the ref in use, named by who drew it
          legacy,   \* vault.key: its passphrase, or None
          secret,   \* per tier and ref: the value stored
          index,    \* vault-index.json: ref -> tier
          blob,     \* keys.enc.json and ha-identity.enc.json
          pc, want, ref, phrase, idx, tier, \* per process: where it is, the blob
                    \* it loads and its locals
          locked,   \* is the native keychain unreachable?
          crashes, locks, lies, mints, loads,
          unfinished, \* did a process die with a passphrase in the index that it
                      \* had not compared, or had begun to delete?
          snaps,    \* table state_snapshots: for each, journal rows it covers
          heads,    \* table state_heads: root (a snapshot_seq) and signer
          rows,     \* rows of the journal
          captured  \* rows the snapshot in the making covers

store == <<label, legacy, secret, index, blob>>
locals == <<want, ref, phrase, idx, tier>>
counters == <<crashes, unfinished, locks, lies, mints, loads>>
chain == <<snaps, heads, rows, captured>>
identityVars == <<store, pc, locals, locked, counters, chain>>

File == {"keys", "ha"}
Lost == MaxMints + 1  \* a passphrase whose keychain entry was not restored

IdentityInit ==
    /\ label \in {None, Daemon}
    /\ secret = [t \in Tier |-> [p \in Proc |-> None]]
    /\ index = [p \in Proc |-> None]
    /\ \/ legacy = 0
          /\ blob \in {[f \in File |-> IF f \in F THEN [phrase |-> 0, by |-> Daemon] ELSE None] :
                          F \in SUBSET File}
       \/ legacy = None /\ blob = [f \in File |-> None]
       \/ legacy = None /\ blob = [f \in File |-> [phrase |-> Lost, by |-> Daemon]]
    /\ pc = [p \in Proc |-> "off"]
    /\ want = [p \in Proc |-> "keys"]
    /\ ref = [p \in Proc |-> None] /\ phrase = [p \in Proc |-> None]
    /\ idx = [p \in Proc |-> index] /\ tier = [p \in Proc |-> None]
    /\ locked = FALSE /\ crashes = 0 /\ unfinished = FALSE /\ locks = 0 /\ lies = 0 /\ mints = 0 /\ loads = 0
    /\ snaps = <<>> /\ heads = <<>> /\ rows = 0 /\ captured = 0

go(p, from, to) == pc[p] = from /\ pc' = [pc EXCEPT ![p] = to]
set(f, p, v) == [f EXCEPT ![p] = v]
off(p) == /\ pc' = [pc EXCEPT ![p] = "off"] /\ want' = set(want, p, "keys")
          /\ ref' = set(ref, p, None) /\ phrase' = set(phrase, p, None)
          /\ idx' = set(idx, p, [q \in Proc |-> None]) /\ tier' = set(tier, p, None)
-----------------------------------------------------------------------------
(* loadOrCreatePassphrase.                                                 *)

\* existsSync(passphrase-ref.json), and the ref it holds or one drawn anew
lookUpRef(p) ==
    /\ pc' = [pc EXCEPT ![p] = IF label = None THEN "ref" ELSE "look"]
    /\ ref' = set(ref, p, IF label = None THEN p ELSE label)

settled == label # None /\ legacy = None /\ index[label] # None
\* the passphrase is in the index and may be nowhere else
provisional(p) == pc[p] \in {"verify", "delete", "deleteFile", "unindex"}
settingUp(p) == \/ pc[p] \in {"set", "index", "shred"} \/ provisional(p)
                \/ pc[p] \in {"ref", "look"} /\ ~settled

StartLoad(p) ==
    /\ pc[p] = "off"
    /\ LoadsOverlap \/ \A q \in Proc : ~settingUp(q)
    /\ (p = Daemon => loads < MaxLoads)
    /\ lookUpRef(p)
    /\ loads' = IF p = Daemon THEN loads + 1 ELSE loads
    /\ UNCHANGED <<store, want, phrase, idx, tier, locked, crashes, unfinished, locks, lies, mints, chain>>

passphraseRef(p) ==
    /\ go(p, "ref", "look") /\ label' = p
    /\ UNCHANGED <<legacy, secret, index, blob, locals, locked, counters, chain>>

\* what a tier answers: a keychain that cannot be reached answers nothing
fetch(t, r) == IF t = "native" /\ locked THEN None ELSE secret[t][r]

\* the value of the indexed tier only; "throw" when it is gone
vaultGetStrict(r) == IF index[r] = None THEN None ELSE fetch(index[r], r)

\* Mistaken form: an interrupted migration is not finished.
LoadLeavesLegacy(p) ==
    /\ pc[p] = "look" /\ index[ref[p]] # None
    /\ vaultGetStrict(ref[p]) # None
    /\ pc' = [pc EXCEPT ![p] = "blob"]
    /\ phrase' = set(phrase, p, vaultGetStrict(ref[p]))
    /\ UNCHANGED <<store, want, ref, idx, tier, locked, counters, chain>>

\* Already migrated: finish an interrupted migration and go on.
LoadMigrated(p) ==
    /\ pc[p] = "look" /\ index[ref[p]] # None
    /\ vaultGetStrict(ref[p]) # None
    /\ pc' = [pc EXCEPT ![p] = IF legacy = None THEN "blob" ELSE "shred"]
    /\ phrase' = set(phrase, p, vaultGetStrict(ref[p]))
    /\ UNCHANGED <<store, want, ref, idx, tier, locked, counters, chain>>

LoadThrows(p) ==
    /\ pc[p] = "look" /\ index[ref[p]] # None
    /\ vaultGetStrict(ref[p]) = None
    /\ off(p)
    /\ UNCHANGED <<store, locked, counters, chain>>

\* Pre-keychain install: adopt the existing passphrase.
AdoptLegacy(p) ==
    /\ pc[p] = "look" /\ index[ref[p]] = None /\ legacy # None
    /\ pc' = [pc EXCEPT ![p] = "set"]
    /\ phrase' = set(phrase, p, legacy) /\ idx' = set(idx, p, index)
    /\ UNCHANGED <<store, want, ref, tier, locked, counters, chain>>

noCiphertext(f) == \A x \in File : f[x] = None

MintPassphrase(p) ==
    /\ pc[p] = "look" /\ index[ref[p]] = None /\ legacy = None
    /\ noCiphertext(blob) /\ mints < MaxMints
    /\ pc' = [pc EXCEPT ![p] = "set"]
    /\ phrase' = set(phrase, p, mints + 1) /\ mints' = mints + 1
    /\ idx' = set(idx, p, index)
    /\ UNCHANGED <<store, want, ref, tier, locked, crashes, unfinished, locks, lies, loads, chain>>

RefuseToMint(p) ==
    /\ pc[p] = "look" /\ index[ref[p]] = None /\ legacy = None
    /\ ~noCiphertext(blob) /\ off(p)
    /\ UNCHANGED <<store, locked, counters, chain>>
-----------------------------------------------------------------------------
(* provisionPassphrase: vaultSet, read back, and only then shred.          *)

\* the native store first, the encrypted file when it cannot be used; a
\* store may also report success for a value it does not keep
vaultSet(p, kept) ==
    /\ go(p, "set", "index")
    /\ LET t == IF locked THEN "file-fallback" ELSE "native"
       IN /\ kept \/ (t = "native" /\ lies < MaxLies)
          /\ lies' = IF kept THEN lies ELSE lies + 1
          /\ secret' = IF ~kept THEN secret
                       ELSE [secret EXCEPT ![t][ref[p]] = phrase[p]]
          /\ tier' = set(tier, p, t)
    /\ UNCHANGED <<label, legacy, index, blob, want, ref, phrase, idx, locked, crashes, unfinished, locks, mints, loads, chain>>

\* the index read before the keychain program ran, with one entry replaced
saveIndex(p) ==
    /\ go(p, "index", "verify")
    /\ index' = set(idx[p], ref[p], tier[p])
    /\ UNCHANGED <<label, legacy, secret, blob, locals, locked, counters, chain>>

\* Mistaken form: the read-back is not compared.
Unverified(p) ==
    /\ pc[p] = "verify"
    /\ pc' = [pc EXCEPT ![p] = IF legacy = None THEN "blob" ELSE "shred"]
    /\ UNCHANGED <<store, locals, locked, counters, chain>>

provisionPassphrase(p) ==
    /\ pc[p] = "verify" /\ vaultGetStrict(ref[p]) = phrase[p]
    /\ pc' = [pc EXCEPT ![p] = IF legacy = None THEN "blob" ELSE "shred"]
    /\ UNCHANGED <<store, locals, locked, counters, chain>>

\* the read-back differs: vaultDelete, which reads the index, and throw
ProvisionFails(p) ==
    /\ go(p, "verify", "delete") /\ vaultGetStrict(ref[p]) # phrase[p]
    /\ idx' = set(idx, p, index)
    /\ UNCHANGED <<store, want, ref, phrase, tier, locked, counters, chain>>

\* a keychain that cannot be reached keeps its entry, and nobody is told
keychainDelete(p) ==
    /\ go(p, "delete", "deleteFile")
    /\ secret' = IF idx[p][ref[p]] = "native" /\ ~locked
                 THEN [secret EXCEPT !["native"][ref[p]] = None] ELSE secret
    /\ UNCHANGED <<label, legacy, index, blob, locals, locked, counters, chain>>

fileDelete(p) ==
    /\ go(p, "deleteFile", "unindex")
    /\ secret' = [secret EXCEPT !["file-fallback"][ref[p]] = None]
    /\ UNCHANGED <<label, legacy, index, blob, locals, locked, counters, chain>>

unindex(p) ==
    /\ pc[p] = "unindex" /\ off(p)
    /\ index' = set(idx[p], ref[p], None)
    /\ UNCHANGED <<label, legacy, secret, blob, locked, counters, chain>>

\* unlinkSync throws when another process was faster
shredFile(p) ==
    /\ pc[p] = "shred"
    /\ legacy' = None
    /\ IF legacy = None THEN off(p)
       ELSE pc' = [pc EXCEPT ![p] = "blob"] /\ UNCHANGED locals
    /\ UNCHANGED <<label, secret, index, blob, locked, counters, chain>>
-----------------------------------------------------------------------------
(* loadOrCreateKeys and, in the daemon only, loadOrCreateHaIdentity, which *)
(* asks for the passphrase a second time.                                  *)

created(p) == [phrase |-> phrase[p], by |-> p]

\* the blob is there and opens, or it is written; otherwise decipher.final()
\* throws
loadOrCreateKeys(p) ==
    /\ pc[p] = "blob" /\ want[p] = "keys"
    /\ blob' = IF blob["keys"] = None THEN [blob EXCEPT !["keys"] = created(p)] ELSE blob
    /\ IF blob'["keys"].phrase # phrase[p] THEN off(p)
       ELSE /\ IF p = Daemon THEN lookUpRef(p) /\ want' = set(want, p, "ha")
                ELSE pc' = [pc EXCEPT ![p] = "done"] /\ UNCHANGED <<ref, want>>
            /\ UNCHANGED <<phrase, idx, tier>>
    /\ UNCHANGED <<label, legacy, secret, index, locked, counters, chain>>

loadOrCreateHaIdentity(p) ==
    /\ pc[p] = "blob" /\ want[p] = "ha"
    /\ blob' = IF blob["ha"] = None THEN [blob EXCEPT !["ha"] = created(p)] ELSE blob
    /\ IF blob'["ha"].phrase # phrase[p] THEN off(p)
       ELSE pc' = [pc EXCEPT ![p] = "up"] /\ UNCHANGED locals
    /\ UNCHANGED <<label, legacy, secret, index, locked, counters, chain>>
-----------------------------------------------------------------------------
(* The daemon serves, and extends its own provenance chain once per start. *)

\* emitStateSnapshot awaits its hash: the journal may grow meanwhile
buildStateSnapshot ==
    /\ go(Daemon, "up", "hash") /\ rows > 0
    /\ captured' = rows
    /\ UNCHANGED <<store, locals, locked, counters, snaps, heads, rows>>

saveStateSnapshot ==
    /\ go(Daemon, "hash", "head")
    /\ snaps' = Append(snaps, captured)
    /\ UNCHANGED <<store, locals, locked, counters, heads, rows, captured>>

\* Mistaken form: the head names the snapshot read before this one was built.
HeadOfPrev(signer) == [root |-> Len(snaps) - 1, signer |-> signer]

headOf(signer) == [root |-> Len(snaps), signer |-> signer]

advanceStateHead ==
    /\ go(Daemon, "head", "serving")
    /\ heads' = Append(heads, headOf(blob["ha"]))
    /\ UNCHANGED <<store, locals, locked, counters, snaps, rows, captured>>

\* nothing to snapshot in an empty journal
SkipSnapshot ==
    /\ go(Daemon, "up", "serving") /\ rows = 0
    /\ UNCHANGED <<store, locals, locked, counters, chain>>

Journal ==
    /\ pc[Daemon] \in {"hash", "head", "serving"} /\ rows < MaxLoads
    /\ rows' = rows + 1
    /\ UNCHANGED <<store, pc, locals, locked, counters, snaps, heads, captured>>
-----------------------------------------------------------------------------
Exit(p) ==
    /\ pc[p] \in {"done", "serving"} /\ off(p)
    /\ UNCHANGED <<store, locked, counters, chain>>

KeyCrash(p) ==
    /\ crashes < MaxCrashes /\ pc[p] # "off"
    /\ crashes' = crashes + 1 /\ off(p)
    /\ unfinished' = (unfinished \/ provisional(p))
    /\ UNCHANGED <<store, locked, locks, lies, mints, loads, chain>>

Lock == /\ ~locked /\ locks < MaxLocks
        /\ locked' = TRUE /\ locks' = locks + 1
        /\ UNCHANGED <<store, pc, locals, crashes, unfinished, lies, mints, loads, chain>>

Unlock == /\ locked /\ locked' = FALSE
          /\ UNCHANGED <<store, pc, locals, counters, chain>>

LoadStep(p) ==
    \/ passphraseRef(p) \/ LoadMigrated(p) \/ LoadThrows(p) \/ AdoptLegacy(p)
    \/ MintPassphrase(p) \/ RefuseToMint(p)
    \/ \E kept \in BOOLEAN : vaultSet(p, kept)
    \/ saveIndex(p) \/ provisionPassphrase(p) \/ shredFile(p)
    \/ ProvisionFails(p) \/ keychainDelete(p) \/ fileDelete(p) \/ unindex(p)
    \/ loadOrCreateKeys(p) \/ loadOrCreateHaIdentity(p) \/ Exit(p)

Emit == buildStateSnapshot \/ saveStateSnapshot \/ advanceStateHead \/ SkipSnapshot

IdentityNext == \/ \E p \in Proc : StartLoad(p) \/ LoadStep(p) \/ KeyCrash(p)
        \/ Emit \/ Journal \/ Lock \/ Unlock

IdentitySpec == IdentityInit /\ [][IdentityNext]_identityVars
-----------------------------------------------------------------------------
\* The passphrase a load that nothing disturbs would use now: once the index
\* has the ref it reads that tier alone, and throws when there is nothing.
Usable == IF label # None /\ index[label] # None THEN {secret[index[label]][label]} ELSE {legacy}

Sealed(f) == blob[f] # None /\ blob[f].phrase # Lost

\* At every moment, between any two writes of any process, the passphrase of
\* every blob is the one a load would use; or it is still in vault.key and the
\* passphrase in the index was never compared, because a process is at it or
\* died at it (but for a state directory that came without its keychain entry).
Recoverable ==
    \A f \in File : Sealed(f) =>
        \/ blob[f].phrase \in Usable
        \/ blob[f].phrase = legacy /\ (unfinished \/ \E p \in Proc : provisional(p))

\* The heads of the provenance chain have one signer, each names a snapshot
\* that was saved before it, each a later one, and no snapshot covers less of
\* the journal than an earlier one, whatever starts were cut short.
HeadsFollowSnapshots ==
    /\ \A i \in DOMAIN heads : /\ heads[i].root \in DOMAIN snaps
                               /\ heads[i].signer = blob["ha"]
    /\ \A i, j \in DOMAIN heads : i < j => heads[i].root < heads[j].root
    /\ \A i, j \in DOMAIN snaps : i < j => snaps[i] <= snaps[j]

\* What was sealed can be opened again, and what was snapshot stays in order,
\* however often a load dies, the keychain is locked or does not keep what it took.
SealedIsRecoverable == Recoverable /\ HeadsFollowSnapshots

\* The index names a tier that holds nothing: every load throws.
stranded == label # None /\ index[label] # None /\ secret[index[label]][label] = None

\* A migration that died between storing the passphrase and shredding
\* vault.key is finished by a later load: the file goes away for good, unless a
\* process died before it had compared or undone what the index says, and left
\* the index with a tier that holds nothing.
MigrationEnds == <>[](legacy = None) \/ <>[](unfinished /\ stranded)
-----------------------------------------------------------------------------
(* What comments of the code say and the code does not do: see the README. *)

\* "an interrupted or failed migration always leaves a recoverable state rather
\* than an unopenable one": when no load is under way, one would open the blobs
\* (keys.mjs:14-16).
InterruptedOpens ==
    (\A p \in Proc : pc[p] = "off") => \A f \in File : Sealed(f) => blob[f].phrase \in Usable

\* Every migration is retried until it succeeds.
RetriesCleanly == <>[](legacy = None)
=============================================================================
