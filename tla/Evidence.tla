------------------------------ MODULE Evidence ------------------------------
(***************************************************************************)
(* What leaves the machine as evidence and comes back to be verified:      *)
(*   hub/bundle.mjs, hub/envelope.mjs       sealing, assembling, verifying *)
(*   ui/lib/verify-bundle.mjs, verify-envelope.mjs, scripts/verify.mjs     *)
(*                                          the browser's and CLI verifier *)
(*   hub/check.mjs, hub/receipt.mjs, scripts/gwlog-to-bundle.mjs           *)
(*                                          the callers of assembleBundle  *)
(*   hub/h2h-envelope.mjs, scripts/bilat-*  the exchange between two Helms *)
(*   ui/lib/migration.mjs, hub/migration-import.mjs  a browser's journal   *)
(*                                                                         *)
(* A statement is its own digest.  An envelope is a statement and what     *)
(* became of its two signatures.  Files are carried by mail or disk: they  *)
(* may arrive with parts missing, damaged, doubled or exchanged for parts  *)
(* signed by the same keys on another occasion.                            *)
(***************************************************************************)
EXTENDS Naturals, Sequences, SequencesExt

CONSTANTS RunId,      \* runs named in an action log
          MaxRows,    \* rows of an action log, entries of a browser journal
          MaxFaults   \* things that happen to a file on its way

VARIABLES signed,     \* statements signed so far with the producer's keys
          assembled,  \* the bundle as assembleBundle returned it
          carried,    \* the bundle as it is now
          judged,     \* the verifiers' results on `carried'
          runProof,   \* the last per-run proof cut from `carried'
          mail,       \* envelopes that reach bilat-import
          outFile,    \* what bilat-import has written to --out
          moving,     \* a migration file: manifest rows, root, raw entries
          faults

evidenceVars == <<signed, assembled, carried, judged, runProof, mail, outFile, moving, faults>>

Absent == [objects |-> <<>>]
NoResult == [keys |-> "none"]
Runless == "no run"
----------------------------------------------------------------------------
(* envelope.mjs and verify-envelope.mjs.                                   *)

buildStatement(type, run, n) == [type |-> type, run |-> run, n |-> n]

\* both signatures are made over the payload with its type
emitEnvelope(statement) == [statement |-> statement, ed25519 |-> "valid", mldsa44 |-> "valid"]

\* bytes that are no JSON text any more
Unreadable == [type |-> "unreadable"]

\* Ed25519 must be there and right; ML-DSA-44 must not be wrong, where the
\* verifier has a key for it, and must be there in strict mode
verifyEnvelope(e, keys, strict) ==
    /\ keys # "others" /\ e.ed25519 = "valid"
    /\ IF strict THEN keys = "both" /\ e.mldsa44 = "valid"
                 ELSE keys = "both" => e.mldsa44 # "wrong"

envelopeDigest(e) == e.statement
----------------------------------------------------------------------------
(* bundle.mjs: assembling.                                                 *)

DEFAULT_TRUST_LABEL ==
    [check_result |-> "kernel_verified", freshness_receipt |-> "hash_verified",
     connector_attestation |-> "connector_asserted"]

sealBundleObject(statement) ==
    [kind |-> statement.type, trust_label |-> DEFAULT_TRUST_LABEL[statement.type],
     digest |-> statement, envelope |-> emitEnvelope(statement)]

entryOf(object) ==
    [kind |-> object.kind, digest |-> object.digest, trust_label |-> object.trust_label]

manifestOf(run, objects, checkpoints) ==
    [type |-> "evidence_bundle_manifest", run |-> run,
     entries |-> [i \in 1..Len(objects) |-> entryOf(objects[i])],
     checkpoints_ref |-> {envelopeDigest(checkpoints[i]) : i \in 1..Len(checkpoints)}]

\* the predicate travels twice: signed, and as a plain copy
assembleBundle(run, objects, checkpoints) ==
    LET predicate == manifestOf(run, objects, checkpoints)
    IN  [predicate |-> predicate, manifest |-> emitEnvelope(predicate),
         objects |-> objects, checkpoints |-> checkpoints]

StatementsOf(b) ==
    {b.manifest.statement} \cup {b.objects[i].envelope.statement : i \in 1..Len(b.objects)}
        \cup {b.checkpoints[i].statement : i \in 1..Len(b.checkpoints)}

produce(b, earlier) ==
    /\ assembled = Absent
    /\ assembled' = b /\ carried' = b
    /\ signed' = StatementsOf(b) \cup earlier
    /\ UNCHANGED <<judged, runProof, mail, outFile, moving, faults>>

\* the daemon's keys have signed other check results before
Earlier == {buildStatement("check_result", Runless, 0)}

\* an unknown pack, an unreadable file, missing inputs: an exit code and no
\* bundle; otherwise the result is sealed, whatever it is, and a relay that
\* does not answer only means no anchors_ref
runCheck ==
    produce(assembleBundle(Runless, <<sealBundleObject(buildStatement("check_result", Runless, 1))>>, <<>>),
            Earlier)

exportFreshnessReceiptZip ==
    produce(assembleBundle(Runless, <<sealBundleObject(buildStatement("freshness_receipt", Runless, 1))>>,
                           <<>>), Earlier)

\* one object for each row, all rows in a journal, one checkpoint at the end;
\* the bundle names the first row's run, and the keys are made for it
buildGwlogBundle ==
    \E rows \in UNION {[1..n -> RunId] : n \in 1..MaxRows} :
        produce(assembleBundle(rows[1],
                    [i \in DOMAIN rows |->
                        sealBundleObject(buildStatement("connector_attestation", rows[i], i))],
                    <<emitEnvelope(buildStatement("checkpoint", Runless, Len(rows)))>>), {})
----------------------------------------------------------------------------
(* On the way (external).                                                  *)

Worn(e) ==
    {[e EXCEPT !.ed25519 = x] : x \in {"wrong", "none"}}
    \cup {[e EXCEPT !.mldsa44 = x] : x \in {"wrong", "none"}}
    \cup {[statement |-> Unreadable, ed25519 |-> "wrong", mldsa44 |-> "wrong"]}
    \cup {emitEnvelope(s) : s \in signed}

WornObject(o) ==
    {[o EXCEPT !.envelope = e] : e \in Worn(o.envelope)}
    \cup {[o EXCEPT !.digest = s] : s \in signed}
    \cup {[o EXCEPT !.trust_label = "human_attested"], [o EXCEPT !.kind = "review_decision"]}

wearBundle ==
    /\ carried # Absent /\ faults < MaxFaults
    /\ \/ \E i \in 1..Len(carried.objects) :
             \/ carried' = [carried EXCEPT !.objects = RemoveAt(@, i)]
             \/ \E o \in WornObject(carried.objects[i]) : carried' = [carried EXCEPT !.objects[i] = o]
             \/ \E k \in {"connector_attestation", "check_result"} :
                   carried' = [carried EXCEPT !.objects = Append(@, [carried.objects[i] EXCEPT !.kind = k])]
       \/ \E i \in 1..Len(carried.checkpoints) :
             \/ carried' = [carried EXCEPT !.checkpoints = RemoveAt(@, i)]
             \/ \E e \in Worn(carried.checkpoints[i]) : carried' = [carried EXCEPT !.checkpoints[i] = e]
       \/ \E s \in signed : carried' = [carried EXCEPT !.checkpoints = Append(@, emitEnvelope(s))]
       \/ \E e \in Worn(carried.manifest) : carried' = [carried EXCEPT !.manifest = e]
       \/ carried' = [carried EXCEPT !.predicate.entries = <<>>]
    /\ faults' = faults + 1 /\ judged' = NoResult /\ runProof' = Absent
    /\ UNCHANGED <<signed, assembled, mail, outFile, moving>>
----------------------------------------------------------------------------
(* Verifying.                                                              *)

\* objectsByDigest: of several objects with a digest the last one
Found(b, digest) == {i \in 1..Len(b.objects) : b.objects[i].digest = digest}

\* Mistaken form: an object is what its digest field says it is.
EntryByName(b, entry, keys) ==
    /\ Found(b, entry.digest) # {}
    /\ LET obj == b.objects[Max(Found(b, entry.digest))]
       IN  /\ obj.kind = entry.kind /\ obj.trust_label = entry.trust_label
           /\ verifyEnvelope(obj.envelope, keys, FALSE)

verifyEntry(b, entry, keys) ==
    /\ Found(b, entry.digest) # {}
    /\ LET obj == b.objects[Max(Found(b, entry.digest))]
       IN  /\ obj.kind = entry.kind /\ obj.trust_label = entry.trust_label
           /\ verifyEnvelope(obj.envelope, keys, FALSE)
           /\ envelopeDigest(obj.envelope) = entry.digest

\* what both copies of verifyBundle do before they come to the checkpoints: a
\* signed statement that is no manifest fails the schema, and then the loop
\* over its entries throws; so does the digest of an unreadable checkpoint
verdictOf(b, keys, checkpointsPass) ==
    IF ~ verifyEnvelope(b.manifest, keys, FALSE) THEN "invalid"
    ELSE IF b.manifest.statement.type # "evidence_bundle_manifest" THEN "throws"
    ELSE IF \E i \in 1..Len(b.checkpoints) : b.checkpoints[i].statement = Unreadable THEN "throws"
    ELSE LET predicate == b.manifest.statement
         IN  IF /\ b.predicate = predicate
                /\ \A i \in 1..Len(predicate.entries) : verifyEntry(b, predicate.entries[i], keys)
                /\ predicate.checkpoints_ref
                       \subseteq {envelopeDigest(b.checkpoints[i]) : i \in 1..Len(b.checkpoints)}
                /\ checkpointsPass
             THEN "valid" ELSE "invalid"

verifyBundle(b, keys) ==
    verdictOf(b, keys, \A i \in 1..Len(b.checkpoints) : verifyEnvelope(b.checkpoints[i], keys, FALSE))

\* Mistaken form: a checkpoint is taken for what it says.
TrustCheckpoint(cp, keys) == cp.statement.type = "checkpoint"

\* its streams recompute to its own root: it is a checkpoint
verifyCheckpointOffline(cp, keys) ==
    verifyEnvelope(cp, keys, FALSE) /\ cp.statement.type = "checkpoint"

verifyBundleOffline(b, keys) ==
    verdictOf(b, keys,
        \A i \in 1..Len(b.checkpoints) : verifyCheckpointOffline(b.checkpoints[i], keys))

\* `helmd verify': a keys file without both keys is a usage error, and an
\* exception ends the process with the exit code of INVALID
helmdVerify(b, keys) ==
    IF keys = "ed25519 only" THEN "usage"
    ELSE IF verifyBundleOffline(b, keys) = "valid" THEN "valid" ELSE "invalid"

verifyCarried ==
    /\ carried # Absent /\ judged = NoResult
    /\ \E keys \in {"both", "ed25519 only", "others"} :
          judged' = [keys |-> keys, hub |-> verifyBundle(carried, keys),
                     browser |-> verifyBundleOffline(carried, keys), cli |-> helmdVerify(carried, keys)]
    /\ UNCHANGED <<signed, assembled, carried, runProof, mail, outFile, moving, faults>>

\* the run's objects as they lie in the bundle, with one checkpoint, under a
\* manifest of their own; nothing of the source is verified
exportRunProofZip(run) ==
    /\ carried # Absent /\ runProof = Absent
    /\ LET mine == SelectSeq(carried.objects,
                       LAMBDA o : o.envelope.statement.type \notin {"unreadable", "evidence_bundle_manifest"}
                                  /\ o.envelope.statement.run = run)
       IN  /\ mine # <<>> /\ carried.checkpoints # <<>>
           /\ LET b == assembleBundle(run, mine, <<carried.checkpoints[1]>>)
              IN  runProof' = [bundle |-> b, result |-> verifyBundleOffline(b, "both")]
    /\ UNCHANGED <<signed, assembled, carried, judged, mail, outFile, moving, faults>>
----------------------------------------------------------------------------
(* Two Helms: exportH2HEnvelope, importH2HEnvelope and their commands.     *)

KNOWN_PAYLOAD_TYPES == {"matter_bundle"}

\* a newer Helm signs versions and payload types that this one does not know
exportH2HEnvelope ==
    /\ mail = {}
    /\ \E version \in 1..2, type \in KNOWN_PAYLOAD_TYPES \cup {"later_type"} :
          LET s == [type |-> "h2h_envelope_v1", run |-> Runless, version |-> version, payload_type |-> type]
          IN  mail' = {emitEnvelope(x) : x \in Earlier \cup {s}} \cup Worn(emitEnvelope(s))
    /\ UNCHANGED <<signed, assembled, carried, judged, runProof, outFile, moving, faults>>

\* Mistaken form: the version is the sender's business.
ImportAnyVersion(e, strict) ==
    /\ verifyEnvelope(e, "both", strict)
    /\ e.statement.type = "h2h_envelope_v1"
    /\ e.statement.payload_type \in KNOWN_PAYLOAD_TYPES

importH2HEnvelope(e, strict) ==
    /\ verifyEnvelope(e, "both", strict)
    /\ e.statement.type = "h2h_envelope_v1"
    /\ e.statement.version = 1
    /\ e.statement.payload_type \in KNOWN_PAYLOAD_TYPES

\* a refusal writes nothing
bilatImport ==
    /\ \E e \in mail, strict \in BOOLEAN :
          outFile' = IF importH2HEnvelope(e, strict) THEN Append(outFile, e) ELSE outFile
    /\ Len(outFile) = 0
    /\ UNCHANGED <<signed, assembled, carried, judged, runProof, mail, moving, faults>>
----------------------------------------------------------------------------
(* A browser's journal on its way into the daemon.                         *)

\* a root is the sequence of the digests it is chained from
digestEntries(entries) == [i \in 1..Len(entries) |-> [seq |-> i - 1, digest |-> entries[i]]]

buildMigrationBundle ==
    /\ moving = <<>>
    /\ \E entries \in UNION {[1..n -> RunId] : n \in 1..MaxRows} :
          moving' = [journal_entries |-> digestEntries(entries), root |-> digestEntries(entries),
                     raw |-> entries, made_from |-> entries, accepted |-> FALSE]
    /\ UNCHANGED <<signed, assembled, carried, judged, runProof, mail, outFile, faults>>

wearMigration ==
    /\ moving # <<>> /\ faults < MaxFaults /\ ~ moving.accepted
    /\ \/ \E i \in 1..Len(moving.raw) : moving' = [moving EXCEPT !.raw = RemoveAt(@, i)]
       \/ \E i \in 1..Len(moving.raw), x \in RunId : moving' = [moving EXCEPT !.raw[i] = x]
       \/ \E i \in 1..Len(moving.journal_entries) :
             moving' = [moving EXCEPT !.journal_entries = RemoveAt(@, i)]
    /\ faults' = faults + 1
    /\ UNCHANGED <<signed, assembled, carried, judged, runProof, mail, outFile>>

\* Mistaken form: as many entries as rows, and every entry is in some row.
ContinuousAsSets(m) ==
    /\ Len(m.raw) = Len(m.journal_entries)
    /\ \A i \in 1..Len(m.raw) : \E row \in Range(m.journal_entries) : row.digest = m.raw[i]

verifyBundleContinuity(m) ==
    /\ Len(m.raw) = Len(m.journal_entries)
    /\ digestEntries(m.raw) = m.journal_entries
    /\ digestEntries(m.raw) = m.root

submitMigrationToDaemon ==
    /\ moving # <<>> /\ ~ moving.accepted
    /\ verifyBundleContinuity(moving)
    /\ moving' = [moving EXCEPT !.accepted = TRUE]
    /\ UNCHANGED <<signed, assembled, carried, judged, runProof, mail, outFile, faults>>
----------------------------------------------------------------------------
EvidenceInit ==
    /\ signed = {} /\ assembled = Absent /\ carried = Absent /\ judged = NoResult
    /\ runProof = Absent /\ mail = {} /\ outFile = <<>> /\ moving = <<>> /\ faults = 0

EvidenceNext ==
    \/ moving = <<>> /\ mail = {} /\ (runCheck \/ exportFreshnessReceiptZip \/ buildGwlogBundle)
    \/ wearBundle \/ verifyCarried \/ (\E run \in RunId : exportRunProofZip(run))
    \/ assembled = Absent /\ moving = <<>> /\ exportH2HEnvelope
    \/ bilatImport
    \/ assembled = Absent /\ mail = {} /\ buildMigrationBundle
    \/ wearMigration \/ submitMigrationToDaemon

EvidenceSpec == EvidenceInit /\ [][EvidenceNext]_evidenceVars
----------------------------------------------------------------------------
(* Whoever calls a carried bundle valid has in it, for each entry that was *)
(* sealed, the very statement, under its kind and trust label, next to the *)
(* checkpoints that were attached, and the plain copy of the manifest is   *)
(* the signed one: "no silent substitution" (bundle.mjs:165-172), whatever *)
(* was dropped, doubled, relabelled or exchanged on the way.               *)
AcceptedIsSealed ==
    (judged # NoResult /\ "valid" \in {judged.hub, judged.browser, judged.cli}) =>
        /\ carried.predicate = assembled.predicate
        /\ \A i \in 1..Len(assembled.objects) :
              \E j \in 1..Len(carried.objects) :
                  /\ entryOf(carried.objects[j]) = entryOf(assembled.objects[i])
                  /\ carried.objects[j].envelope.statement = assembled.objects[i].envelope.statement
                  /\ carried.objects[j].envelope.ed25519 = "valid"
        /\ \A i \in 1..Len(assembled.checkpoints) :
              \E j \in 1..Len(carried.checkpoints) :
                  carried.checkpoints[j].statement = assembled.checkpoints[i].statement

(* The three verifiers never contradict each other in the bundle's favour: *)
(* what the page in the zip or the command line calls valid is valid for   *)
(* the daemon, and the two offline ones agree wherever the command line    *)
(* has looked at the bundle (verify-bundle.mjs:4-10).                      *)
OfflineNoLaxer ==
    judged # NoResult =>
        /\ judged.browser = "valid" => judged.hub = "valid"
        /\ judged.cli # "usage" => (judged.cli = "valid" <=> judged.browser = "valid")

(* What bilat-import has written is an exchange envelope in the version    *)
(* and of a payload type this Helm knows, with the signature that is a     *)
(* MUST, although newer and other signed things come by the same mail.     *)
ImportedIsKnown ==
    \A i \in 1..Len(outFile) :
        /\ outFile[i].ed25519 = "valid" /\ outFile[i].mldsa44 # "wrong"
        /\ outFile[i].statement.type = "h2h_envelope_v1"
        /\ outFile[i].statement.version = 1
        /\ outFile[i].statement.payload_type = "matter_bundle"

(* An import accepts the entries the manifest was made from, all of them,  *)
(* in their order: "a single reordered, dropped, or edited entry changes   *)
(* the root" (migration.mjs:27-28).                                        *)
MigratedIsWhole == moving # <<>> => (moving.accepted => moving.raw = moving.made_from)

\* What leaves the machine is accepted elsewhere as it was sealed: a bundle by
\* both verifiers, an envelope by the other hub, a migration by the new one.
EvidenceIsWhole == AcceptedIsSealed /\ OfflineNoLaxer /\ ImportedIsKnown /\ MigratedIsWhole
----------------------------------------------------------------------------
(* What comments of the code say and the code does not do: see the README. *)

\* "never throws on a bad bundle" (bundle.mjs:170-171)
NeverThrows == judged # NoResult => "throws" \notin {judged.hub, judged.browser}

\* "every checkpoint envelope verifies and is referenced" (bundle.mjs:168)
CheckpointsAreReferenced ==
    (judged # NoResult /\ judged.hub = "valid") =>
        \A i \in 1..Len(carried.checkpoints) :
            carried.checkpoints[i].statement \in carried.predicate.checkpoints_ref

\* "this run's sealed objects", labelled as they were sealed
RunProofIsFaithful ==
    (runProof # Absent /\ runProof.result = "valid") =>
        LET predicate == runProof.bundle.predicate
        IN  predicate.entries = SelectSeq(assembled.predicate.entries, LAMBDA e : e.digest.run = predicate.run)
=============================================================================
