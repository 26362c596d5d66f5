------------------------------- MODULE HaGate --------------------------------
(***************************************************************************)
(* hub/ha-store.mjs and hub/ha-gate.mjs: the human-accountability records  *)
(* a gate counts, and the countersignature slot of a subject (a maker's    *)
(* signature and its checkers').  The gate itself is the vendored          *)
(* evaluateHaGate, modelled from the statuses haGateCheckFor tells apart.  *)
(*                                                                         *)
(* A subject is the output of a step: of a kernel node, which helmd can    *)
(* run again, or of an attested artifact, of which it recomputes digests.  *)
(* Signatures that do not verify are refused before they reach the tables, *)
(* so an identity here is one whose signature verified.  A slot that was   *)
(* never written reads as one without a maker.  Records filed under a role *)
(* that is not the gate's are stored and never counted; they are left out, *)
(* as are the policies whose outcome no record changes, and the signed     *)
(* replay_verified, which is stored as given and which nothing here reads. *)
(***************************************************************************)
EXTENDS Naturals, FiniteSets

CONSTANTS Ids,               \* identities (did:key)
          Helmd,             \* the daemon's own identity, ha-identity.mjs
          Subjects,          \* subject hashes
          ArtifactSubjects,  \* the ones that attested_artifacts steps put out
          Threshold,         \* N of the gate's policy
          Nobody,            \* null: no maker, no pinned threshold
          MaxSubjects,       \* bound: subjects anybody signs for or files records about
          MaxTime,           \* bound: last instant of the clock
          MaxRecords,        \* bound: records filed
          MaxSigs            \* bound: countersignatures in a slot

ASSUME HaAssumption ==
    /\ Helmd \in Ids /\ Nobody \notin Ids \cup Nat
    /\ ArtifactSubjects \subseteq Subjects
    /\ Threshold \in Nat \ {0}
    /\ MaxSubjects \in Nat /\ MaxTime \in Nat /\ MaxRecords \in Nat /\ MaxSigs \in Nat

VARIABLES records,   \* table ha_records; kind: who really acted (history)
          slots,     \* table ha_countersignature_slots
          minting,   \* approvals being signed by recordArtifactBindingVerification
          clock

vars == <<records, slots, minting, clock>>

Time == 0..MaxTime
Kind == {"human", "automated"}          \* attester_kind
People == Ids \ {Helmd}

Record == [type : {"approval", "rejection", "override"}, subject : Subjects, id : Ids,
           expiry : Time, kind : Kind]
Sig == [id : Ids, kind : Kind, at : Time]

EmptySlot == [maker |-> Nobody, sigs |-> {}, threshold |-> Nobody]
-----------------------------------------------------------------------------
(* evaluateHaGate for a review_required, dual_control or hold policy.      *)

Of(type, s) == {r \in records : r.type = type /\ r.subject = s}

Rejected(s) == Of("rejection", s) # {}

\* Mistaken form: the comparison is the wrong way round.
OverrideAfter(s) == \E r \in Of("override", s) : clock >= r.expiry

OverrideActive(s) == \E r \in Of("override", s) : clock < r.expiry
distinctApprovers(s) == {r.id : r \in Of("approval", s)}
Satisfied(s) == Cardinality(distinctApprovers(s)) >= Threshold

\* Mistaken form: the override is looked at first.
OverrideFirst(s) == OverrideActive(s) \/ (~Rejected(s) /\ Satisfied(s))

evaluateHaGate(s) == ~Rejected(s) /\ (OverrideActive(s) \/ Satisfied(s))
-----------------------------------------------------------------------------
\* INSERT OR IGNORE under the record's own digest
appendHaRecord(r) == records' = records \cup {r}

SubmitHaRecord(type, s, i, expiry) ==
    /\ Cardinality(records) < MaxRecords
    /\ appendHaRecord([type |-> type, subject |-> s, id |-> i, expiry |-> expiry, kind |-> "human"])
    /\ UNCHANGED <<slots, minting, clock>>

\* Mistaken form: the newest maker signature wins.
SetMakerLatest(s, i) == slots' = [slots EXCEPT ![s].maker = i]

setMakerSignature(s, i) ==
    /\ slots[s].maker \in {Nobody, i}
    /\ slots' = [slots EXCEPT ![s].maker = i]

SubmitMakerSignature(s, i) ==
    /\ setMakerSignature(s, i)
    /\ UNCHANGED <<records, minting, clock>>

\* Mistaken form: checkers are told apart from each other only.
AddAnyChecker(s, sig) ==
    slots' = [slots EXCEPT ![s].sigs = @ \cup {sig}]

\* refused without a maker and from the maker; the same act twice is stored once
addCountersignature(s, sig) ==
    /\ slots[s].maker # Nobody
    /\ sig.id # slots[s].maker
    /\ slots' = [slots EXCEPT ![s].sigs =
          IF \E c \in @ : c.id = sig.id /\ c.at = sig.at THEN @ ELSE @ \cup {sig}]

HasRoom(s) == Cardinality(slots[s].sigs) < MaxSigs

\* Whose signature over the subject there is to submit: a person's whenever they like,
\* helmd's once it is in the slot, which GET /ha/slot shows.
signatories(s) == People \cup {c.id : c \in slots[s].sigs}

\* A countersignature made in a browser, or imported there: the signature is over the
\* subject alone, kind and instant are stored as they came with it.
SubmitCountersignature(s, sig) ==
    /\ HasRoom(s) /\ sig.id \in signatories(s)
    /\ addCountersignature(s, sig)
    /\ UNCHANGED <<records, minting, clock>>

\* Mistaken form: no attester_kind.
ReplaySigUnkinded == [id |-> Helmd, kind |-> Nobody, at |-> clock]

ReplaySig == [id |-> Helmd, kind |-> "automated", at |-> clock]

\* Mistaken form: a match files an approval, as it once did.
RecordReplayApproving(s) ==
    /\ s \notin ArtifactSubjects /\ HasRoom(s)
    /\ addCountersignature(s, ReplaySig)
    /\ appendHaRecord([type |-> "approval", subject |-> s, id |-> Helmd,
                       expiry |-> 0, kind |-> "automated"])
    /\ UNCHANGED <<minting, clock>>

\* helmd runs the node again and signs, whether or not its hash matched; what it reads
\* before the run never changes (RunEngine!MemoStable)
RecordReplay(s) ==
    /\ s \notin ArtifactSubjects /\ HasRoom(s)
    /\ addCountersignature(s, ReplaySig)
    /\ UNCHANGED <<records, minting, clock>>

\* Mistaken form: the approval does not wait for the countersignature to be accepted.
VerifyArtifactUnslotted(s, i, kind, matched) ==
    /\ s \in ArtifactSubjects /\ HasRoom(s) /\ matched
    /\ minting' = minting \cup {[type |-> "approval", subject |-> s, id |-> i,
                                  expiry |-> 0, kind |-> kind]}
    /\ UNCHANGED <<records, slots, clock>>

\* recordArtifactBindingVerification up to the signing of its approval
VerifyArtifactBinding(s, i, kind, matched) ==
    /\ s \in ArtifactSubjects /\ HasRoom(s)
    /\ addCountersignature(s, [id |-> i, kind |-> kind, at |-> clock])
    /\ minting' = IF matched
                  THEN minting \cup {[type |-> "approval", subject |-> s, id |-> i,
                                      expiry |-> 0, kind |-> kind]}
                  ELSE minting
    /\ UNCHANGED <<records, clock>>

MintApproval(r) ==
    /\ r \in minting
    /\ minting' = minting \ {r}
    /\ appendHaRecord(r)
    /\ UNCHANGED <<slots, clock>>

distinctHumanCheckerIds(s) == {c.id : c \in {d \in slots[s].sigs : d.kind = "human"}}

\* Mistaken form: signatures are counted, not signers.
PinCountingSigs(s, n) ==
    /\ slots[s].threshold = Nobody
    /\ Cardinality({c \in slots[s].sigs : c.kind = "human"}) >= n
    /\ slots' = [slots EXCEPT ![s].threshold = n]
    /\ UNCHANGED <<records, minting, clock>>

\* Mistaken form: a later determination replaces the pinned one.
PinAgain(s, n) ==
    /\ Cardinality(distinctHumanCheckerIds(s)) >= n
    /\ slots' = [slots EXCEPT ![s].threshold = n]
    /\ UNCHANGED <<records, minting, clock>>

PinSlotSatisfaction(s, n) ==
    /\ slots[s].threshold = Nobody
    /\ Cardinality(distinctHumanCheckerIds(s)) >= n
    /\ slots' = [slots EXCEPT ![s].threshold = n]
    /\ UNCHANGED <<records, minting, clock>>

Tick ==
    /\ clock < MaxTime
    /\ clock' = clock + 1
    /\ UNCHANGED <<records, slots, minting>>

\* the process dies: what is being signed is gone
Crash ==
    /\ minting # {}
    /\ minting' = {}
    /\ UNCHANGED <<records, slots, clock>>

Init ==
    /\ records = {} /\ minting = {}
    /\ slots = [s \in Subjects |-> EmptySlot]
    /\ clock = 0

Touched == {s \in Subjects : slots[s] # EmptySlot \/ \E r \in records : r.subject = s}

InPlay == {s \in Subjects : Cardinality(Touched \cup {s}) <= MaxSubjects}

Next ==
    \/ \E s \in InPlay, i \in People :
          \/ SubmitHaRecord("approval", s, i, 0)
          \/ SubmitHaRecord("rejection", s, i, 0)
          \/ \E expiry \in Time : SubmitHaRecord("override", s, i, expiry)
          \/ SubmitMakerSignature(s, i)
          \/ \E sig \in Sig : SubmitCountersignature(s, sig)
          \/ \E kind \in Kind, matched \in BOOLEAN : VerifyArtifactBinding(s, i, kind, matched)
    \/ \E s \in InPlay : RecordReplay(s)
    \/ \E r \in minting : MintApproval(r)
    \/ \E s \in InPlay, n \in 1..Cardinality(Ids) : PinSlotSatisfaction(s, n)
    \/ Tick
    \/ Crash

Spec == Init /\ [][Next]_vars
-----------------------------------------------------------------------------
\* Every variable holds values of its kind.
HaTypeOK ==
    /\ records \subseteq Record /\ minting \subseteq Record
    /\ slots \in [Subjects -> [maker : Ids \cup {Nobody}, sigs : SUBSET Sig,
                               threshold : Nat \cup {Nobody}]]
    /\ clock \in Time

\* Nobody checks their own work: in whatever order the maker, the checkers and helmd's
\* replays sign, no slot holds a countersignature of its maker, or one made when the
\* maker was still unknown.
MakerNeverChecks ==
    \A s \in Subjects : \A c \in slots[s].sigs :
        slots[s].maker # Nobody /\ c.id # slots[s].maker

\* The maker of a subject, once known, is never another identity.
MakerNeverSwapped ==
    [][ \A s \in Subjects : slots[s].maker # Nobody => slots'[s].maker = slots[s].maker ]_vars

AttestedBy(s, i, kind) == \E c \in slots[s].sigs : c.id = i /\ c.kind = kind

\* A pinned satisfaction stands for that many distinct checkers entered as human, however
\* many signatures each of them gave and in whatever order they came. helmd is among them
\* only where a replay of its own, entered as automated, was submitted once more as a
\* person's: never for an artifact, which it does not replay.
PinIsSupported ==
    \A s \in Subjects : slots[s].threshold # Nobody
        => \E H \in SUBSET Ids :
              /\ Cardinality(H) >= slots[s].threshold
              /\ \A i \in H : AttestedBy(s, i, "human")
              /\ Helmd \in H => s \notin ArtifactSubjects /\ AttestedBy(s, Helmd, "automated")

\* What an examiner reads from a pinned slot never changes: the threshold stays, and no
\* signature it rests on disappears.
PinIsFinal ==
    [][ \A s \in Subjects : slots[s].threshold # Nobody
            => /\ slots'[s].threshold = slots[s].threshold
               /\ slots[s].sigs \subseteq slots'[s].sigs ]_vars

\* A rejection is final: no later approval, override or passage of time opens a gate
\* somebody rejected.
RejectionIsFinal == [][ \A s \in Subjects : Rejected(s) => ~evaluateHaGate(s)' ]_vars

\* Time only closes gates, and only those that an override alone kept open.
TimeOnlyEndsOverrides ==
    [][ clock' # clock => \A s \in Subjects :
            /\ evaluateHaGate(s)' => evaluateHaGate(s)
            /\ evaluateHaGate(s) /\ ~evaluateHaGate(s)' => ~Satisfied(s) ]_vars

\* What was decided stays decided: the maker, a pinned threshold, a rejection; and
\* time alone only ends overrides.
DecisionsAreFinal == MakerNeverSwapped /\ PinIsFinal /\ RejectionIsFinal /\ TimeOnlyEndsOverrides

HumanApprovers(s) == {r.id : r \in {q \in Of("approval", s) : q.kind = "human"}}

\* helmd's own replays of a node's output, matched or not, never stand in for a person:
\* a gate that counts approvals is open only on the approvals of N people.
ReplayNeverApproves ==
    \A s \in Subjects \ ArtifactSubjects :
        evaluateHaGate(s) /\ ~OverrideActive(s) => Cardinality(HumanApprovers(s)) >= Threshold

\* An approval that an artifact check files for an automated checker is backed by a
\* countersignature of that checker in the slot, and so is never the maker's own, although
\* a crash may fall between the two.
BindingApprovalHasSignature ==
    \A r \in records \cup minting : r.kind = "automated"
        => \E c \in slots[r.subject].sigs :
              c.id = r.id /\ r.id # slots[r.subject].maker

\* An approval is somebody else's signature: not the maker's, not a replay's, and
\* not an automated check's without one behind it.
ApprovalsAreSigned == MakerNeverChecks /\ ReplayNeverApproves /\ BindingApprovalHasSignature
-----------------------------------------------------------------------------
(* What comments of the code say and the code does not do: see the README. *)

\* An automated attestation never counts towards the threshold of a slot: a pin rests on
\* as many people. helmd's own signature, submitted once more as human, is counted.
PinIsOfPeople ==
    \A s \in Subjects : slots[s].threshold # Nobody
        => Cardinality(distinctHumanCheckerIds(s) \cap People) >= slots[s].threshold

\* ReplayNeverApproves for every subject: no automated attestation counts towards a
\* threshold.
AutomatedNeverApproves ==
    \A s \in Subjects :
        evaluateHaGate(s) /\ ~OverrideActive(s) => Cardinality(HumanApprovers(s)) >= Threshold
=============================================================================
