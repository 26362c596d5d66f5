---------------------------- MODULE HaGateProofs -----------------------------
(***************************************************************************)
(* What the records and the countersignature slots guarantee for any       *)
(* number of identities, subjects and signatures and any threshold.        *)
(***************************************************************************)
EXTENDS HaGate, TLAPS

Slot == [maker : Ids \cup {Nobody}, sigs : SUBSET Sig, threshold : Nat \cup {Nobody}]

\* Storing a verified countersignature keeps the slots well formed, and adds at most that
\* one to the slot, which has a maker who is somebody else.
LEMMA CountersignatureAdded ==
    ASSUME HaTypeOK, NEW s \in Subjects, NEW sig \in Sig, addCountersignature(s, sig)
    PROVE  /\ slots' \in [Subjects -> Slot]
           /\ \A t \in Subjects : t # s => slots'[t] = slots[t]
           /\ slots'[s].maker = slots[s].maker /\ slots'[s].threshold = slots[s].threshold
           /\ slots[s].sigs \subseteq slots'[s].sigs
           /\ slots'[s].sigs \subseteq slots[s].sigs \cup {sig}
           /\ \E c \in slots'[s].sigs : c.id = sig.id
           /\ slots[s].maker # Nobody /\ sig.id # slots[s].maker
<1> DEFINE old == slots[s].sigs
           new == IF \E c \in old : c.id = sig.id /\ c.at = sig.at THEN old ELSE old \cup {sig}
<1>1. slots \in [Subjects -> Slot] /\ slots[s] \in Slot /\ old \subseteq Sig
  BY DEF HaTypeOK, Slot
<1>2. slots' = [slots EXCEPT ![s] = [slots[s] EXCEPT !.sigs = new]]
  BY <1>1 DEF addCountersignature
<1>3. new \subseteq Sig /\ old \subseteq new /\ new \subseteq old \cup {sig}
      /\ \E c \in new : c.id = sig.id
  BY <1>1
<1> HIDE DEF new
<1>4. /\ [slots[s] EXCEPT !.sigs = new] \in Slot
      /\ [slots[s] EXCEPT !.sigs = new].sigs = new
      /\ [slots[s] EXCEPT !.sigs = new].maker = slots[s].maker
      /\ [slots[s] EXCEPT !.sigs = new].threshold = slots[s].threshold
  BY <1>1, <1>3 DEF Slot
<1>5. slots'[s] = [slots[s] EXCEPT !.sigs = new]
  BY <1>1, <1>2
<1>6. slots' \in [Subjects -> Slot] /\ \A t \in Subjects : t # s => slots'[t] = slots[t]
  BY <1>1, <1>2, <1>4
<1>7. slots[s].maker # Nobody /\ sig.id # slots[s].maker
  BY DEF addCountersignature
<1>8. QED
  BY <1>3, <1>4, <1>5, <1>6, <1>7

\* Naming the maker touches nothing else of a slot.
LEMMA MakerSet ==
    ASSUME HaTypeOK, NEW s \in Subjects, NEW i \in Ids, setMakerSignature(s, i)
    PROVE  /\ slots' \in [Subjects -> Slot]
           /\ \A t \in Subjects : t # s => slots'[t] = slots[t]
           /\ slots'[s].sigs = slots[s].sigs /\ slots'[s].threshold = slots[s].threshold
           /\ slots'[s].maker = i /\ slots[s].maker \in {Nobody, i}
  BY DEF HaTypeOK, Slot, setMakerSignature

\* Pinning touches the threshold only.
LEMMA Pinned ==
    ASSUME HaTypeOK, NEW s \in Subjects, NEW n \in 1..Cardinality(Ids), PinSlotSatisfaction(s, n)
    PROVE  /\ slots' \in [Subjects -> Slot]
           /\ \A t \in Subjects : t # s => slots'[t] = slots[t]
           /\ slots'[s].sigs = slots[s].sigs /\ slots'[s].maker = slots[s].maker
           /\ slots[s].threshold = Nobody /\ slots'[s].threshold = n
  BY DEF HaTypeOK, Slot, PinSlotSatisfaction

\* What the steps write is of its kind.
LEMMA ActsAreTyped ==
    ASSUME HaTypeOK
    PROVE  /\ ReplaySig \in Sig
           /\ \A i \in Ids, kind \in Kind :
                 [id |-> i, kind |-> kind, at |-> clock] \in Sig
           /\ \A type \in {"approval", "rejection", "override"}, s \in Subjects, i \in Ids,
                 e \in Time, kind \in Kind :
                 [type |-> type, subject |-> s, id |-> i, expiry |-> e, kind |-> kind] \in Record
           /\ 0 \in Time
  BY HaAssumption DEF HaTypeOK, ReplaySig, Sig, Record, Kind, Time
-----------------------------------------------------------------------------
\* Every variable of the gate's store keeps values of its kind.
THEOREM HaTypeCorrect == Spec => []HaTypeOK
<1> USE HaAssumption
<1>1. Init => HaTypeOK
  BY DEF Init, HaTypeOK, EmptySlot, Time
<1>2. HaTypeOK /\ [Next]_vars => HaTypeOK'
  <2> SUFFICES ASSUME HaTypeOK, [Next]_vars PROVE HaTypeOK'
    OBVIOUS
  <2>0. /\ records \subseteq Record /\ minting \subseteq Record
        /\ slots \in [Subjects -> Slot] /\ clock \in Time
    BY DEF HaTypeOK, Slot
  <2>a. People \subseteq Ids
    BY DEF People
  <2>q. ASSUME records' \subseteq Record, minting' \subseteq Record,
               slots' \in [Subjects -> Slot], clock' \in Time
        PROVE  HaTypeOK'
    BY <2>q DEF HaTypeOK, Slot
  <2>1. ASSUME NEW s \in Subjects, NEW i \in People,
               NEW type \in {"approval", "rejection", "override"}, NEW e \in Time,
               SubmitHaRecord(type, s, i, e)
        PROVE  HaTypeOK'
    <3>1. [type |-> type, subject |-> s, id |-> i, expiry |-> e, kind |-> "human"] \in Record
      BY <2>a, ActsAreTyped DEF Kind
    <3>2. records' \subseteq Record
      BY <2>0, <2>1, <3>1 DEF SubmitHaRecord, appendHaRecord
    <3>3. QED
      BY <2>0, <2>q, <2>1, <3>2 DEF SubmitHaRecord
  <2>2. ASSUME NEW s \in Subjects, NEW i \in People, SubmitMakerSignature(s, i)
        PROVE  HaTypeOK'
    BY <2>0, <2>a, <2>q, <2>2, MakerSet DEF SubmitMakerSignature
  <2>3. ASSUME NEW s \in Subjects, NEW sig \in Sig, SubmitCountersignature(s, sig)
        PROVE  HaTypeOK'
    BY <2>0, <2>q, <2>3, CountersignatureAdded DEF SubmitCountersignature
  <2>4. ASSUME NEW s \in Subjects, NEW i \in People, NEW kind \in Kind, NEW matched \in BOOLEAN,
               VerifyArtifactBinding(s, i, kind, matched)
        PROVE  HaTypeOK'
    <3>1. slots' \in [Subjects -> Slot]
      BY <2>a, <2>4, ActsAreTyped, CountersignatureAdded DEF VerifyArtifactBinding
    <3>2. minting' \subseteq Record
      BY <2>0, <2>a, <2>4, ActsAreTyped DEF VerifyArtifactBinding
    <3>3. QED
      BY <2>0, <2>q, <2>4, <3>1, <3>2 DEF VerifyArtifactBinding
  <2>5. ASSUME NEW s \in Subjects, RecordReplay(s)
        PROVE  HaTypeOK'
    <3>1. slots' \in [Subjects -> Slot]
      BY <2>5, ActsAreTyped, CountersignatureAdded DEF RecordReplay
    <3>2. QED
      BY <2>0, <2>q, <2>5, <3>1 DEF RecordReplay
  <2>6. ASSUME NEW r \in minting, MintApproval(r) PROVE HaTypeOK'
    BY <2>0, <2>q, <2>6 DEF MintApproval, appendHaRecord
  <2>7. ASSUME NEW s \in Subjects, NEW n \in 1..Cardinality(Ids), PinSlotSatisfaction(s, n)
        PROVE  HaTypeOK'
    <3>1. slots' \in [Subjects -> Slot]
      BY <2>7, Pinned
    <3>2. QED
      BY <2>0, <2>q, <2>7, <3>1 DEF PinSlotSatisfaction
  <2>8. CASE Tick
    <3>1. clock' \in Time
      BY <2>0, <2>8 DEF Tick, Time
    <3>2. QED
      BY <2>0, <2>q, <2>8, <3>1 DEF Tick
  <2>9. CASE Crash \/ UNCHANGED vars
    BY <2>0, <2>q, <2>9 DEF Crash, vars
  <2>10. QED
    BY <2>1, <2>2, <2>3, <2>4, <2>5, <2>6, <2>7, <2>8, <2>9, ActsAreTyped DEF Next, InPlay
<1>3. QED
  BY <1>1, <1>2, PTL DEF Spec
-----------------------------------------------------------------------------
(* A step names a maker once, pins once, and takes no signature and no     *)
(* record away.                                                            *)

SlotsOnlyGrow ==
    \A s \in Subjects :
        /\ slots[s].sigs \subseteq slots'[s].sigs
        /\ slots[s].maker # Nobody => slots'[s].maker = slots[s].maker
        /\ slots[s].threshold # Nobody => slots'[s].threshold = slots[s].threshold

\* No operation takes a record or a signature away, or replaces a maker or a pin.
LEMMA StoreOnlyGrows ==
    ASSUME HaTypeOK, [Next]_vars
    PROVE  SlotsOnlyGrow /\ records \subseteq records'
<1>0. People \subseteq Ids
  BY DEF People
<1>1. ASSUME NEW s \in Subjects, NEW i \in People,
             NEW type \in {"approval", "rejection", "override"}, NEW e \in Time,
             SubmitHaRecord(type, s, i, e)
      PROVE  SlotsOnlyGrow /\ records \subseteq records'
  BY <1>1 DEF SubmitHaRecord, appendHaRecord, SlotsOnlyGrow
<1>2. ASSUME NEW s \in Subjects, NEW i \in People, SubmitMakerSignature(s, i)
      PROVE  SlotsOnlyGrow /\ records \subseteq records'
  BY <1>0, <1>2, MakerSet DEF SubmitMakerSignature, SlotsOnlyGrow
<1>3. ASSUME NEW s \in Subjects, NEW sig \in Sig, SubmitCountersignature(s, sig)
      PROVE  SlotsOnlyGrow /\ records \subseteq records'
  BY <1>3, CountersignatureAdded DEF SubmitCountersignature, SlotsOnlyGrow
<1>4. ASSUME NEW s \in Subjects, NEW i \in People, NEW kind \in Kind, NEW matched \in BOOLEAN,
             VerifyArtifactBinding(s, i, kind, matched)
      PROVE  SlotsOnlyGrow /\ records \subseteq records'
  BY <1>0, <1>4, ActsAreTyped, CountersignatureAdded DEF VerifyArtifactBinding, SlotsOnlyGrow
<1>5. ASSUME NEW s \in Subjects, RecordReplay(s)
      PROVE  SlotsOnlyGrow /\ records \subseteq records'
  BY <1>5, ActsAreTyped, CountersignatureAdded DEF RecordReplay, SlotsOnlyGrow
<1>6. ASSUME NEW r \in minting, MintApproval(r)
      PROVE  SlotsOnlyGrow /\ records \subseteq records'
  BY <1>6 DEF MintApproval, appendHaRecord, SlotsOnlyGrow
<1>7. ASSUME NEW s \in Subjects, NEW n \in 1..Cardinality(Ids), PinSlotSatisfaction(s, n)
      PROVE  SlotsOnlyGrow /\ records \subseteq records'
  <2>1. SlotsOnlyGrow
    BY <1>7, Pinned DEF SlotsOnlyGrow
  <2>2. QED
    BY <1>7, <2>1 DEF PinSlotSatisfaction
<1>8. CASE Tick \/ Crash \/ UNCHANGED vars
  BY <1>8 DEF Tick, Crash, vars, SlotsOnlyGrow
<1>9. QED
  BY <1>1, <1>2, <1>3, <1>4, <1>5, <1>6, <1>7, <1>8, ActsAreTyped DEF Next, InPlay

\* setMakerSignature never replaces the maker of a subject, nor does any other operation.
THEOREM HaMakerNeverSwapped == Spec => MakerNeverSwapped
<1>1. HaTypeOK /\ [Next]_vars
      => [\A s \in Subjects : slots[s].maker # Nobody => slots'[s].maker = slots[s].maker]_vars
  BY StoreOnlyGrows DEF SlotsOnlyGrow
<1>2. QED
  BY <1>1, HaTypeCorrect, PTL DEF Spec, MakerNeverSwapped

\* pinSlotSatisfaction is write-once: the threshold stays, with every signature it rests on.
THEOREM HaPinIsFinal == Spec => PinIsFinal
<1>1. HaTypeOK /\ [Next]_vars
      => [\A s \in Subjects : slots[s].threshold # Nobody
            => /\ slots'[s].threshold = slots[s].threshold
               /\ slots[s].sigs \subseteq slots'[s].sigs]_vars
  BY StoreOnlyGrows DEF SlotsOnlyGrow
<1>2. QED
  BY <1>1, HaTypeCorrect, PTL DEF Spec, PinIsFinal

\* A rejection stays in the table, and evaluateHaGate looks at it before anything else.
THEOREM HaRejectionIsFinal == Spec => RejectionIsFinal
<1>1. HaTypeOK /\ [Next]_vars => [\A s \in Subjects : Rejected(s) => ~evaluateHaGate(s)']_vars
  <2> SUFFICES ASSUME HaTypeOK, [Next]_vars, NEW s \in Subjects, Rejected(s)
               PROVE  ~evaluateHaGate(s)'
    OBVIOUS
  <2>1. records \subseteq records'
    BY StoreOnlyGrows
  <2>2. Rejected(s)'
    BY <2>1 DEF Rejected, Of
  <2>3. QED
    BY <2>2 DEF evaluateHaGate
<1>2. QED
  BY <1>1, HaTypeCorrect, PTL DEF Spec, RejectionIsFinal
-----------------------------------------------------------------------------
(* Who signed and who filed.  Where helmd signed, it signed a replay, and  *)
(* is in the slot as automated, whatever else it was entered as; an        *)
(* automated approval is for an artifact, and its checker is in the slot.  *)

HelmdReplayed ==
    \A s \in Subjects : \A c \in slots[s].sigs : c.id = Helmd
        => s \notin ArtifactSubjects /\ AttestedBy(s, Helmd, "automated")

AutomatedApprovalsSigned ==
    \A r \in records \cup minting : r.kind = "automated"
        => /\ r.subject \in ArtifactSubjects
           /\ \E c \in slots[r.subject].sigs : c.id = r.id

HaInv ==
    /\ HaTypeOK /\ MakerNeverChecks /\ HelmdReplayed
    /\ PinIsSupported /\ AutomatedApprovalsSigned

\* A countersignature keeps the slots in order, if helmd's is of a replay or was there.
LEMMA CountersignatureKeeps ==
    ASSUME HaInv, NEW s \in Subjects, NEW sig \in Sig, addCountersignature(s, sig),
           sig.id = Helmd => \/ \E c \in slots[s].sigs : c.id = Helmd
                             \/ s \notin ArtifactSubjects /\ sig.kind = "automated"
    PROVE  MakerNeverChecks' /\ HelmdReplayed'
<1>1. HaTypeOK /\ MakerNeverChecks /\ HelmdReplayed
  BY DEF HaInv
<1>2. /\ \A t \in Subjects : t # s => slots'[t] = slots[t]
      /\ slots'[s].maker = slots[s].maker
      /\ slots[s].sigs \subseteq slots'[s].sigs
      /\ slots'[s].sigs \subseteq slots[s].sigs \cup {sig}
      /\ \E c \in slots'[s].sigs : c.id = sig.id
      /\ slots[s].maker # Nobody /\ sig.id # slots[s].maker
  BY <1>1, CountersignatureAdded
<1>3. MakerNeverChecks'
  BY <1>1, <1>2 DEF MakerNeverChecks
<1>4. ASSUME NEW t \in Subjects, NEW c \in slots'[t].sigs, c.id = Helmd
      PROVE  t \notin ArtifactSubjects
             /\ \E d \in slots'[t].sigs : d.id = Helmd /\ d.kind = "automated"
  <2>1. CASE \E d \in slots[t].sigs : d.id = Helmd
    BY <1>1, <1>2, <2>1 DEF HelmdReplayed, AttestedBy
  <2>2. CASE ~ \E d \in slots[t].sigs : d.id = Helmd
    BY <1>2, <1>4, <2>2
  <2>3. QED
    BY <2>1, <2>2
<1>5. QED
  BY <1>3, <1>4 DEF HelmdReplayed, AttestedBy

\* While slots only grow and nothing new is pinned, the pins stay supported.
LEMMA PinsKept ==
    ASSUME PinIsSupported, SlotsOnlyGrow,
           \A s \in Subjects : slots'[s].threshold = slots[s].threshold
    PROVE  PinIsSupported'
<1>1. ASSUME NEW s \in Subjects, slots'[s].threshold # Nobody
      PROVE  \E H \in SUBSET Ids :
                /\ Cardinality(H) >= slots'[s].threshold
                /\ \A i \in H : \E c \in slots'[s].sigs : c.id = i /\ c.kind = "human"
                /\ Helmd \in H => /\ s \notin ArtifactSubjects
                                  /\ \E c \in slots'[s].sigs : c.id = Helmd /\ c.kind = "automated"
  <2>1. slots[s].sigs \subseteq slots'[s].sigs /\ slots'[s].threshold = slots[s].threshold
    BY DEF SlotsOnlyGrow
  <2>2. PICK H \in SUBSET Ids :
           /\ Cardinality(H) >= slots[s].threshold
           /\ \A i \in H : AttestedBy(s, i, "human")
           /\ Helmd \in H => s \notin ArtifactSubjects /\ AttestedBy(s, Helmd, "automated")
    BY <1>1, <2>1 DEF PinIsSupported
  <2>3. QED
    BY <2>1, <2>2 DEF AttestedBy
<1>2. QED
  BY <1>1 DEF PinIsSupported, AttestedBy

\* HaInv is kept by every operation of the store.
LEMMA HaInvariant == Spec => []HaInv
<1> USE HaAssumption
<1>1. Init => HaInv
  <2> SUFFICES ASSUME Init PROVE HaInv
    OBVIOUS
  <2>1. HaTypeOK
    BY DEF Init, HaTypeOK, EmptySlot, Time
  <2>2. QED
    BY <2>1 DEF Init, HaInv, EmptySlot, MakerNeverChecks, HelmdReplayed, PinIsSupported,
                AutomatedApprovalsSigned
<1>2. HaInv /\ HaTypeOK' /\ [Next]_vars => HaInv'
  <2> SUFFICES ASSUME HaInv, HaTypeOK', [Next]_vars PROVE HaInv'
    OBVIOUS
  <2>0. HaTypeOK /\ MakerNeverChecks /\ HelmdReplayed /\ PinIsSupported
        /\ AutomatedApprovalsSigned
    BY DEF HaInv
  <2>a. People \subseteq Ids /\ Helmd \notin People
    BY DEF People
  <2>b. SlotsOnlyGrow /\ records \subseteq records'
    BY <2>0, StoreOnlyGrows
  <2>c. ASSUME NEW R \in SUBSET Record, R = records' \cup minting',
               \A r \in R : r.kind = "automated" => r \in records \cup minting
        PROVE  AutomatedApprovalsSigned'
    <3>1. ASSUME NEW r \in records \cup minting, r.kind = "automated"
          PROVE  /\ r.subject \in ArtifactSubjects
                 /\ \E c \in slots'[r.subject].sigs : c.id = r.id
      BY <2>0, <2>b, <3>1 DEF AutomatedApprovalsSigned, SlotsOnlyGrow
    <3>2. QED
      BY <2>c, <3>1 DEF AutomatedApprovalsSigned
  <2>d. records' \cup minting' \in SUBSET Record
    BY DEF HaTypeOK
  <2>q. ASSUME UNCHANGED slots PROVE MakerNeverChecks' /\ HelmdReplayed' /\ PinIsSupported'
    BY <2>0, <2>q DEF MakerNeverChecks, HelmdReplayed, PinIsSupported, AttestedBy
  <2>1. ASSUME NEW s \in Subjects, NEW i \in People,
               NEW type \in {"approval", "rejection", "override"}, NEW e \in Time,
               SubmitHaRecord(type, s, i, e)
        PROVE  HaInv'
    <3>1. \A r \in records' \cup minting' : r.kind = "automated" => r \in records \cup minting
      BY <2>1 DEF SubmitHaRecord, appendHaRecord
    <3>2. UNCHANGED slots
      BY <2>1 DEF SubmitHaRecord
    <3>3. QED
      BY <2>c, <2>d, <2>q, <3>1, <3>2 DEF HaInv
  <2>2. ASSUME NEW s \in Subjects, NEW i \in People, SubmitMakerSignature(s, i)
        PROVE  HaInv'
    <3>1. UNCHANGED <<records, minting>> /\ setMakerSignature(s, i)
      BY <2>2 DEF SubmitMakerSignature
    <3>2. MakerNeverChecks'
      BY <2>0, <2>a, <3>1, MakerSet DEF MakerNeverChecks
    <3>5. \A t \in Subjects : slots'[t].sigs = slots[t].sigs
      BY <2>0, <2>a, <3>1, MakerSet
    <3>6. HelmdReplayed'
      BY <2>0, <3>5 DEF HelmdReplayed, AttestedBy
    <3>3. PinIsSupported'
      BY <2>0, <2>a, <2>b, <3>1, MakerSet, PinsKept
    <3>4. QED
      BY <2>c, <2>d, <3>1, <3>2, <3>3, <3>6 DEF HaInv
  <2>3. ASSUME NEW s \in Subjects, NEW sig \in Sig, SubmitCountersignature(s, sig)
        PROVE  HaInv'
    <3>1. /\ UNCHANGED <<records, minting>> /\ addCountersignature(s, sig)
          /\ sig.id = Helmd => \E c \in slots[s].sigs : c.id = Helmd
      BY <2>a, <2>3 DEF SubmitCountersignature, signatories
    <3>2. MakerNeverChecks' /\ HelmdReplayed'
      BY <3>1, CountersignatureKeeps
    <3>3. PinIsSupported'
      BY <2>0, <2>b, <3>1, CountersignatureAdded, PinsKept
    <3>4. QED
      BY <2>c, <2>d, <3>1, <3>2, <3>3 DEF HaInv
  <2>4. ASSUME NEW s \in Subjects, NEW i \in People, NEW kind \in Kind, NEW matched \in BOOLEAN,
               VerifyArtifactBinding(s, i, kind, matched)
        PROVE  HaInv'
    <3> DEFINE sig == [id |-> i, kind |-> kind, at |-> clock]
               rec == [type |-> "approval", subject |-> s, id |-> i, expiry |-> 0, kind |-> kind]
    <3>1. /\ s \in ArtifactSubjects /\ records' = records /\ addCountersignature(s, sig)
          /\ minting' \subseteq minting \cup {rec}
      BY <2>4 DEF VerifyArtifactBinding
    <3>2. sig \in Sig /\ sig.id = i /\ rec.subject = s /\ rec.id = i /\ i # Helmd
      BY <2>0, <2>a, ActsAreTyped
    <3> HIDE DEF sig, rec
    <3>3. MakerNeverChecks' /\ HelmdReplayed'
      BY <3>1, <3>2, CountersignatureKeeps
    <3>4. PinIsSupported'
      BY <2>0, <2>b, <3>1, <3>2, CountersignatureAdded, PinsKept
    <3>5. \E c \in slots'[s].sigs : c.id = i
      BY <2>0, <3>1, <3>2, CountersignatureAdded
    <3>6. AutomatedApprovalsSigned'
      <4> SUFFICES ASSUME NEW r \in records' \cup minting', r.kind = "automated"
                   PROVE  /\ r.subject \in ArtifactSubjects
                          /\ \E c \in slots'[r.subject].sigs : c.id = r.id
        BY DEF AutomatedApprovalsSigned
      <4>1. CASE r = rec
        BY <3>1, <3>2, <3>5, <4>1
      <4>2. CASE r \in records \cup minting
        BY <2>0, <2>b, <4>2 DEF AutomatedApprovalsSigned, SlotsOnlyGrow
      <4>3. QED
        BY <3>1, <4>1, <4>2
    <3>7. QED
      BY <3>3, <3>4, <3>6 DEF HaInv
  <2>5. ASSUME NEW s \in Subjects, RecordReplay(s)
        PROVE  HaInv'
    <3>1. /\ UNCHANGED <<records, minting>> /\ addCountersignature(s, ReplaySig)
          /\ ReplaySig \in Sig /\ ReplaySig.kind = "automated" /\ s \notin ArtifactSubjects
      BY <2>0, <2>5, ActsAreTyped DEF RecordReplay, ReplaySig
    <3>2. MakerNeverChecks' /\ HelmdReplayed'
      BY <3>1, CountersignatureKeeps
    <3>3. PinIsSupported'
      BY <2>0, <2>b, <3>1, CountersignatureAdded, PinsKept
    <3>4. QED
      BY <2>c, <2>d, <3>1, <3>2, <3>3 DEF HaInv
  <2>6. ASSUME NEW r \in minting, MintApproval(r) PROVE HaInv'
    <3>1. records' \cup minting' \subseteq records \cup minting /\ UNCHANGED slots
      BY <2>6 DEF MintApproval, appendHaRecord
    <3>2. QED
      BY <2>c, <2>d, <2>q, <3>1 DEF HaInv
  <2>7. ASSUME NEW s \in Subjects, NEW n \in 1..Cardinality(Ids), PinSlotSatisfaction(s, n)
        PROVE  HaInv'
    <3> DEFINE H == distinctHumanCheckerIds(s)
    <3>1. Cardinality(H) >= n /\ UNCHANGED <<records, minting>>
      BY <2>7 DEF PinSlotSatisfaction
    <3>2. H \subseteq Ids /\ \A i \in H : \E c \in slots[s].sigs : c.id = i /\ c.kind = "human"
      BY <2>0 DEF distinctHumanCheckerIds, HaTypeOK, Sig
    <3>3. /\ \A t \in Subjects : slots'[t].sigs = slots[t].sigs /\ slots'[t].maker = slots[t].maker
          /\ \A t \in Subjects \ {s} : slots'[t].threshold = slots[t].threshold
          /\ slots'[s].threshold = n
      BY <2>0, <2>7, Pinned
    <3>4. MakerNeverChecks' /\ HelmdReplayed'
      BY <2>0, <3>3 DEF MakerNeverChecks, HelmdReplayed, AttestedBy
    <3>5. Helmd \in H => /\ s \notin ArtifactSubjects
                        /\ \E c \in slots[s].sigs : c.id = Helmd /\ c.kind = "automated"
      BY <2>0, <3>2 DEF HelmdReplayed, AttestedBy
    <3> HIDE DEF H
    <3>6. ASSUME NEW t \in Subjects, slots'[t].threshold # Nobody
          PROVE  \E K \in SUBSET Ids :
                    /\ Cardinality(K) >= slots'[t].threshold
                    /\ \A i \in K : \E c \in slots'[t].sigs : c.id = i /\ c.kind = "human"
                    /\ Helmd \in K =>
                         /\ t \notin ArtifactSubjects
                         /\ \E c \in slots'[t].sigs : c.id = Helmd /\ c.kind = "automated"
      <4>1. CASE t = s
        BY <3>1, <3>2, <3>3, <3>5, <4>1
      <4>2. CASE t # s
        BY <2>0, <3>3, <3>6, <4>2 DEF PinIsSupported, AttestedBy
      <4>3. QED
        BY <4>1, <4>2
    <3>7. PinIsSupported'
      BY <3>6 DEF PinIsSupported, AttestedBy
    <3>8. QED
      BY <2>c, <2>d, <3>1, <3>4, <3>7 DEF HaInv
  <2>8. CASE Tick \/ Crash \/ UNCHANGED vars
    <3>1. records' \cup minting' \subseteq records \cup minting /\ UNCHANGED slots
      BY <2>8 DEF Tick, Crash, vars
    <3>2. QED
      BY <2>c, <2>d, <2>q, <3>1 DEF HaInv
  <2>9. QED
    BY <2>1, <2>2, <2>3, <2>4, <2>5, <2>6, <2>7, <2>8, ActsAreTyped DEF Next, InPlay, HaInv
<1>3. QED
  BY <1>1, <1>2, HaTypeCorrect, PTL DEF Spec

\* addCountersignature keeps the maker out of the slot's checkers, whatever the order of
\* signing.
THEOREM HaMakerNeverChecks == Spec => []MakerNeverChecks
<1>1. HaInv => MakerNeverChecks
  BY DEF HaInv
<1>2. QED
  BY <1>1, HaInvariant, PTL

\* A pin of pinSlotSatisfaction rests on as many distinct checkers entered as human, and
\* on helmd only where helmd replayed the node and its signature was submitted again.
THEOREM HaPinIsSupported == Spec => []PinIsSupported
<1>1. HaInv => PinIsSupported
  BY DEF HaInv
<1>2. QED
  BY <1>1, HaInvariant, PTL

\* recordArtifactBindingVerification files an approval only for a checker whose
\* countersignature the slot took, who is therefore not the maker.
THEOREM HaBindingApprovals == Spec => []BindingApprovalHasSignature
<1>1. HaInv => BindingApprovalHasSignature
  <2> SUFFICES ASSUME HaInv, NEW r \in records \cup minting, r.kind = "automated"
               PROVE  \E c \in slots[r.subject].sigs :
                         c.id = r.id /\ r.id # slots[r.subject].maker
    BY DEF BindingApprovalHasSignature
  <2>1. r.subject \in Subjects
    BY DEF HaInv, HaTypeOK, Record
  <2>2. QED
    BY <2>1 DEF HaInv, AutomatedApprovalsSigned, MakerNeverChecks
<1>2. QED
  BY <1>1, HaInvariant, PTL

\* A gate over a kernel node's output that no override holds open is open on N people's
\* approvals: recordReplay files none.
THEOREM HaReplayNeverApproves == Spec => []ReplayNeverApproves
<1>1. HaInv => ReplayNeverApproves
  <2> SUFFICES ASSUME HaInv, NEW s \in Subjects \ ArtifactSubjects,
                      evaluateHaGate(s), ~OverrideActive(s)
               PROVE  Cardinality(HumanApprovers(s)) >= Threshold
    BY DEF ReplayNeverApproves
  <2>1. \A r \in Of("approval", s) : r.kind = "human"
    BY DEF HaInv, HaTypeOK, Record, Kind, AutomatedApprovalsSigned, Of
  <2>2. HumanApprovers(s) = distinctApprovers(s)
    BY <2>1 DEF HumanApprovers, distinctApprovers
  <2>3. QED
    BY <2>2 DEF evaluateHaGate, Satisfied
<1>2. QED
  BY <1>1, HaInvariant, PTL

\* isOverrideActive is the only part of evaluateHaGate that looks at the clock.
THEOREM HaTimeOnlyEndsOverrides == Spec => TimeOnlyEndsOverrides
<1> USE HaAssumption
<1>1. HaTypeOK /\ [Next]_vars
      => [clock' # clock => \A s \in Subjects :
            /\ evaluateHaGate(s)' => evaluateHaGate(s)
            /\ evaluateHaGate(s) /\ ~evaluateHaGate(s)' => ~Satisfied(s)]_vars
  <2> SUFFICES ASSUME HaTypeOK, [Next]_vars, clock' # clock, NEW s \in Subjects
               PROVE  /\ evaluateHaGate(s)' => evaluateHaGate(s)
                      /\ evaluateHaGate(s) /\ ~evaluateHaGate(s)' => ~Satisfied(s)
    OBVIOUS
  <2>1. Tick
    BY DEF Next, InPlay, vars, SubmitHaRecord, SubmitMakerSignature, SubmitCountersignature,
           VerifyArtifactBinding, RecordReplay, MintApproval, PinSlotSatisfaction, Crash
  <2>2. records' = records /\ clock \in Nat /\ clock' = clock + 1
    BY <2>1 DEF Tick, HaTypeOK, Time
  <2>3. \A r \in records : r.expiry \in Nat
    BY DEF HaTypeOK, Record, Time
  <2>4. (Rejected(s)' <=> Rejected(s)) /\ (Satisfied(s)' <=> Satisfied(s))
    BY <2>2 DEF Rejected, Satisfied, distinctApprovers, Of
  <2>5. OverrideActive(s)' => OverrideActive(s)
    BY <2>2, <2>3 DEF OverrideActive, Of
  <2>6. QED
    BY <2>4, <2>5 DEF evaluateHaGate
<1>2. QED
  BY <1>1, HaTypeCorrect, PTL DEF Spec, TimeOnlyEndsOverrides

\* Every approval a gate counts has somebody else's signature behind it
\* (countersign, evaluateHaGate).
THEOREM HaApprovalsAreSigned == Spec => []ApprovalsAreSigned
<1>1. MakerNeverChecks /\ ReplayNeverApproves /\ BindingApprovalHasSignature => ApprovalsAreSigned
  BY DEF ApprovalsAreSigned
<1> QED BY <1>1, HaMakerNeverChecks, HaReplayNeverApproves, HaBindingApprovals, PTL

\* What was decided at a gate stays decided (countersign, pin, reject, override).
THEOREM HaDecisionsAreFinal == Spec => DecisionsAreFinal
BY HaMakerNeverSwapped, HaPinIsFinal, HaRejectionIsFinal, HaTimeOnlyEndsOverrides DEF DecisionsAreFinal
=============================================================================
