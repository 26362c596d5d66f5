-------------------------------- MODULE Boot ---------------------------------
(***************************************************************************)
(* hub/index.mjs cmdStart with hub/checkpoint.mjs and hub/recovery.mjs:    *)
(* a start verifies the journal, in full or from the newest checkpoint,    *)
(* quarantines a state directory that does not verify, and then, in the    *)
(* background, anchors and saves the next checkpoint while the daemon      *)
(* already serves requests that append to the journal.                     *)
(*                                                                         *)
(* A checkpoint's journal_root_digest is a digest of its stream heads and  *)
(* is represented by them.                                                 *)
(***************************************************************************)
EXTENDS Journal, FiniteSetsExt

CONSTANTS AnchorRequired,      \* config.anchorRequired
          AnchorOnCheckpoint,  \* config.anchorOnCheckpoint
          MaxBoots,            \* bound: starts of the daemon
          MaxFaults            \* bound: damage done on disk

ASSUME BootAssumption == /\ AnchorRequired \in BOOLEAN
                         /\ AnchorOnCheckpoint \in BOOLEAN
                         /\ MaxBoots \in Nat /\ MaxFaults \in Nat

VARIABLES phase,        \* is the daemon serving?
          bootPath,     \* how the last start verified the journal
          checkpoints,  \* table checkpoints, by checkpoint_seq
          building,     \* the anchored checkpoint this start is waiting to save
          quarantined,  \* state directories set aside: were their rows as written?
          damaged,      \* what is no longer as journal says: <<seq, column or "row">>
          astray,       \* streams whose row of stream_state was altered or removed on disk
          boots, faults \* how many so far

bvars == <<phase, bootPath, checkpoints, building, quarantined, damaged, astray, boots, faults>>
vars == <<jvars, bvars>>

Heads == [Streams -> Head_]
EmptyHeads == [s \in Streams |-> NoHead(s)]
AnchorType == {"rfc3161", "queued", "skipped"}

NotBuilding == [live |-> FALSE, root |-> EmptyHeads]

\* Damage of a row.  entry_json stands for the columns no replay reads (kind, run_id,
\* created_at); a hashed column holds, once altered, what nothing hashes to.
Hashed == {"entry_digest", "rh", "row"}
Damage == Hashed \cup {"entry_json"}

present == {i \in DOMAIN journal : <<i, "row">> \notin damaged}

\* what SELECT seq, stream_id, entry_digest, rh finds
stored == [i \in present |->
             [stream |-> journal[i].stream,
              digest |-> IF <<i, "entry_digest">> \in damaged THEN NoDigest ELSE journal[i].digest,
              rh |-> IF <<i, "rh">> \in damaged THEN BlankRh ELSE journal[i].rh]]
-----------------------------------------------------------------------------
(* Verification.                                                           *)

\* Mistaken form: the replay repeats the row the checkpoint already vouches for.
FloorSeqInclusive(heads) ==
    LET live == {heads[s].seq : s \in LiveStreams(heads)}
    IN  IF live = {} THEN 0 ELSE Min(live) - 1

floorSeq(heads) ==
    LET live == {heads[s].seq : s \in LiveStreams(heads)}
    IN  IF live = {} THEN 0 ELSE Min(live)

\* Mistaken form: the first row after the checkpoint is skipped.
ReplaySkippingOne(rows, heads) ==
    ReplayFrom(rows, floorSeq(heads) + 1, [s \in Streams |-> heads[s].rh])

\* a stream the checkpoint does not list starts from its seed, which is NoHead's rh
replayVerifyFrom(rows, heads) ==
    ReplayFrom(rows, floorSeq(heads), [s \in Streams |-> heads[s].rh])

latestCheckpoint == checkpoints[Len(checkpoints)]

\* verifyCheckpointSignature: the envelope verifies and the root digests the heads
verifyCheckpointSignature(cp) == cp.sound

canFastPath ==
    /\ checkpoints # <<>>
    /\ verifyCheckpointSignature(latestCheckpoint)
    /\ Len(latestCheckpoint.anchors) > 0 \/ ~AnchorRequired

Verified ==
    IF canFastPath THEN replayVerifyFrom(stored, latestCheckpoint.streams)
                   ELSE replayVerify(stored)
-----------------------------------------------------------------------------
\* Mistaken form: the heads of the streams that have rows, and of no other.
StartBuildingLive ==
    building' = IF LiveStreams(streamState) # {}
                THEN [live |-> TRUE, root |-> [s \in LiveStreams(streamState) |-> streamState[s]]]
                ELSE NotBuilding

\* buildAnchoredCheckpoint runs up to its await: the digest to anchor is taken now
StartBuilding ==
    building' = IF LiveStreams(streamState) # {}
                THEN [live |-> TRUE, root |-> streamState] ELSE NotBuilding

BootVerified ==
    /\ phase = "down" /\ boots < MaxBoots
    /\ Verified
    /\ phase' = "up"
    /\ bootPath' = IF canFastPath THEN "fast" ELSE "full"
    /\ boots' = boots + 1
    /\ StartBuilding
    /\ UNCHANGED <<jvars, checkpoints, quarantined, damaged, astray, faults>>

\* quarantineStateDir renames the directory; cmdStart then starts on an empty one,
\* whose journal verifies in full and has no head to checkpoint
BootQuarantined ==
    /\ phase = "down" /\ boots < MaxBoots
    /\ ~Verified
    /\ quarantined' = quarantined \cup {[intact |-> damaged = {} /\ astray = {}]}
    /\ journal' = <<>> /\ streamState' = EmptyHeads /\ tx' = NoTx
    /\ checkpoints' = <<>>
    /\ damaged' = {} /\ astray' = {}
    /\ phase' = "up" /\ bootPath' = "full"
    /\ boots' = boots + 1
    /\ building' = NotBuilding
    /\ UNCHANGED faults

\* Mistaken form: one stream's head is the one taken before the wait.
SaveCheckpointStale(type) ==
    /\ building.live /\ tx.phase = "idle"
    /\ checkpoints' = Append(checkpoints,
         [streams |-> [streamState EXCEPT ![CHOOSE s \in LiveStreams(building.root) : TRUE] =
                          building.root[CHOOSE s \in LiveStreams(building.root) : TRUE]],
          anchors |-> << [type |-> type, digest |-> building.root] >>,
          sound |-> TRUE])
    /\ building' = NotBuilding
    /\ UNCHANGED <<jvars, phase, bootPath, quarantined, damaged, astray, boots, faults>>

\* The relay answered, failed, or was never asked: the checkpoint is built again, from
\* the heads of now, with the one anchors[] entry, and saved.
SaveCheckpoint(type) ==
    /\ building.live /\ tx.phase = "idle"
    /\ checkpoints' = Append(checkpoints,
         [streams |-> streamState,
          anchors |-> << [type |-> type, digest |-> building.root] >>,
          sound |-> TRUE])
    /\ building' = NotBuilding
    /\ UNCHANGED <<jvars, phase, bootPath, quarantined, damaged, astray, boots, faults>>

\* offline: anchorForCheckpoint resolves with a skipped marker without leaving the
\* current turn of the event loop, so nothing is appended meanwhile
AnchorOutcome(type) ==
    IF AnchorOnCheckpoint THEN type \in {"rfc3161", "queued"} ELSE type = "skipped"

Appending ==
    /\ phase = "up"
    /\ AnchorOnCheckpoint \/ ~building.live
    /\ AppendEntry
    /\ UNCHANGED bvars

\* idle shutdown, `helmd stop`, a crash: the open transaction and the await are gone
Stop ==
    /\ phase = "up"
    /\ phase' = "down"
    /\ tx' = NoTx
    /\ building' = NotBuilding
    /\ UNCHANGED <<journal, streamState, bootPath, checkpoints, quarantined, damaged, astray, boots, faults>>

\* a row of the journal changes on disk, in one of its columns or as a whole
DamageRow(i, what) ==
    /\ tx.phase = "idle" /\ faults < MaxFaults
    /\ i \in present /\ <<i, what>> \notin damaged
    /\ damaged' = damaged \cup {<<i, what>>}
    /\ faults' = faults + 1
    /\ UNCHANGED <<jvars, phase, bootPath, checkpoints, building, quarantined, astray, boots>>

\* a row of stream_state is gone, or holds another last_rh
DamageHead(s, gone) ==
    /\ tx.phase = "idle" /\ faults < MaxFaults
    /\ s \in LiveStreams(streamState)
    /\ streamState' = [streamState EXCEPT ![s] = IF gone THEN NoHead(s) ELSE [@ EXCEPT !.rh = BlankRh]]
    /\ astray' = astray \cup {s}
    /\ faults' = faults + 1
    /\ UNCHANGED <<journal, tx, phase, bootPath, checkpoints, building, quarantined, damaged, boots>>

\* a stored checkpoint no longer verifies
DamageCheckpoint ==
    /\ faults < MaxFaults
    /\ checkpoints # <<>> /\ latestCheckpoint.sound
    /\ checkpoints' = [checkpoints EXCEPT ![Len(checkpoints)].sound = FALSE]
    /\ faults' = faults + 1
    /\ UNCHANGED <<jvars, phase, bootPath, building, quarantined, damaged, astray, boots>>

Init ==
    /\ InitJournal
    /\ phase = "down" /\ bootPath = "none"
    /\ checkpoints = <<>> /\ building = NotBuilding
    /\ quarantined = {} /\ damaged = {} /\ astray = {}
    /\ boots = 0 /\ faults = 0

Next ==
    \/ BootVerified
    \/ BootQuarantined
    \/ \E type \in AnchorType : AnchorOutcome(type) /\ SaveCheckpoint(type)
    \/ Appending
    \/ Stop
    \/ \E i \in DOMAIN journal, what \in Damage : DamageRow(i, what)
    \/ \E s \in Streams, gone \in BOOLEAN : DamageHead(s, gone)
    \/ DamageCheckpoint

Spec == Init /\ [][Next]_vars
-----------------------------------------------------------------------------
\* Every variable holds values of its kind.
BootTypeOK ==
    /\ JournalTypeOK
    /\ phase \in {"down", "up"}
    /\ bootPath \in {"none", "fast", "full"}
    /\ checkpoints \in Seq([streams : Heads, sound : BOOLEAN,
                            anchors : Seq([type : AnchorType, digest : Heads])])
    /\ building \in [live : BOOLEAN, root : Heads]
    /\ quarantined \subseteq [intact : BOOLEAN]
    /\ damaged \subseteq Nat \X Damage /\ astray \subseteq Streams
    /\ boots \in 0..MaxBoots /\ faults \in 0..MaxFaults

HeadAt(rows, n, s) ==
    LET own == {i \in 1..n : rows[i].stream = s}
    IN  IF own = {} THEN NoHead(s) ELSE [seq |-> Max(own), rh |-> rows[Max(own)].rh]

\* A checkpoint is one moment of the journal: although other streams were appended to
\* while it waited for its anchor, the heads it signs are all the heads of one prefix of
\* the journal, so replaying forward from it misses no row and repeats none; unless
\* stream_state, where the heads are read, was damaged (buildCheckpoint, checkpoint.mjs).
CheckpointIsOneMoment ==
    astray = {} =>
        \A c \in 1..Len(checkpoints) : \E n \in 0..Len(journal) :
            \A s \in Streams : checkpoints[c].streams[s] = HeadAt(journal, n, s)

Trusted(i) ==
    /\ canFastPath
    /\ i <= latestCheckpoint.streams[journal[i].stream].seq

AsHashed(i) == \A what \in Hashed : <<i, what>> \notin damaged

\* the stream has lost this row and every row after it
CutOff(i) == \A j \in present : journal[j].stream = journal[i].stream => j < i

\* A start never serves a journal in which what a row's hash covers has changed on disk,
\* or from which a row is gone, unless the newest sound checkpoint vouches for the row or
\* the end of its stream is gone with it: every later row is recomputed, in every stream.
ServesOnlyVerifiedRows ==
    [][ BootVerified /\ astray = {} =>
          \A i \in DOMAIN journal : AsHashed(i) \/ Trusted(i) \/ CutOff(i) ]_vars

LowestHead(heads) == Min({heads[s].seq : s \in LiveStreams(heads)})

\* A start sets a state directory aside only for one of three causes: the heads that
\* appends chain to were damaged, a row above the replay's start is not as it was hashed,
\* or a row the checkpoint already covers is recomputed, which takes a second stream whose
\* head is older.  Crashes, abandoned appends, damaged checkpoints, a changed entry_json
\* and appends during the wait for an anchor are no cause.
QuarantineHasCause ==
    [][ BootQuarantined =>
          \/ astray # {}
          \/ \E i \in DOMAIN journal :
                ~AsHashed(i) /\ (canFastPath => i > LowestHead(latestCheckpoint.streams))
          \/ \E i \in DOMAIN journal :
                Trusted(i) /\ i > LowestHead(latestCheckpoint.streams) ]_vars

\* A start serves what verifies, and sets a state directory aside for a cause.
StartsAreJustified == ServesOnlyVerifiedRows /\ QuarantineHasCause
-----------------------------------------------------------------------------
(* What comments of the code say and the code does not do: see the README. *)

\* A journal nobody damaged is never quarantined: crashes, abandoned appends, damaged
\* checkpoints and starts in any order leave it replayable.
IntactNeverQuarantined == [intact |-> TRUE] \notin quarantined

\* A start serves a journal only when nothing in it has changed on disk, but for what its
\* newest checkpoint vouches for.
ServesWhatItCanProve ==
    [][ BootVerified => \A x \in damaged : Trusted(x[1]) ]_vars

\* A checkpoint that carries a timestamp carries the timestamp of its own root digest.
AnchorBindsCheckpoint ==
    \A c \in 1..Len(checkpoints) : \A a \in 1..Len(checkpoints[c].anchors) :
        checkpoints[c].anchors[a].type = "rfc3161"
            => checkpoints[c].anchors[a].digest = checkpoints[c].streams

\* With anchorRequired, only a checkpoint with a real timestamp opens the fast path.
FastPathNeedsRealAnchor ==
    [][ BootVerified /\ AnchorRequired /\ bootPath' = "fast"
        => \E a \in DOMAIN latestCheckpoint.anchors :
              latestCheckpoint.anchors[a].type = "rfc3161" ]_vars
=============================================================================
