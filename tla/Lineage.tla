------------------------------ MODULE Lineage ------------------------------
(***************************************************************************)
(* The key lifecycle of an identity: hub/key-lifecycle.mjs and its browser *)
(* mirror ui/lib/verify-key-lineage.mjs.  An inception event commits to    *)
(* the next key; every rotation names the event it follows by digest,      *)
(* reveals the key that event committed to and is signed by it.            *)
(*                                                                         *)
(* An event's digest is its place in `keyEvents' (the digest covers the    *)
(* payload only, so an envelope whose signature was damaged or stripped    *)
(* has the digest of the intact one).  The holder of the keys builds       *)
(* rotations, also on an event that is no longer the head, with a wrong    *)
(* sequence number or from the wrong key; a store accepts them through     *)
(* assertRotationAppendable; an export delivers them in any order, some    *)
(* twice, some damaged, some not at all; and the verifier walks the export.*)
(***************************************************************************)
EXTENDS Naturals, Sequences, FiniteSets

CONSTANTS KeyPair,      \* the key pairs of the identity
          MaxRotations, \* rotations built
          MaxDelivered  \* rotation envelopes in one export

VARIABLES keyEvents,    \* the events built, by digest; the first is the inception
          trail,        \* the digests the store has accepted, in order
          envelopes,    \* the export: rotation envelopes in the order of the array
          verdict       \* what the last verification of the export returned

lineageVars == <<keyEvents, trail, envelopes, verdict>>

NoVerdict == [status |-> "none", headDigest |-> 0]

(* The digests an export may name: those of the events built so far.       *)
EventDigests == 1..Len(keyEvents)

buildInceptionEvent(next) == [prev |-> 0, seq |-> 0, reveals |-> 0, commits |-> next]

buildRotationEvent(prior, seq, revealed, next) ==
    [prev |-> prior, seq |-> seq, reveals |-> revealed, commits |-> next]

LineageInit ==
    /\ \E next \in KeyPair : keyEvents = <<buildInceptionEvent(next)>>
    /\ trail = <<1>>
    /\ envelopes = <<>>
    /\ verdict = NoVerdict

(***************************************************************************)
(* envelopeEvent signs whatever event it is given: identitySeq,            *)
(* priorEnvelope and revealedKeys are the caller's, and nothing compares   *)
(* them with the prior event.                                              *)
(***************************************************************************)
envelopeEvent ==
    /\ Len(keyEvents) <= MaxRotations
    /\ \E prior \in EventDigests, seq \in 1..MaxRotations, revealed, next \in KeyPair :
          keyEvents' = Append(keyEvents, buildRotationEvent(prior, seq, revealed, next))
    /\ UNCHANGED <<trail, envelopes, verdict>>

(* An event as candidate for the place after head: what both the guard and *)
(* the walk require of it.                                                 *)
Follows(event, head) ==
    /\ event.seq = head.seq + 1
    /\ event.reveals = head.commits

(* Mistaken form: the candidate's own claim to a prior commitment suffices. *)
AppendableAnywhere(head, candidate, intact) ==
    /\ Follows(keyEvents[candidate], keyEvents[keyEvents[candidate].prev])
    /\ intact

(***************************************************************************)
(* The write-time guard, called by whoever persists rotations (outside     *)
(* this file) with the head of the accepted trail.  The signature is the   *)
(* last thing it looks at.                                                 *)
(***************************************************************************)
assertRotationAppendable(head, candidate, intact) ==
    /\ keyEvents[candidate].prev = head
    /\ Follows(keyEvents[candidate], keyEvents[head])
    /\ intact

acceptRotation ==
    /\ \E candidate \in EventDigests \ {1}, intact \in BOOLEAN :
          /\ assertRotationAppendable(trail[Len(trail)], candidate, intact)
          /\ trail' = Append(trail, candidate)
    /\ UNCHANGED <<keyEvents, envelopes, verdict>>

(* The export gains an envelope: any event, again if need be, its signature *)
(* as built or damaged.                                                     *)
deliver ==
    /\ Len(envelopes) < MaxDelivered
    /\ \E d \in EventDigests \ {1}, intact \in BOOLEAN :
          envelopes' = Append(envelopes, [digest |-> d, intact |-> intact])
    /\ verdict' = NoVerdict
    /\ UNCHANGED <<keyEvents, trail>>

(***************************************************************************)
(* rotationsByDigest: one candidate per digest.  A Map built from the      *)
(* array keeps the last envelope of a digest.                              *)
(***************************************************************************)
Delivered == {envelopes[i].digest : i \in 1..Len(envelopes)}

rotationsByDigest ==
    [d \in Delivered |->
        LET last == CHOOSE i \in 1..Len(envelopes) :
                        /\ envelopes[i].digest = d
                        /\ \A j \in (i + 1)..Len(envelopes) : envelopes[j].digest # d
        IN  envelopes[last].intact]

(* candidates: byPrevDigest of a head.                                     *)
byPrevDigest(head) == {d \in Delivered : keyEvents[d].prev = head}

(***************************************************************************)
(* The walk of verifyKeyLineage: from each head, what it returns.  An      *)
(* event follows only events built before it, since it holds their digest. *)
(***************************************************************************)
verifySignatureByLabel(d) == rotationsByDigest[d]

(* Mistaken form: of several candidates the first one is followed.         *)
WalkFirst(head, rest) ==
    LET candidates == byPrevDigest(head)
        some == CHOOSE d \in candidates : TRUE
    IN  CASE candidates = {} -> [status |-> "continuous", headDigest |-> head]
          [] OTHER -> IF Follows(keyEvents[some], keyEvents[head]) /\ verifySignatureByLabel(some)
                      THEN rest[some]
                      ELSE [status |-> "invalid", headDigest |-> head]

walkStep(head, rest) ==
    LET candidates == byPrevDigest(head)
        only == CHOOSE d \in candidates : TRUE
    IN  CASE candidates = {} -> [status |-> "continuous", headDigest |-> head]
          [] Cardinality(candidates) > 1 -> [status |-> "fork_detected", headDigest |-> head]
          [] OTHER -> IF Follows(keyEvents[only], keyEvents[head]) /\ verifySignatureByLabel(only)
                      THEN rest[only]
                      ELSE [status |-> "invalid", headDigest |-> head]

verifyKeyLineage ==
    LET walk[head \in EventDigests] == walkStep(head, walk)
    IN  walk[1]

audit ==
    /\ verdict = NoVerdict
    /\ verdict' = verifyKeyLineage
    /\ UNCHANGED <<keyEvents, trail, envelopes>>

LineageNext == envelopeEvent \/ acceptRotation \/ deliver \/ audit

LineageSpec == LineageInit /\ [][LineageNext]_lineageVars

----------------------------------------------------------------------------
(***************************************************************************)
(* Properties                                                              *)
(***************************************************************************)

(* The reference: the way from the inception to h is a set of delivered    *)
(* events closed under "the event it follows", each of which follows it    *)
(* properly, is signed, and has no delivered rival.                        *)
Undisputed(h) ==
    \E way \in SUBSET (Delivered \cup {1}) :
        /\ {1, h} \subseteq way
        /\ \A d \in way : d <= h
        /\ \A d \in way \ {1} :
              /\ keyEvents[d].prev \in way
              /\ keyEvents[d].seq = keyEvents[keyEvents[d].prev].seq + 1
              /\ keyEvents[d].reveals = keyEvents[keyEvents[d].prev].commits
              /\ \E i \in 1..Len(envelopes) : envelopes[i] = [digest |-> d, intact |-> TRUE]
              /\ \A e \in Delivered \ {d} : keyEvents[e].prev # keyEvents[d].prev

(* What verifyKeyLineage reports is what the export shows: "continuous"    *)
(* exactly up to an event that an undisputed way leads to and nothing      *)
(* follows, "fork_detected" exactly where two rotations claim the same     *)
(* undisputed event, "invalid" only when the one event that follows does   *)
(* not fit or is not signed in some envelope of the export (a rollback to  *)
(* an old key is therefore never continuous: key-lifecycle.mjs:174-181).   *)
VerdictIsRight ==
    verdict # NoVerdict =>
        LET h == verdict.headDigest
            next == {e \in Delivered : keyEvents[e].prev = h}
        IN  /\ Undisputed(h)
            /\ CASE next = {} -> verdict.status = "continuous"
                 [] Cardinality(next) > 1 -> verdict.status = "fork_detected"
                 [] OTHER -> /\ verdict.status = "invalid"
                             /\ ~ \E e \in next :
                                    /\ Undisputed(e)
                                    /\ \A i \in 1..Len(envelopes) :
                                          envelopes[i].digest = e => envelopes[i].intact

(* The store accepts one rotation for each event and only the successor of *)
(* its head: replayed, stale and competing rotations are refused whenever  *)
(* they arrive, so no accepted event is ever followed by two.              *)
TrailNeverForks ==
    \A i, j \in 1..Len(trail) :
        /\ i > 1 => keyEvents[trail[i]].prev = trail[i - 1]
        /\ keyEvents[trail[i]].prev = keyEvents[trail[j]].prev => i = j

\* Keys have one history, on the machine that rotates them and for whoever is
\* handed an export of it, in any order and with anything added or left out.
LineageIsOne == VerdictIsRight /\ TrailNeverForks

(* "rotations in any order - order is DERIVED from prev_event_digest       *)
(* linkage, not from array position" (key-lifecycle.mjs:158-160): an       *)
(* export with the envelopes of an undisputed, properly signed history     *)
(* verifies in whatever order they come.                                   *)
AnyOrder ==
    verdict # NoVerdict =>
        (verdict.status = "invalid" =>
            \A e \in Delivered : keyEvents[e].prev = verdict.headDigest => ~ Undisputed(e))
=============================================================================
