------------------------------- MODULE Matters -------------------------------
(***************************************************************************)
(* hub/matter-store.mjs with the /matters routes of hub/server.mjs and the *)
(* callers of them (scripts/matter-close.mjs, ui/views/matters.mjs): a     *)
(* matter is a row that refers by hash to artifacts other tables hold, and *)
(* closing one emits a signed export of what it refers to.                 *)
(*                                                                         *)
(* Every handler awaits its request body and is synchronous from there on, *)
(* so the only thing that can happen inside one is the death of the        *)
(* process: the row of a closing and its export are two commits.           *)
(*                                                                         *)
(* A deadline is its natural key (date, action, source) with its done      *)
(* flag. entity, parties and narrative are replaced and carried forward    *)
(* like bindings and nothing depends on them. A manifest stands for its    *)
(* own digest. Refused calls (422, 404, an invalid shape) change nothing.  *)
(***************************************************************************)
EXTENDS Naturals, FiniteSets, SequencesExt

CONSTANTS Matter,      \* the ids generateUlid will return
          Run, Hash, Key,
          NoRun, Nil,
          MaxBindings, \* bound: bindings of one matter
          MaxDeadlines \* bound: deadlines of one matter

ASSUME MatterAssumption == /\ NoRun \notin Run /\ Nil \notin Matter \cup Hash
                           /\ MaxBindings \in Nat /\ MaxDeadlines \in Nat

LocalKind == {"run", "approval_record", "attested_artifact", "evidence_bundle"}
Binding == [kind : LocalKind \cup {"external_reference"}, hash : Hash]
Bindings == {B \in SUBSET Binding : IsFiniteSet(B) /\ Cardinality(B) <= MaxBindings}
Deadline == [key : Key, done : BOOLEAN]
Deadlines == {D \in SUBSET Deadline : Cardinality(D) <= MaxDeadlines}
Status == {"open", "closed"}  \* "open" stands for "intake" and "working"
Manifest == [status : Status, deadlines : Deadlines, bindings : Bindings]

VARIABLES hashOf,     \* table runs: execution_hash of each run
          approvals,  \* table ha_records: record_ids
          attested,   \* table step_results: hashes of attested_artifacts:* outputs
          registry,   \* table evidence_bundle_registry: run_id of each digest
          matters,    \* table matters
          exports,    \* table matter_exports: the export of each matter that has one
          closing,    \* the matter whose closing has committed and whose export has not
          used,       \* ids given out
          closedAs    \* history: manifest of the last transition into "closed" that
                      \* the process survived

tables == <<hashOf, approvals, attested, registry>>
matterVars == <<tables, matters, exports, closing, used, closedAs>>

RunsWith(h) == {r \in Run : hashOf[r] = h}
idle == closing = Nil

MatterInit == /\ hashOf = [r \in Run |-> Nil]
        /\ approvals = {} /\ attested = {}
        /\ registry = [h \in Hash |-> Nil]
        /\ matters = [m \in Matter |-> Nil]
        /\ exports = [m \in {} |-> Nil]
        /\ closing = Nil /\ used = {}
        /\ closedAs = [m \in Matter |-> Nil]
-----------------------------------------------------------------------------
(* The tables a binding refers to. Their owners insert and never delete.   *)

\* two runs of the same inputs have the same execution_hash
RunSealed(r, h) ==
    /\ idle /\ hashOf[r] = Nil
    /\ hashOf' = [hashOf EXCEPT ![r] = h]
    /\ UNCHANGED <<approvals, attested, registry, matters, exports, closing, used, closedAs>>

ApprovalRecorded(h) ==
    /\ idle /\ h \notin approvals
    /\ approvals' = approvals \cup {h}
    /\ UNCHANGED <<hashOf, attested, registry, matters, exports, closing, used, closedAs>>

ArtifactAttested(h) ==
    /\ idle /\ h \notin attested
    /\ attested' = attested \cup {h}
    /\ UNCHANGED <<hashOf, approvals, registry, matters, exports, closing, used, closedAs>>

\* INSERT OR IGNORE: the run_id of the first registration stays
registerEvidenceBundle(h, r) ==
    /\ idle /\ registry[h] = Nil
    /\ registry' = [registry EXCEPT ![h] = r]
    /\ UNCHANGED <<hashOf, approvals, attested, matters, exports, closing, used, closedAs>>
-----------------------------------------------------------------------------
resolves(b) ==
    CASE b.kind = "run"                -> RunsWith(b.hash) # {}
      [] b.kind = "approval_record"    -> b.hash \in approvals
      [] b.kind = "attested_artifact"  -> b.hash \in attested
      [] b.kind = "evidence_bundle"    -> registry[b.hash] # Nil
      [] b.kind = "external_reference" -> FALSE

\* Mistaken form: one binding that resolves is enough.
SomeUnresolved(B) == IF \E b \in B : resolves(b) THEN {} ELSE
                     {b \in B : b.kind # "external_reference" /\ ~resolves(b)}

unresolvedBindings(B) == {b \in B : b.kind # "external_reference" /\ ~resolves(b)}

\* Mistaken form: any done deadline will do.
StillSomeDone(prior, next) ==
    (\E d \in prior : d.done) => \E d \in next : d.done

stillDone(prior, next) == \A d \in prior : d.done => d \in next

createMatter(m, manifest) ==
    /\ idle /\ m \notin used
    /\ unresolvedBindings(manifest.bindings) = {}
    /\ matters' = [matters EXCEPT ![m] = manifest]
    /\ used' = used \cup {m}
    /\ UNCHANGED <<tables, exports, closing, closedAs>>

\* updateMatter, as closeMatter calls it: a member of the patch that is
\* absent (Nil) carries the existing value forward.
merged(existing, patch) ==
    [f \in DOMAIN existing |-> IF patch[f] = Nil THEN existing[f] ELSE patch[f]]

\* Mistaken form: a matter that has an export is not exported again.
EmitsFirst(m, before, next) == next.status = "closed" /\ m \notin DOMAIN exports

emits(m, before, next) == next.status = "closed" /\ before.status # "closed"

closeMatter(m, patch) ==
    /\ idle /\ matters[m] # Nil
    /\ LET before == matters[m]
           next == merged(before, patch)
       IN /\ stillDone(before.deadlines, next.deadlines)
          /\ unresolvedBindings(next.bindings) = {}
          /\ matters' = [matters EXCEPT ![m] = next]
          /\ closing' = IF emits(m, before, next) THEN m ELSE Nil
          /\ closedAs' = IF before.status = "open" /\ next.status = "closed"
                         THEN [closedAs EXCEPT ![m] = next] ELSE closedAs
    /\ UNCHANGED <<tables, exports, used>>

deleteMatter(m) ==
    /\ idle /\ matters[m] # Nil
    /\ matters' = [matters EXCEPT ![m] = Nil]
    /\ UNCHANGED <<tables, exports, closing, used, closedAs>>
-----------------------------------------------------------------------------
(* The second half of closeMatter.                                         *)

\* the run whose evidence a binding ships: SELECT ... WHERE execution_hash
\* returns one row of several, a registered bundle names its own
artifactRuns(b) ==
    CASE b.kind = "run"             -> RunsWith(b.hash)
      [] b.kind = "evidence_bundle" -> {registry[b.hash]}
      [] OTHER                      -> {NoRun}

exportBindingArtifact(b, r) ==
    IF b.kind = "external_reference"
    THEN [binding |-> b, exported |-> FALSE, run |-> NoRun]
    ELSE [binding |-> b, exported |-> TRUE, run |-> r]

\* The e-bundle: an index page that shows the open deadlines and has a line
\* and a link for each binding, a page for each, and a bookmark for each page.
\* Catalog, page tree and font are objects 1 to 3; a page and its content take
\* two numbers each, so links and bookmarks name pages by a computed number.
buildEBundlePdf(matter, artifacts) ==
    LET n == Len(artifacts)
        pageNum(k) == 4 + 2 * k
    IN [open |-> {d \in matter.deadlines : ~d.done},
        lines |-> [i \in 1..n |-> [binding |-> artifacts[i].binding, says |-> i + 1]],
        links |-> [i \in 1..n |-> pageNum(i)],
        bookmarks |-> [k \in 1..(n + 1) |-> pageNum(k - 1)],
        kids |-> [k \in 1..(n + 1) |-> pageNum(k - 1)],
        objects |-> [p \in {pageNum(i) : i \in 1..n} |-> artifacts[(p - 4) \div 2]]]

\* the load file: one row for each binding, under its own hash and kind
buildEdrmDat(artifacts) == [i \in 1..Len(artifacts) |-> artifacts[i].binding]

\* Mistaken form: a binding that does not resolve is left out of the export.
AssembleResolved(matter, runOf) ==
    LET order == SetToSeq({b \in matter.bindings : resolves(b)})
        artifacts == [i \in 1..Len(order) |-> exportBindingArtifact(order[i], runOf[order[i]])]
    IN [matter |-> matter, artifacts |-> artifacts,
        pdf |-> buildEBundlePdf(matter, artifacts), dat |-> buildEdrmDat(artifacts)]

assembleMatterExport(matter, runOf) ==
    LET order == SetToSeq(matter.bindings)  \* the order of the array bindings[]
        artifacts == [i \in 1..Len(order) |-> exportBindingArtifact(order[i], runOf[order[i]])]
    IN [matter |-> matter, artifacts |-> artifacts,
        pdf |-> buildEBundlePdf(matter, artifacts), dat |-> buildEdrmDat(artifacts)]

\* a binding that does not resolve any longer throws: 422, and the closing stays
persistMatterExport(runOf) ==
    /\ ~idle
    /\ \A b \in DOMAIN runOf : runOf[b] \in artifactRuns(b)
    /\ exports' = IF unresolvedBindings(matters[closing].bindings) = {}
                  THEN [m \in DOMAIN exports \cup {closing} |->
                           IF m = closing THEN assembleMatterExport(matters[closing], runOf) ELSE exports[m]]
                  ELSE exports
    /\ closing' = Nil
    /\ UNCHANGED <<tables, matters, used, closedAs>>

\* the process dies between the two commits
diesClosing ==
    /\ ~idle
    /\ closedAs' = [closedAs EXCEPT ![closing] = Nil] /\ closing' = Nil
    /\ UNCHANGED <<tables, matters, exports, used>>
-----------------------------------------------------------------------------
\* bound: a patch replaces the status and one list, or only one of them
Patch == {p \in [status : Status \cup {Nil}, deadlines : Deadlines \cup {Nil},
                 bindings : Bindings \cup {Nil}] :
             Nil \in {p.deadlines, p.bindings}}

MatterNext ==
    \/ \E r \in Run, h \in Hash : RunSealed(r, h)
    \/ \E h \in Hash : ApprovalRecorded(h) \/ ArtifactAttested(h)
    \/ \E h \in Hash, r \in Run \cup {NoRun} : registerEvidenceBundle(h, r)
    \/ \E m \in Matter : \/ \E manifest \in Manifest : createMatter(m, manifest)
                         \/ \E patch \in Patch : closeMatter(m, patch)
                         \/ deleteMatter(m)
    \/ ~idle /\ \E runOf \in [matters[closing].bindings -> Run \cup {NoRun}] :
                    persistMatterExport(runOf)
    \/ diesClosing

MatterSpec == MatterInit /\ [][MatterNext]_matterVars
-----------------------------------------------------------------------------
\* Every matter row holds bindings that resolve in the local tables, whatever
\* the other parts of the daemon wrote since it was accepted: createMatter
\* and updateMatter refuse the rest and nothing prunes what they saw.
BindingsResolve ==
    \A m \in Matter : matters[m] # Nil =>
        \A b \in matters[m].bindings : b.kind # "external_reference" => resolves(b)

\* Once closeMatter has answered, the export of a matter is the one of its
\* last transition into "closed", of exactly the manifest it closed with,
\* also when it was edited, reopened, closed again or deleted since. Only a
\* closing the process did not survive has none.
ExportOfLastClosing ==
    \A m \in Matter :
        closedAs[m] # Nil /\ closing # m =>
            m \in DOMAIN exports /\ exports[m].matter = closedAs[m]

\* An export never has a hole: it holds one artifact for each binding of its
\* manifest, exported for the four local kinds and labelled unexported for an
\* external reference, the artifact of a run is a run of that very hash, the
\* load file has a row for each, and in the e-bundle the page that a line of
\* the index announces, its link and its bookmark lead to is the binding's.
ExportHasNoHole ==
    \A m \in DOMAIN exports :
        LET e == exports[m] IN
        /\ {a.binding : a \in ToSet(e.artifacts)} = e.matter.bindings
        /\ \A a \in ToSet(e.artifacts) :
              /\ a.exported <=> resolves(a.binding)
              /\ a.binding.kind = "run" => hashOf[a.run] = a.binding.hash
        /\ ToSet(e.dat) = e.matter.bindings
        /\ {line.binding : line \in ToSet(e.pdf.lines)} = e.matter.bindings
        /\ \A i \in DOMAIN e.pdf.lines :
              LET line == e.pdf.lines[i]
                  page == e.pdf.kids[line.says]
              IN page = e.pdf.links[i] /\ page = e.pdf.bookmarks[line.says]
                 /\ e.pdf.objects[page].binding = line.binding
        /\ \A d \in e.matter.deadlines : d.done \/ d \in e.pdf.open

\* What a signed export shows as done is done in the live matter as well:
\* done deadlines are append-only through every later edit and reopening.
DoneSinceExport ==
    \A m \in DOMAIN exports : matters[m] # Nil =>
        \A d \in exports[m].matter.deadlines : d.done => d \in matters[m].deadlines

\* What a matter says of its work stays true from the first binding to the last
\* export, whatever is bound, closed, exported or done again in between.
MatterKeepsRecord == BindingsResolve /\ ExportOfLastClosing /\ ExportHasNoHole /\ DoneSinceExport
-----------------------------------------------------------------------------
(* What comments of the code say and the code does not do: see the README. *)

\* "Closed additionally triggers section 5 bundle emission": a matter whose
\* status is closed has an export.
ClosedHasExport ==
    \A m \in Matter : matters[m] # Nil /\ matters[m].status = "closed" /\ closing # m =>
        m \in DOMAIN exports

\* "The closure export is signed exactly once": an export is never replaced.
ExportSignedOnce == [][\A m \in DOMAIN exports : exports'[m] = exports[m]]_matterVars
=============================================================================
