-------------------------------- MODULE Signer --------------------------------
(***************************************************************************)
(* Signatures that are not helmd's own: the external signer of hub/        *)
(* signer-exec.mjs, a child process whose events (chunks of output, exit,  *)
(* the timer, an error) come in any order, and the OpenSSH counter-        *)
(* signatures of hub/extsig.mjs. A chunk is a piece of what the child      *)
(* wrote; a signature is whole when its two pieces are there in order.     *)
(***************************************************************************)
EXTENDS Naturals, Sequences, FiniteSets, SequencesExt

CONSTANTS OutputCap,   \* maxOutputBytes, in pieces
          MaxChunks,   \* bound: chunks a child writes
          SshKey, Namespace, Message, Principal,
          Unmade

ASSUME SignerAssumption == OutputCap \in Nat /\ OutputCap >= 2 /\ MaxChunks \in Nat
                           /\ Unmade \notin SshKey \union {"signature", "refused"}

VARIABLES child,    \* [life, code, wrote, pipe, held]: the process and its stdout; wrote is history
          caller,   \* [stdout, timedOut, oversize, verdict]: the locals of runChild, and the outcome
          counter   \* a counter-signature and its verdict

signerVars == <<child, caller, counter>>

NoChild == [life |-> "none", code |-> Unmade, wrote |-> <<>>, pipe |-> <<>>, held |-> FALSE]
SignerInit ==
    /\ child = NoChild
    /\ caller = [stdout |-> <<>>, timedOut |-> FALSE, oversize |-> FALSE, verdict |-> Unmade]
    /\ counter = Unmade
-----------------------------------------------------------------------------
(* The child: it may be anything that was configured.                      *)
Chunk == {"head", "tail", "blank", "junk", "big"}
size(chunk) == IF chunk = "big" THEN OutputCap + 1 ELSE 1
sizeOf(chunks) == Len(chunks) + OutputCap * Cardinality({i \in DOMAIN chunks : chunks[i] = "big"})

spawns ==
    /\ counter = Unmade /\ child.life = "none"
    /\ child' = [child EXCEPT !.life = "running"]
    /\ UNCHANGED <<caller, counter>>

writes(chunk) ==
    /\ child.life = "running" /\ caller.verdict = Unmade /\ Len(child.wrote) < MaxChunks
    /\ child' = [child EXCEPT !.wrote = Append(@, chunk), !.pipe = Append(@, chunk)]
    /\ UNCHANGED <<caller, counter>>

\* it ends, perhaps leaving a process of its own with the pipe
exits(code, held) ==
    /\ child.life = "running"
    /\ child' = [child EXCEPT !.life = "gone", !.code = code, !.held = held]
    /\ UNCHANGED <<caller, counter>>

SIGKILL == 9
killed(c) == IF c.life = "running" THEN [c EXCEPT !.life = "gone", !.code = SIGKILL] ELSE c
-----------------------------------------------------------------------------
(* runChild.                                                               *)
finish(verdict) == caller' = [caller EXCEPT !.verdict = verdict]
pending == child.life # "none" /\ caller.verdict = Unmade

\* Mistaken form: the child is killed, and what it wrote before is kept.
ReadUnmarked ==
    LET chunk == Head(child.pipe) IN
    /\ pending /\ child.pipe # <<>>
    /\ IF sizeOf(caller.stdout) < OutputCap /\ sizeOf(caller.stdout) + size(chunk) > OutputCap
         THEN /\ child' = [killed(child) EXCEPT !.pipe = Tail(@)]
              /\ UNCHANGED caller
         ELSE /\ child' = [child EXCEPT !.pipe = Tail(@)]
              /\ caller' = IF sizeOf(caller.stdout) >= OutputCap THEN caller
                           ELSE [caller EXCEPT !.stdout = Append(@, chunk)]
    /\ UNCHANGED counter

\* "data": a chunk that would pass the cap is dropped and the child killed;
\* at the cap chunks are dropped without a mark
reads ==
    LET chunk == Head(child.pipe) IN
    /\ pending /\ child.pipe # <<>>
    /\ IF sizeOf(caller.stdout) < OutputCap /\ sizeOf(caller.stdout) + size(chunk) > OutputCap
         THEN /\ child' = [killed(child) EXCEPT !.pipe = Tail(@)]
              /\ caller' = [caller EXCEPT !.oversize = TRUE]
         ELSE /\ child' = [child EXCEPT !.pipe = Tail(@)]
              /\ caller' = IF sizeOf(caller.stdout) >= OutputCap THEN caller
                           ELSE [caller EXCEPT !.stdout = Append(@, chunk)]
    /\ UNCHANGED counter

timer ==
    /\ pending /\ ~caller.timedOut
    /\ caller' = [caller EXCEPT !.timedOut = TRUE] /\ child' = killed(child)
    /\ UNCHANGED counter

\* "error" instead of a process, or after a kill that failed
spawnError ==
    /\ pending /\ finish("refused") /\ UNCHANGED <<child, counter>>

\* one line: blanks around it are trimmed, one within it is malformed
parseSignatureOutput(stdout) ==
    LET text == {i \in DOMAIN stdout : stdout[i] # "blank"}
    IN IF text = {} THEN <<>>
       ELSE SubSeq(stdout, CHOOSE i \in text : \A j \in text : i <= j,
                           CHOOSE i \in text : \A j \in text : j <= i)

\* verify-after-sign
cryptoVerify(text) == text = <<"head", "tail">>

\* "close": the process is gone and nobody holds its end of stdout
closes ==
    /\ pending /\ child.life = "gone" /\ child.pipe = <<>> /\ ~child.held
    /\ finish(IF /\ ~caller.timedOut /\ ~caller.oversize /\ child.code = 0
                 /\ cryptoVerify(parseSignatureOutput(caller.stdout))
                THEN "signature" ELSE "refused")
    /\ UNCHANGED <<child, counter>>
-----------------------------------------------------------------------------
(* Counter-signatures: what the armored blob declares, and what its raw    *)
(* signature was made over.                                                *)
Blob == [algo : {"ssh-ed25519", "sk-ssh-ed25519", "ssh-rsa"}, key : SshKey, namespace : Namespace,
         hash : {"sha512", "sha1"}, by : SshKey, over : Namespace \X Message]
RosterLine == [principal : Principal, key : SshKey]
Roster == {<<>>} \union {<<l>> : l \in RosterLine} \union (RosterLine \X RosterLine)

findRosterKey(roster, principal) ==
    LET lines == {i \in DOMAIN roster : roster[i].principal = principal}
    IN IF lines = {} THEN Unmade ELSE roster[CHOOSE i \in lines : \A j \in lines : i <= j].key

\* Mistaken form: the namespace that is checked is the blob's own.
VerifyAnyNamespace(b, roster, principal, namespace, message) ==
    CASE b.algo # "ssh-ed25519" -> "no"
      [] findRosterKey(roster, principal) # b.key -> "no"
      [] b.hash = "sha1" -> "throws"
      [] OTHER -> IF b.by = b.key /\ b.over = <<b.namespace, message>> THEN "ok" ELSE "no"

\* the first line of the roster for the principal counts, and a hash the
\* verifier does not have throws, after everything else was looked at
verifySshsig(b, roster, principal, namespace, message) ==
    CASE b.algo # "ssh-ed25519" -> "no"
      [] b.algo = "ssh-ed25519" /\ b.namespace # namespace -> "no"
      [] b.algo = "ssh-ed25519" /\ b.namespace = namespace ->
           CASE findRosterKey(roster, principal) # b.key -> "no"
             [] findRosterKey(roster, principal) = b.key /\ b.hash = "sha1" -> "throws"
             [] OTHER -> IF b.by = b.key /\ b.over = <<b.namespace, message>> THEN "ok" ELSE "no"

countersigns(b, roster, principal, namespace, message) ==
    /\ counter' = [blob |-> b, roster |-> roster, principal |-> principal, namespace |-> namespace,
                   message |-> message,
                   verdict |-> verifySshsig(b, roster, principal, namespace, message)]
    /\ UNCHANGED <<child, caller>>

SignerNext ==
    \/ spawns \/ (\E chunk \in Chunk : writes(chunk))
    \/ (\E code \in 0..1, held \in BOOLEAN : exits(code, held))
    \/ reads \/ timer \/ spawnError \/ closes
    \/ /\ counter = Unmade /\ child.life = "none"
       /\ \E b \in Blob, roster \in Roster, principal \in Principal, namespace \in Namespace,
             message \in Message : countersigns(b, roster, principal, namespace, message)

SignerSpec == SignerInit /\ [][SignerNext]_signerVars
-----------------------------------------------------------------------------
\* Fail closed, whatever order the child's events come in: a signature is
\* returned only of a child that ended by itself with code 0 and in time, and
\* nothing was dropped between the pieces it was read from (runChild and
\* signViaExternalSigner).
AcceptedIsUnbroken ==
    caller.verdict = "signature" =>
        /\ child.code = 0 /\ ~caller.timedOut
        /\ IsPrefix(caller.stdout, child.wrote) /\ sizeOf(caller.stdout) <= OutputCap

\* Claimed by signer-exec.mjs ("output cap ... treated as no signature, never
\* partial"), and refuted: output that reaches the cap exactly and goes on is
\* cut there without a mark, and accepted if it verifies.
OverCapIsRefused ==
    caller.verdict = "signature" => sizeOf(child.wrote) <= OutputCap

\* A counter-signature that is accepted was made, for this purpose and over this
\* message, with a key the roster has for that person (verifySshsig): one made
\* for the other namespace is refused although its key is good.
CountersignedByThem ==
    counter # Unmade /\ counter.verdict = "ok" =>
        /\ counter.blob.over = <<counter.namespace, counter.message>>
        /\ \E i \in DOMAIN counter.roster :
              counter.roster[i] = [principal |-> counter.principal, key |-> counter.blob.by]

\* A signature that is accepted is what the signer wrote, over what was asked.
SignaturesAreWhole == AcceptedIsUnbroken /\ CountersignedByThem
=============================================================================
