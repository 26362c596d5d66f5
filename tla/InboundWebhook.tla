---------------------------- MODULE InboundWebhook ----------------------------
(***************************************************************************)
(* hub/server.mjs handleInboundWebhook with hub/webhook-guard.mjs and      *)
(* hub/connectors/inbound-webhook.mjs: an orchestrator pushes a governed   *)
(* step.  The sender retries with a fresh nonce and timestamp under the    *)
(* same idempotency key; the network may deliver a request again, late.    *)
(*                                                                         *)
(* A request whose signature verifies is handled in one turn of the event  *)
(* loop, up to executeRun if the contract grants run.resume and the run is *)
(* held; the answer is stored when that returns.  A request that does not  *)
(* verify, or is stale, changes nothing but the egress record and is left  *)
(* out.  The cache's 24 h lie beyond the horizon of the clock here.  What  *)
(* else may resume the run is RunEngine's subject.                         *)
(***************************************************************************)
EXTENDS Naturals, FiniteSets

CONSTANTS Nonces, Keys, Runs,
          RunOf,             \* key -> the run its request names
          AllowedKeys,       \* keys sent from a host in the contract's allowlist
          ResumeAuthorized,  \* the contract's scopes list run.resume
          Window,            \* NONCE_TOLERANCE_MS
          Skew,              \* how far a sender's clock may be ahead
          NoKey,             \* the key of a nonce not used yet
          MaxTime,           \* bound: last instant of the clock
          MaxRestarts        \* bound: restarts of the daemon

ASSUME WebhookAssumption ==
    /\ RunOf \in [Keys -> Runs] /\ AllowedKeys \subseteq Keys /\ NoKey \notin Keys
    /\ ResumeAuthorized \in BOOLEAN
    /\ Window \in Nat /\ Skew \in Nat /\ MaxTime \in Nat /\ MaxRestarts \in Nat

VARIABLES sent,       \* nonce -> the request it was sent with
          seenNonces, \* in memory: nonce and when it expires
          cached,     \* in memory: keys with a stored answer
          resuming,   \* requests waiting for executeRun
          state,      \* run -> state of its row
          accepted,   \* nonce -> times it passed the replay check since the start (history)
          executed,   \* key -> times its step was received and attested since then (history)
          resumes,    \* key -> times it resumed its run since then (history)
          clock, restarts

vars == <<sent, seenNonces, cached, resuming, state, accepted, executed, resumes, clock, restarts>>

memory == <<seenNonces, cached, resuming, accepted, executed, resumes>>

Unsent == [key |-> NoKey, ts |-> 0]
-----------------------------------------------------------------------------
\* the orchestrator mints a nonce for a first attempt or a retry
Send(n, k, ts) ==
    /\ sent[n] = Unsent
    /\ ts <= clock + Skew
    /\ sent' = [sent EXCEPT ![n] = [key |-> k, ts |-> ts]]
    /\ UNCHANGED <<memory, state, clock, restarts>>

isTimestampFresh(ts) == clock <= ts + Window /\ ts <= clock + Window

\* Mistaken form: a nonce expires at the last instant its timestamp is fresh.
UnexpiredBarely == {s \in seenNonces : s.until > clock}

Unexpired == {s \in seenNonces : s.until >= clock}

Seen(n) == \E s \in Unexpired : s.nonce = n

\* it reaches the replay check; checkAndConsumeNonce purges, and consumes
Fresh(n) == sent[n] # Unsent /\ isTimestampFresh(sent[n].ts)

Consume(n) ==
    /\ Fresh(n) /\ ~Seen(n)
    /\ seenNonces' = Unexpired \cup {[nonce |-> n, until |-> clock + Window]}
    /\ accepted' = [accepted EXCEPT ![n] = @ + 1]

ReplayRejected(n) ==
    /\ Fresh(n) /\ Seen(n)
    /\ seenNonces' = Unexpired
    /\ UNCHANGED <<sent, cached, resuming, state, accepted, executed, resumes, clock, restarts>>

\* a retry of what was answered gets the stored answer
AnswerFromCache(n) ==
    /\ Consume(n)
    /\ sent[n].key \in cached
    /\ UNCHANGED <<sent, cached, resuming, state, executed, resumes, clock, restarts>>

storeIdempotentResponse(k) == cached' = cached \cup {k}

Novel(n) == Consume(n) /\ sent[n].key \notin cached

\* connector.send refuses the source; the refusal is stored
Blocked(n) ==
    /\ Novel(n)
    /\ sent[n].key \notin AllowedKeys
    /\ storeIdempotentResponse(sent[n].key)
    /\ UNCHANGED <<sent, resuming, state, executed, resumes, clock, restarts>>

Received(n) ==
    /\ Novel(n)
    /\ sent[n].key \in AllowedKeys
    /\ executed' = [executed EXCEPT ![sent[n].key] = @ + 1]

MayResume(k) == ResumeAuthorized /\ state[RunOf[k]] = "awaiting_data"

\* Mistaken form: only the answer of a resumed run is stored.
AnswerUnstored(n) ==
    /\ Received(n)
    /\ ~MayResume(sent[n].key)
    /\ UNCHANGED <<sent, cached, resuming, state, resumes, clock, restarts>>

AnswerAtOnce(n) ==
    /\ Received(n)
    /\ ~MayResume(sent[n].key)
    /\ storeIdempotentResponse(sent[n].key)
    /\ UNCHANGED <<sent, resuming, state, resumes, clock, restarts>>

\* executeRun moves the run to running before it first waits
ResumeRun(n) ==
    /\ Received(n)
    /\ MayResume(sent[n].key)
    /\ state' = [state EXCEPT ![RunOf[sent[n].key]] = "running"]
    /\ resuming' = resuming \cup {n}
    /\ resumes' = [resumes EXCEPT ![sent[n].key] = @ + 1]
    /\ UNCHANGED <<sent, cached, clock, restarts>>

\* executeRun returns or throws: the run finished, failed, or is held again
RunReturns(n, to) ==
    /\ n \in resuming
    /\ state' = [state EXCEPT ![RunOf[sent[n].key]] = to]
    /\ resuming' = resuming \ {n}
    /\ storeIdempotentResponse(sent[n].key)
    /\ UNCHANGED <<sent, seenNonces, accepted, executed, resumes, clock, restarts>>

\* the maps are gone; a run under way stays as its row says
Restart ==
    /\ restarts < MaxRestarts
    /\ restarts' = restarts + 1
    /\ seenNonces' = {} /\ cached' = {} /\ resuming' = {}
    /\ accepted' = [n \in Nonces |-> 0]
    /\ executed' = [k \in Keys |-> 0]
    /\ resumes' = [k \in Keys |-> 0]
    /\ UNCHANGED <<sent, state, clock>>

Tick ==
    /\ clock < MaxTime
    /\ clock' = clock + 1
    /\ UNCHANGED <<sent, memory, state, restarts>>

Init ==
    /\ sent = [n \in Nonces |-> Unsent]
    /\ seenNonces = {} /\ cached = {} /\ resuming = {}
    /\ state = [r \in Runs |-> "awaiting_data"]
    /\ accepted = [n \in Nonces |-> 0]
    /\ executed = [k \in Keys |-> 0]
    /\ resumes = [k \in Keys |-> 0]
    /\ clock = 0 /\ restarts = 0

Deliver(n) ==
    \/ ReplayRejected(n)
    \/ AnswerFromCache(n)
    \/ Blocked(n)
    \/ AnswerAtOnce(n)
    \/ ResumeRun(n)

Next ==
    \/ \E n \in Nonces, k \in Keys, ts \in 0..(MaxTime + Skew) : Send(n, k, ts)
    \/ \E n \in Nonces : Deliver(n)
    \/ \E n \in Nonces, to \in {"awaiting_data", "completed", "failed"} : RunReturns(n, to)
    \/ Restart
    \/ Tick

Spec == Init /\ [][Next]_vars
-----------------------------------------------------------------------------
\* Every variable holds values of its kind.
WebhookTypeOK ==
    /\ sent \in [Nonces -> [key : Keys, ts : Nat] \cup {Unsent}]
    /\ seenNonces \subseteq [nonce : Nonces, until : Nat]
    /\ cached \subseteq Keys
    /\ resuming \subseteq {n \in Nonces : sent[n] # Unsent}
    /\ state \in [Runs -> {"awaiting_data", "running", "completed", "failed"}]
    /\ accepted \in [Nonces -> Nat]
    /\ executed \in [Keys -> Nat] /\ resumes \in [Keys -> Nat]
    /\ clock \in Nat /\ restarts \in 0..MaxRestarts

\* A request delivered again, however late, is rejected: between two restarts a nonce
\* passes the replay check once, because it is remembered for as long as its timestamp
\* counts as fresh.
NonceAcceptedOnce == \A n \in Nonces : accepted[n] <= 1

Waits(k) == \E n \in resuming : sent[n].key = k

\* A retry receives and attests the governed step again only while an earlier attempt
\* under its key is still waiting for the run: once a request has been answered, whichever
\* way the answer came about, every retry is served from the cache.
ReexecutedOnlyWhileWaiting ==
    [][ \A k \in Keys : executed[k] > 0 /\ executed'[k] > executed[k] => Waits(k) ]_vars

\* Retries resume a run at most once for one request: also when the run was held again
\* at once, and when the retry came while the first attempt was still waiting.
ResumedOncePerKey == \A k \in Keys : resumes[k] <= 1

\* Retrying a request does its work once: one resumption, and no second execution
\* after an answer.
RetriesAreIdempotent == []ResumedOncePerKey /\ ReexecutedOnlyWhileWaiting
-----------------------------------------------------------------------------
(* What comments of the code say and the code does not do: see the README. *)

\* A retry, alone or while the first attempt still waits for the run, never receives and
\* attests the governed step a second time.
GovernedStepOnce == \A k \in Keys : executed[k] <= 1
=============================================================================
