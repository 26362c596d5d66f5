------------------------------ MODULE RunEngine ------------------------------
(***************************************************************************)
(* hub/run.mjs executeRun and the five places that call it: POST           *)
(* /run/start and the MCP run tools (run-actions.mjs), POST /run/resume    *)
(* and the inbound webhook (server.mjs), and a cadence firing              *)
(* (watch-scheduler.mjs).                                                  *)
(*                                                                         *)
(* helmd is one JavaScript thread: a call runs until it waits for a step   *)
(* runner, and only then may another one run.  cpu is the call that has    *)
(* the thread.  (`await gateCheck` waits for nothing outside the process,  *)
(* so a gate is read in the turn that asks for it.)  A crash may fall      *)
(* between any two statements that reach the database.                     *)
(*                                                                         *)
(* A manifest is N planned steps; a digest is represented by what it       *)
(* digests, so an execution_hash is the sequence of the steps' outputs,    *)
(* which determine every input digest.  The run's journal stream is        *)
(* represented by the state its newest entry records.                      *)
(***************************************************************************)
EXTENDS Naturals, Sequences

CONSTANTS Runs,            \* run ids; a manifest and its dry_run flag go with each
          Calls,           \* concurrent calls of executeRun
          N,               \* number of planned steps
          Feeds,           \* step -> steps whose output is bound into its parameters
          ConnectorSteps,  \* steps only an otherKindsRunner can run
          GatedSteps,      \* steps that declare a gate_policy
          MissingData,     \* nodes whose static policy_parameters make compute throw
          DryRuns,         \* runs with dry_run set
          Outputs,         \* what a step may output
          DryOutput,       \* the placeholder a dry run records
          NoOutput,        \* null: before the first step
          NoHash,          \* null in execution_hash
          Free,            \* nobody has the thread
          MaxCrashes       \* bound: deaths of the daemon

ASSUME RunAssumption ==
    /\ N \in Nat \ {0} /\ Runs # {}
    /\ Feeds \in [1..N -> SUBSET (1..N)]
    /\ \A i \in 1..N : Feeds[i] \subseteq 1..(i - 1)    \* orderStepsByEdges
    /\ ConnectorSteps \subseteq 1..N /\ GatedSteps \subseteq 1..N
    /\ MissingData \subseteq (1..N) \ ConnectorSteps
    /\ DryRuns \subseteq Runs
    /\ DryOutput \notin Outputs /\ NoOutput \notin Outputs \cup {DryOutput}
    /\ NoHash \notin Seq(Outputs \cup {DryOutput})
    /\ Free \notin Calls
    /\ MaxCrashes \in Nat

VARIABLES runs,      \* table runs: state, execution_hash; held: the last hold reported
          jstate,    \* the state the newest journal entry of the run's stream records
          memo,      \* table step_results, by run
          call,      \* the calls of executeRun under way
          cpu,       \* the call that has the thread, or Free
          gateOpen,  \* <<step, subject>> whose gate evaluates to satisfied or override
          everOpen,  \* the pairs that ever were (history)
          crashes

vars == <<runs, jstate, memo, call, cpu, gateOpen, everOpen, crashes>>

Terminal == {"completed", "failed"}
State == {"none", "draft", "validated", "queued", "running", "awaiting_data"} \cup Terminal

\* ALLOWED_TRANSITIONS, without the cancelled state that no caller asks for
Allowed == [none |-> {"draft"}, draft |-> {"validated"}, validated |-> {"queued"},
            queued |-> {"running"}, running |-> {"awaiting_data", "completed", "failed"},
            awaiting_data |-> {"running"}, completed |-> {}, failed |-> {}]

AnyOutput == Outputs \cup {DryOutput}
Starters == {"ui", "mcp", "watch"}
Resumers == {"resume", "webhook"}
Caller == Starters \cup Resumers

\* Mistaken form: the loop over the steps starts one step early.
IdleFromZero ==
    [pc |-> "idle", run |-> CHOOSE r \in Runs : TRUE, caller |-> "ui",
     step |-> 0, outs |-> <<>>, todo |-> <<>>, half |-> FALSE]

\* no call; a call that begins has this loop state
Idle == [pc |-> "idle", run |-> CHOOSE r \in Runs : TRUE, caller |-> "ui",
         step |-> 1, outs |-> <<>>, todo |-> <<>>, half |-> FALSE]
-----------------------------------------------------------------------------
Prior(i, outs) == IF i = 1 THEN NoOutput ELSE outs[i - 1]

\* what stepInputDigest digests that can differ between two executions of a run's step
stepInput(i, outs) ==
    [prior |-> Prior(i, outs), bound |-> [j \in Feeds[i] |-> outs[j]]]

Recorded(r, i, input) == {m \in memo[r] : m.step = i /\ m.input = input}

\* saveStepResult: INSERT OR REPLACE under (run_id, step_id, input_digest)
saveStepResult(r, i, input, out) ==
    memo' = [memo EXCEPT ![r] = (@ \ Recorded(r, i, input))
                                 \cup {[step |-> i, input |-> input, out |-> out]}]

\* createKernelStepRunner: with an otherKindsRunner every kind has a runner
CanDispatch(c, i) == i \in ConnectorSteps => c \in {"ui", "resume"}

\* the wrapper the webhook passes to executeRun carries no canDispatch
Predicts(c) == c # "webhook"

\* missingDataGateCheck is composed ahead of the approval gate by startWorkflowRun only
MissingDataHeld(c, i) == c \in {"ui", "mcp"} /\ i \in MissingData

ApprovalHeld(i, outs) == i \in GatedSteps /\ <<i, Prior(i, outs)>> \notin gateOpen

Held(c, i, outs) == MissingDataHeld(c, i) \/ ApprovalHeld(i, outs)

\* compute throws on the parameters the step would get
Lacking(i) == i \in MissingData /\ Feeds[i] = {}
-----------------------------------------------------------------------------
(* Calling executeRun.                                                     *)

Start(c, r, caller) ==
    /\ cpu = Free /\ call[c].pc = "idle"
    /\ runs[r].state = "none"
    /\ caller = "watch" => r \notin DryRuns
    /\ runs' = [runs EXCEPT ![r].state = "draft"]      \* the INSERT
    /\ call' = [call EXCEPT ![c] =
          [Idle EXCEPT !.pc = "write", !.run = r, !.caller = caller,
                       !.todo = <<"draft", "validated", "queued", "running">>]]
    /\ cpu' = c
    /\ UNCHANGED <<jstate, memo, gateOpen, everOpen, crashes>>

\* Mistaken form: whatever is not finished may be resumed.
ResumeUnfinished(c, r, caller) ==
    /\ cpu = Free /\ call[c].pc = "idle"
    /\ runs[r].state \in {"awaiting_data", "running"}
    /\ call' = [call EXCEPT ![c] =
          [Idle EXCEPT !.pc = IF runs[r].state = "running" THEN "loop" ELSE "write",
                       !.run = r, !.caller = caller,
                       !.todo = IF runs[r].state = "running" THEN <<>> ELSE <<"running">>]]
    /\ cpu' = c
    /\ UNCHANGED <<runs, jstate, memo, gateOpen, everOpen, crashes>>

\* handleRunResume, and the webhook under a contract that grants run.resume
Resume(c, r, caller) ==
    /\ cpu = Free /\ call[c].pc = "idle"
    /\ runs[r].state = "awaiting_data"
    /\ call' = [call EXCEPT ![c] =
          [Idle EXCEPT !.pc = "write", !.run = r, !.caller = caller, !.todo = <<"running">>]]
    /\ cpu' = c
    /\ UNCHANGED <<runs, jstate, memo, gateOpen, everOpen, crashes>>
-----------------------------------------------------------------------------
(* transitionState: the journal entry, then the UPDATE.                    *)

\* Mistaken form: the table is updated first.
JournalTransitionLate(c) ==
    /\ cpu = c /\ call[c].pc = "write" /\ ~call[c].half
    /\ runs' = [runs EXCEPT ![call[c].run].state = Head(call[c].todo)]
    /\ call' = [call EXCEPT ![c].half = TRUE]
    /\ UNCHANGED <<jstate, memo, cpu, gateOpen, everOpen, crashes>>

JournalTransition(c) ==
    /\ cpu = c /\ call[c].pc = "write" /\ ~call[c].half
    /\ jstate' = [jstate EXCEPT ![call[c].run] = Head(call[c].todo)]
    /\ call' = [call EXCEPT ![c].half = TRUE]
    /\ UNCHANGED <<runs, memo, cpu, gateOpen, everOpen, crashes>>

\* Mistaken form: the catch block records the failure and does not rethrow.
UpdateStateSwallowing(c) ==
    LET to == Head(call[c].todo)
        rest == Tail(call[c].todo)
    IN  /\ cpu = c /\ call[c].pc = "write" /\ call[c].half
        /\ runs' = [runs EXCEPT ![call[c].run].state = to]
        /\ call' = [call EXCEPT ![c] =
              IF rest # <<>> THEN [@ EXCEPT !.todo = rest, !.half = FALSE]
              ELSE IF to \in {"running", "failed"}
              THEN [@ EXCEPT !.pc = "loop", !.todo = <<>>, !.half = FALSE]
              ELSE Idle]
        /\ cpu' = IF rest = <<>> /\ to \notin {"running", "failed"} THEN Free ELSE cpu
        /\ UNCHANGED <<jstate, memo, gateOpen, everOpen, crashes>>

\* after the last transition of the list executeRun goes on to its steps, or returns
UpdateState(c) ==
    LET to == Head(call[c].todo)
        rest == Tail(call[c].todo)
    IN  /\ cpu = c /\ call[c].pc = "write" /\ call[c].half
        /\ runs' = [runs EXCEPT ![call[c].run].state = to]
        /\ call' = [call EXCEPT ![c] =
              IF rest # <<>> THEN [@ EXCEPT !.todo = rest, !.half = FALSE]
              ELSE IF to = "running" THEN [@ EXCEPT !.pc = "loop", !.todo = <<>>, !.half = FALSE]
              ELSE Idle]
        /\ cpu' = IF rest = <<>> /\ to # "running" THEN Free ELSE cpu
        /\ UNCHANGED <<jstate, memo, gateOpen, everOpen, crashes>>
-----------------------------------------------------------------------------
(* The loop over the steps.                                                *)

Stepping(c) == cpu = c /\ call[c].pc = "loop" /\ call[c].step <= N

Missed(c) ==
    Recorded(call[c].run, call[c].step, stepInput(call[c].step, call[c].outs)) = {}

Advance(c, out) ==
    call' = [call EXCEPT ![c].pc = "loop", ![c].step = @ + 1, ![c].outs = Append(@, out)]

EndWith(c, state) == call' = [call EXCEPT ![c].pc = "write", ![c].todo = <<state>>]

MemoHit(c) ==
    /\ Stepping(c)
    /\ \E m \in Recorded(call[c].run, call[c].step, stepInput(call[c].step, call[c].outs)) :
          Advance(c, m.out)
    /\ UNCHANGED <<runs, jstate, memo, cpu, gateOpen, everOpen, crashes>>

Hold(c) ==
    /\ Stepping(c) /\ Missed(c)
    /\ Held(call[c].caller, call[c].step, call[c].outs)
    /\ EndWith(c, "awaiting_data")
    /\ runs' = [runs EXCEPT ![call[c].run].held = call[c].step]
    /\ UNCHANGED <<jstate, memo, cpu, gateOpen, everOpen, crashes>>

Passes(c) ==
    /\ Stepping(c) /\ Missed(c)
    /\ ~Held(call[c].caller, call[c].step, call[c].outs)

DryRefused(c) == Predicts(call[c].caller) /\ ~CanDispatch(call[c].caller, call[c].step)

DryStep(c) ==
    /\ Passes(c) /\ call[c].run \in DryRuns
    /\ IF DryRefused(c)
       THEN EndWith(c, "failed") /\ UNCHANGED memo
       ELSE /\ saveStepResult(call[c].run, call[c].step,
                              stepInput(call[c].step, call[c].outs), DryOutput)
            /\ Advance(c, DryOutput)
    /\ UNCHANGED <<runs, jstate, cpu, gateOpen, everOpen, crashes>>

\* Mistaken form: a caller other than the UI skips the approval gate.
CallStepRunnerUngated(c) ==
    /\ Stepping(c) /\ Missed(c) /\ call[c].run \notin DryRuns
    /\ Held(call[c].caller, call[c].step, call[c].outs) => call[c].caller = "webhook"
    /\ call' = [call EXCEPT ![c].pc = "step"]
    /\ cpu' = Free
    /\ UNCHANGED <<runs, jstate, memo, gateOpen, everOpen, crashes>>

\* Mistaken form: the runner is called without a look at the recorded results.
CallStepRunnerAgain(c) ==
    /\ Stepping(c) /\ call[c].run \notin DryRuns
    /\ ~Held(call[c].caller, call[c].step, call[c].outs)
    /\ call' = [call EXCEPT ![c].pc = "step"]
    /\ cpu' = Free
    /\ UNCHANGED <<runs, jstate, memo, gateOpen, everOpen, crashes>>

CallStepRunner(c) ==
    /\ Passes(c) /\ call[c].run \notin DryRuns
    /\ call' = [call EXCEPT ![c].pc = "step"]
    /\ cpu' = Free
    /\ UNCHANGED <<runs, jstate, memo, gateOpen, everOpen, crashes>>

\* Mistaken form: the result is not saved.
StepDoneUnsaved(c, out) ==
    /\ cpu = Free /\ call[c].pc = "step"
    /\ CanDispatch(call[c].caller, call[c].step) /\ ~Lacking(call[c].step)
    /\ Advance(c, out)
    /\ cpu' = c
    /\ UNCHANGED <<runs, jstate, memo, gateOpen, everOpen, crashes>>

\* the runner answers: an artifact or response stamped with the time, so any output
StepDone(c, out) ==
    /\ cpu = Free /\ call[c].pc = "step"
    /\ CanDispatch(call[c].caller, call[c].step) /\ ~Lacking(call[c].step)
    /\ saveStepResult(call[c].run, call[c].step,
                      stepInput(call[c].step, call[c].outs), out)
    /\ Advance(c, out)
    /\ cpu' = c
    /\ UNCHANGED <<runs, jstate, gateOpen, everOpen, crashes>>

\* Mistaken form: the exception reaches the caller past the failed transition.
StepThrowsUncaught(c) ==
    /\ cpu = Free /\ call[c].pc = "step"
    /\ call' = [call EXCEPT ![c] = Idle]
    /\ UNCHANGED <<runs, jstate, memo, cpu, gateOpen, everOpen, crashes>>

\* a kernel, a connector or the lack of a runner throws
StepThrows(c) ==
    /\ cpu = Free /\ call[c].pc = "step"
    /\ EndWith(c, "failed")
    /\ cpu' = c
    /\ UNCHANGED <<runs, jstate, memo, gateOpen, everOpen, crashes>>

WriteHash(c) ==
    /\ cpu = c /\ call[c].pc = "loop" /\ call[c].step = N + 1
    /\ runs' = [runs EXCEPT ![call[c].run].hash = call[c].outs]
    /\ EndWith(c, "completed")
    /\ UNCHANGED <<jstate, memo, cpu, gateOpen, everOpen, crashes>>
-----------------------------------------------------------------------------
\* submitHaRecord, an override expiring: the evaluation of a gate for a subject changes
GateChanges(i, x) ==
    /\ cpu = Free
    /\ gateOpen' = IF <<i, x>> \in gateOpen THEN gateOpen \ {<<i, x>>}
                                            ELSE gateOpen \cup {<<i, x>>}
    /\ everOpen' = everOpen \cup gateOpen'
    /\ UNCHANGED <<runs, jstate, memo, call, cpu, crashes>>

\* the process dies (or exits idle); every start of the daemon leaves the tables as they are
Crash ==
    /\ crashes < MaxCrashes
    /\ \E c \in Calls : call[c].pc # "idle"
    /\ call' = [c \in Calls |-> Idle] /\ cpu' = Free
    /\ crashes' = crashes + 1
    /\ UNCHANGED <<runs, jstate, memo, gateOpen, everOpen>>

Init ==
    /\ runs = [r \in Runs |-> [state |-> "none", hash |-> NoHash, held |-> 0]]
    /\ jstate = [r \in Runs |-> "none"]
    /\ memo = [r \in Runs |-> {}]
    /\ call = [c \in Calls |-> Idle] /\ cpu = Free
    /\ gateOpen = {} /\ everOpen = {}
    /\ crashes = 0

Executing(c) ==
    \/ JournalTransition(c)
    \/ UpdateState(c)
    \/ MemoHit(c)
    \/ Hold(c)
    \/ DryStep(c)
    \/ CallStepRunner(c)
    \/ \E out \in Outputs : StepDone(c, out)
    \/ StepThrows(c)
    \/ WriteHash(c)

Next ==
    \/ \E c \in Calls, r \in Runs, caller \in Starters : Start(c, r, caller)
    \/ \E c \in Calls, r \in Runs, caller \in Resumers : Resume(c, r, caller)
    \/ \E c \in Calls : Executing(c)
    \/ \E i \in GatedSteps, x \in AnyOutput \cup {NoOutput} : GateChanges(i, x)
    \/ Crash

Spec == Init /\ [][Next]_vars

\* every step runner answers or throws, and the event loop comes round to the answer
\* however often other calls take the thread first
FairSpec == Spec /\ \A c \in Calls : SF_vars(Executing(c))
-----------------------------------------------------------------------------
Input == [prior : AnyOutput \cup {NoOutput}, bound : UNION {[F -> AnyOutput] : F \in SUBSET (1..N)}]
Result == [step : 1..N, input : Input, out : AnyOutput]

\* Every variable holds values of its kind.
RunTypeOK ==
    /\ runs \in [Runs -> [state : State, hash : Seq(AnyOutput) \cup {NoHash}, held : 0..N]]
    /\ jstate \in [Runs -> State]
    /\ memo \in [Runs -> SUBSET Result]
    /\ call \in [Calls -> [pc : {"idle", "write", "loop", "step"}, run : Runs, caller : Caller,
                           step : 1..(N + 1), outs : Seq(AnyOutput),
                           todo : Seq(State \ {"none"}), half : BOOLEAN]]
    /\ cpu \in Calls \cup {Free}
    /\ gateOpen \subseteq everOpen
    /\ everOpen \subseteq GatedSteps \X (AnyOutput \cup {NoOutput})
    /\ crashes \in 0..MaxCrashes

\* Although starts, resumes and webhooks come at any time and step runners keep a call
\* waiting, no two calls of executeRun ever work on the same run.
OneExecutor ==
    \A c, d \in Calls : c # d /\ call[c].pc # "idle" /\ call[d].pc # "idle"
                        => call[c].run # call[d].run

\* The table never runs ahead of the journal: a run's state is the one its newest entry
\* records, or, in the middle of transitionState or for good after a crash there, one the
\* entry legally follows.
JournalLeads ==
    \A r \in Runs : \/ jstate[r] = runs[r].state
                    \/ jstate[r] \in Allowed[runs[r].state]
                    \/ jstate[r] = "none" /\ runs[r].state = "draft"

\* replayExecutionHash walks the memo rows from the first step and finds h
Replays(r, h) ==
    \A i \in 1..N : [step |-> i, input |-> stepInput(i, h), out |-> h[i]] \in memo[r]

MemoUnique ==
    \A r \in Runs : \A m, k \in memo[r] :
        m.step = k.step /\ m.input = k.input => m = k

\* A recorded execution_hash is what a replay of the stored results yields, and no other
\* result competes for the same key, whatever was held, resumed, crashed or run again.
ReplayMatchesHash ==
    /\ MemoUnique
    /\ \A r \in Runs : runs[r].hash # NoHash => Replays(r, runs[r].hash)

\* The journal tells what the table of runs holds, and a hash what the results are.
RecordsReplay == JournalLeads /\ ReplayMatchesHash

\* A gated step's result is recorded only for an output somebody's records once opened
\* the gate for: no caller, dry run, resume or crash gets past it.
GatedResultsWereApproved ==
    \A r \in Runs : \A m \in memo[r] :
        m.step \in GatedSteps => <<m.step, m.input.prior>> \in everOpen

\* A result, once recorded, is never replaced: approvals and later inputs stay bound to it.
MemoStable == [][ \A r \in Runs : memo[r] \subseteq memo'[r] ]_vars

\* A finished run stays as it finished, in the table and in its journal stream.
TerminalIsFinal ==
    [][ \A r \in Runs : runs[r].state \in Terminal
            => runs'[r] = runs[r] /\ jstate'[r] = jstate[r] ]_vars

\* What a run has recorded is not replaced and how it ended is not changed.
ResultsAreFinal == MemoStable /\ TerminalIsFinal

Settled(r) == runs[r].state \in Terminal \cup {"awaiting_data"}

\* A run that was started finishes or is held for a person: the queue of writes, gates
\* and step runners never leaves it under way for ever.
StartedRunSettles == \A r \in Runs : (runs[r].state # "none") ~> Settled(r)
-----------------------------------------------------------------------------
(* What comments of the code say and the code does not do: see the README. *)

\* A run that a crash left `running` is taken up again.
InterruptedRunRecovers ==
    \A r \in Runs : (runs[r].state = "running") ~> (runs[r].state # "running")

\* A node nobody gave data to is a run that needs data, never a failed step.
MissingDataIsNotFailure ==
    [][ \A c \in Calls : StepThrows(c) => ~Lacking(call[c].step) ]_vars

\* A dry run fails on every step a real run of the same caller would have no runner for.
DryRunParity ==
    [][ \A c \in Calls : DryStep(c) /\ ~CanDispatch(call[c].caller, call[c].step)
            => call'[c].todo = <<"failed">> ]_vars
-----------------------------------------------------------------------------
(* findHeldGate walks the memo rows like a replay but builds every input   *)
(* digest without the resolved bindings.                                   *)
HeldWalk(r, h, i) ==
    /\ i <= N
    /\ \A j \in 1..(i - 1) :
          [step |-> j, input |-> [prior |-> Prior(j, h), bound |-> <<>>], out |-> h[j]] \in memo[r]
    /\ Recorded(r, i, [prior |-> Prior(i, h), bound |-> <<>>]) = {}

findHeldGate(r) ==
    {i \in GatedSteps : \E h \in [1..(i - 1) -> AnyOutput] :
        HeldWalk(r, h, i) /\ ApprovalHeld(i, h)}

\* The review queue shows a run held at an approval gate as waiting at that gate, for as
\* long as the gate is not open.
QueueAgrees ==
    \A r \in Runs :
        LET i == runs[r].held
        IN  runs[r].state = "awaiting_data" /\ jstate[r] = "awaiting_data" /\ i \in GatedSteps
            /\ (\A x \in AnyOutput \cup {NoOutput} : <<i, x>> \notin gateOpen)
            => findHeldGate(r) = {i}
=============================================================================
