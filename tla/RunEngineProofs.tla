--------------------------- MODULE RunEngineProofs ---------------------------
(***************************************************************************)
(* Proofs about RunEngine for any manifest, any number of runs and calls   *)
(* and any number of crashes.                                              *)
(***************************************************************************)
EXTENDS RunEngine, SequenceTheorems, TLAPS

Active(c) == call[c].pc # "idle"

\* the transitions a call still has to make fit the state the table holds
Ready(state, todo) ==
    \/ state = "draft" /\ todo = <<"draft", "validated", "queued", "running">>
    \/ state = "draft" /\ todo = <<"validated", "queued", "running">>
    \/ state = "validated" /\ todo = <<"queued", "running">>
    \/ state = "queued" /\ todo = <<"running">>
    \/ state = "awaiting_data" /\ todo = <<"running">>
    \/ state = "running" /\ todo \in {<<"awaiting_data">>, <<"failed">>, <<"completed">>}

\* what holds of a call, given where it stands
CallOK(c) ==
    LET k == call[c] IN
    /\ k.pc = "write" => /\ cpu = c /\ Ready(runs[k.run].state, k.todo)
                         /\ k.half => jstate[k.run] = Head(k.todo)
    /\ k.pc = "loop" => cpu = c /\ runs[k.run].state = "running" /\ ~k.half
    /\ k.pc = "step" => cpu # c /\ runs[k.run].state = "running" /\ ~k.half /\ k.step <= N
    /\ k.pc = "idle" => cpu # c

\* what a call has worked out so far is what the memo rows of its run say
Progress(c) ==
    LET k == call[c] IN
    k.pc # "idle" =>
        /\ Len(k.outs) = k.step - 1
        /\ \A j \in 1..(k.step - 1) :
              [step |-> j, input |-> stepInput(j, k.outs), out |-> k.outs[j]] \in memo[k.run]
        /\ k.pc = "step" => Recorded(k.run, k.step, stepInput(k.step, k.outs)) = {}

ThreadInv == /\ \A c \in Calls : CallOK(c)
             /\ OneExecutor
             /\ JournalLeads

MemoInv == (\A c \in Calls : Progress(c)) /\ ReplayMatchesHash

IInv == RunTypeOK /\ ThreadInv /\ MemoInv
-----------------------------------------------------------------------------
CallType == [pc : {"idle", "write", "loop", "step"}, run : Runs, caller : Caller,
             step : 1..(N + 1), outs : Seq(AnyOutput),
             todo : Seq(State \ {"none"}), half : BOOLEAN]

\* A call record with no call in it is of the right kind.
LEMMA IdleType ==
    ASSUME Runs # {}
    PROVE  /\ Idle \in CallType /\ Idle.pc = "idle"
           /\ Idle.half = FALSE /\ Idle.step = 1 /\ Idle.outs = <<>>
BY RunAssumption DEF Idle, CallType, Caller, Starters, Resumers

Begun(r, caller, todo) ==
    [Idle EXCEPT !.pc = "write", !.run = r, !.caller = caller, !.todo = todo]

\* A call that begins is of the right kind.
LEMMA BegunType ==
    ASSUME NEW r \in Runs, NEW caller \in Caller, NEW todo \in Seq(State \ {"none"})
    PROVE  LET k == Begun(r, caller, todo)
           IN  /\ k \in CallType /\ k.pc = "write" /\ k.run = r /\ k.half = FALSE
               /\ k.step = 1 /\ k.outs = <<>> /\ k.todo = todo
<1>1. Idle \in CallType /\ Idle.half = FALSE /\ Idle.step = 1 /\ Idle.outs = <<>>
  BY IdleType
<1> QED BY <1>1 DEF CallType, Begun

\* The input of a step depends only on the outputs of earlier steps, so a later output
\* does not move it.
LEMMA InputStable ==
    ASSUME NEW i \in 1..N, NEW s, NEW t,
           \A j \in 1..(i - 1) : s[j] = t[j]
    PROVE  stepInput(i, s) = stepInput(i, t)
<1>1. Prior(i, s) = Prior(i, t)
  BY DEF Prior
<1>2. \A j \in Feeds[i] : s[j] = t[j]
  BY RunAssumption
<1>3. [j \in Feeds[i] |-> s[j]] = [j \in Feeds[i] |-> t[j]]
  BY <1>2
<1> QED BY <1>1, <1>3 DEF stepInput

\* A step's input is of the right kind.
LEMMA InputType ==
    ASSUME NEW i \in 1..N, NEW s \in Seq(AnyOutput), Len(s) >= i - 1
    PROVE  stepInput(i, s) \in Input
<1>1. Prior(i, s) \in AnyOutput \cup {NoOutput}
  BY DEF Prior
<1>2. Feeds[i] \in SUBSET (1..N) /\ \A j \in Feeds[i] : s[j] \in AnyOutput
  BY RunAssumption
<1>3. [j \in Feeds[i] |-> s[j]] \in UNION {[F -> AnyOutput] : F \in SUBSET (1..N)}
  BY <1>2
<1> QED BY <1>1, <1>3 DEF stepInput, Input
-----------------------------------------------------------------------------
(* One call c moves, and touches only its own run r.                       *)
Local(c, r) ==
    /\ cpu \in {c, Free} /\ cpu' \in {c, Free}
    /\ \A d \in Calls \ {c} : call'[d] = call[d]
    /\ \A q \in Runs \ {r} : runs'[q] = runs[q] /\ jstate'[q] = jstate[q] /\ memo'[q] = memo[q]
    /\ \A d \in Calls \ {c} : call[d].pc # "idle" => call[d].run # r
    /\ call'[c].pc # "idle" => call'[c].run = r

\* what is left to show of a step of call c on run r
Mine(c, r) ==
    /\ CallOK(c)' /\ Progress(c)'
    /\ \/ jstate'[r] = runs'[r].state
       \/ jstate'[r] \in Allowed[runs'[r].state]
       \/ jstate'[r] = "none" /\ runs'[r].state = "draft"
    /\ \A m, k \in memo'[r] : m.step = k.step /\ m.input = k.input => m = k
    /\ runs'[r].hash # NoHash =>
          \A i \in 1..N : [step |-> i, input |-> stepInput(i, runs'[r].hash),
                           out |-> runs'[r].hash[i]] \in memo'[r]

\* Other calls do not notice a step of one call: they wait for a step runner, on other runs.
LEMMA LocalStep ==
    ASSUME IInv, NEW c \in Calls, NEW r \in Runs, Local(c, r), Mine(c, r)
    PROVE  ThreadInv' /\ MemoInv'
<1>1. \A d \in Calls \ {c} : cpu # d /\ cpu' # d /\ call[d].pc \in {"idle", "step"}
  <2> SUFFICES ASSUME NEW d \in Calls \ {c} PROVE cpu # d /\ cpu' # d /\ call[d].pc \in {"idle", "step"}
    OBVIOUS
  <2>1. cpu # d /\ cpu' # d
    BY RunAssumption DEF Local
  <2>2. call[d] \in CallType
    BY DEF IInv, RunTypeOK, CallType
  <2>3. CallOK(d)
    BY DEF IInv, ThreadInv
  <2> QED BY <2>1, <2>2, <2>3 DEF CallOK, CallType
<1>2. \A d \in Calls \ {c} : CallOK(d)' /\ Progress(d)'
  <2> SUFFICES ASSUME NEW d \in Calls \ {c} PROVE CallOK(d)' /\ Progress(d)'
    OBVIOUS
  <2>1. call[d].run \in Runs
    BY DEF IInv, RunTypeOK
  <2>2. CallOK(d) /\ Progress(d)
    BY DEF IInv, ThreadInv, MemoInv
  <2>3. call'[d] = call[d]
    BY DEF Local
  <2>4. CASE call[d].pc = "idle"
    BY <1>1, <2>3, <2>4 DEF CallOK, Progress
  <2>5. CASE call[d].pc = "step"
    <3>1. /\ runs'[call[d].run] = runs[call[d].run]
          /\ jstate'[call[d].run] = jstate[call[d].run]
          /\ memo'[call[d].run] = memo[call[d].run]
      BY <2>1, <2>5 DEF Local
    <3>2. CallOK(d)'
      BY <1>1, <2>2, <2>3, <2>5, <3>1 DEF CallOK
    <3>3. Progress(d)'
      BY <2>2, <2>3, <2>5, <3>1 DEF Progress, Recorded
    <3> QED BY <3>2, <3>3
  <2> QED BY <1>1, <2>4, <2>5
<1>3. OneExecutor'
  BY DEF IInv, ThreadInv, OneExecutor, Local
<1>4. JournalLeads'
  BY DEF IInv, ThreadInv, JournalLeads, Local, Mine
<1>5. MemoUnique'
  <2> SUFFICES ASSUME NEW q \in Runs, NEW m \in memo'[q], NEW k \in memo'[q],
                      m.step = k.step, m.input = k.input
               PROVE  m = k
    BY DEF MemoUnique
  <2>1. CASE q = r
    BY <2>1 DEF Mine
  <2>2. CASE q # r
    BY <2>2 DEF Local, IInv, MemoInv, ReplayMatchesHash, MemoUnique
  <2> QED BY <2>1, <2>2
<1>6. \A q \in Runs : runs'[q].hash # NoHash => Replays(q, runs[q].hash)'
  <2> SUFFICES ASSUME NEW q \in Runs, runs'[q].hash # NoHash
               PROVE  Replays(q, runs[q].hash)'
    OBVIOUS
  <2>1. CASE q = r
    BY <2>1 DEF Mine, Replays
  <2>2. CASE q # r
    <3>1. runs'[q] = runs[q] /\ memo'[q] = memo[q]
      BY <2>2 DEF Local
    <3>2. Replays(q, runs[q].hash)
      BY <3>1 DEF IInv, MemoInv, ReplayMatchesHash
    <3> QED BY <3>1, <3>2 DEF Replays
  <2> QED BY <2>1, <2>2
<1> QED BY <1>2, <1>3, <1>4, <1>5, <1>6 DEF ThreadInv, MemoInv, ReplayMatchesHash, Mine
-----------------------------------------------------------------------------
RowType == [state : State, hash : Seq(AnyOutput) \cup {NoHash}, held : 0..N]

\* The facts about one call every step starts from.
LEMMA Given ==
    ASSUME IInv, NEW c \in Calls
    PROVE  /\ call \in [Calls -> CallType] /\ call[c] \in CallType /\ call[c].run \in Runs
           /\ runs \in [Runs -> RowType] /\ jstate \in [Runs -> State]
           /\ memo \in [Runs -> SUBSET Result]
           /\ CallOK(c) /\ Progress(c)
<1>1. call \in [Calls -> CallType]
  BY DEF IInv, RunTypeOK, CallType
<1> QED BY <1>1 DEF IInv, RunTypeOK, CallType, RowType, ThreadInv, MemoInv

\* A step that leaves a run's rows and results alone leaves what is said of them true.
LEMMA SameRun ==
    ASSUME IInv, NEW r \in Runs, runs'[r] = runs[r], jstate'[r] = jstate[r], memo'[r] = memo[r]
    PROVE  /\ \/ jstate'[r] = runs'[r].state
              \/ jstate'[r] \in Allowed[runs'[r].state]
              \/ jstate'[r] = "none" /\ runs'[r].state = "draft"
           /\ \A m, k \in memo'[r] : m.step = k.step /\ m.input = k.input => m = k
           /\ runs'[r].hash # NoHash =>
                 \A i \in 1..N : [step |-> i, input |-> stepInput(i, runs'[r].hash),
                                  out |-> runs'[r].hash[i]] \in memo'[r]
BY DEF IInv, ThreadInv, JournalLeads, MemoInv, ReplayMatchesHash, MemoUnique, Replays

\* Beginning a run: the row is inserted, and nobody else can know of the run.
LEMMA StartStep ==
    ASSUME IInv, NEW c \in Calls, NEW r \in Runs, NEW caller \in Starters, Start(c, r, caller)
    PROVE  IInv'
<1> DEFINE k == Begun(r, caller, <<"draft", "validated", "queued", "running">>)
<1>1. /\ k \in CallType /\ k.pc = "write" /\ k.run = r /\ k.half = FALSE
      /\ k.step = 1 /\ k.outs = <<>> /\ k.todo = <<"draft", "validated", "queued", "running">>
  <2>1. <<"draft", "validated", "queued", "running">> \in Seq(State \ {"none"})
    BY DEF State
  <2>2. caller \in Caller
    BY DEF Caller
  <2> QED BY <2>1, <2>2, BegunType, Zenon
<1>2. call' = [call EXCEPT ![c] = k] /\ runs' = [runs EXCEPT ![r].state = "draft"]
  BY DEF Start, Begun
<1> HIDE DEF k
<1>3. RunTypeOK'
  <2>1. call' \in [Calls -> CallType] /\ runs' \in [Runs -> RowType]
    BY <1>1, <1>2, Given DEF RowType, State
  <2> QED BY <2>1 DEF IInv, RunTypeOK, Start, CallType, RowType
<1>4. call'[c] = k /\ runs'[r] = [runs[r] EXCEPT !.state = "draft"] /\ cpu' = c
  BY <1>1, <1>2, Given DEF Start
<1>5. Local(c, r)
  <2>1. \A d \in Calls \ {c} : call[d].pc # "idle" => call[d].run # r
    <3> SUFFICES ASSUME NEW d \in Calls \ {c}, call[d].pc # "idle", call[d].run = r PROVE FALSE
      OBVIOUS
    <3>1. CallOK(d) /\ call[d] \in CallType
      BY Given
    <3> QED BY <3>1, RunAssumption DEF CallOK, CallType, Start, Ready
  <2> QED BY <1>1, <1>2, <1>4, <2>1, Given DEF Local, Start
<1>6. jstate[r] = "none" \/ jstate[r] = "draft"
  BY DEF IInv, ThreadInv, JournalLeads, Start, Allowed
<1>7. Mine(c, r)
  <2>1. CallOK(c)'
    BY <1>1, <1>4, Given DEF CallOK, Ready, RowType
  <2>2. Progress(c)'
    BY <1>1, <1>4 DEF Progress
  <2>3. runs'[r].state = "draft" /\ runs'[r].hash = runs[r].hash
    BY <1>4, Given DEF RowType
  <2>4. jstate'[r] = jstate[r] /\ memo'[r] = memo[r]
    BY DEF Start
  <2> QED BY <1>6, <2>1, <2>2, <2>3, <2>4
          DEF Mine, IInv, MemoInv, ReplayMatchesHash, MemoUnique, Replays
<1> QED BY <1>3, <1>5, <1>7, LocalStep DEF IInv

\* Resuming: the row says awaiting_data, so every call under way works on another run.
LEMMA ResumeStep ==
    ASSUME IInv, NEW c \in Calls, NEW r \in Runs, NEW caller \in Resumers, Resume(c, r, caller)
    PROVE  IInv'
<1> DEFINE k == Begun(r, caller, <<"running">>)
<1>1. /\ k \in CallType /\ k.pc = "write" /\ k.run = r /\ k.half = FALSE
      /\ k.step = 1 /\ k.outs = <<>> /\ k.todo = <<"running">>
  <2>1. <<"running">> \in Seq(State \ {"none"})
    BY DEF State
  <2>2. caller \in Caller
    BY DEF Caller
  <2> QED BY <2>1, <2>2, BegunType, Zenon
<1>2. call' = [call EXCEPT ![c] = k]
  BY DEF Resume, Begun
<1> HIDE DEF k
<1>3. RunTypeOK'
  <2>1. call' \in [Calls -> CallType]
    BY <1>1, <1>2, Given
  <2> QED BY <2>1 DEF IInv, RunTypeOK, Resume, CallType
<1>4. call'[c] = k /\ cpu' = c
  BY <1>1, <1>2, Given DEF Resume
<1>5. Local(c, r)
  <2>1. \A d \in Calls \ {c} : call[d].pc # "idle" => call[d].run # r
    <3> SUFFICES ASSUME NEW d \in Calls \ {c}, call[d].pc # "idle", call[d].run = r PROVE FALSE
      OBVIOUS
    <3>1. CallOK(d) /\ call[d] \in CallType
      BY Given
    <3> QED BY <3>1, RunAssumption DEF CallOK, CallType, Resume
  <2> QED BY <1>1, <1>2, <1>4, <2>1, Given DEF Local, Resume
<1>6. Mine(c, r)
  <2>1. CallOK(c)'
    BY <1>1, <1>4, Given DEF CallOK, Ready, Resume
  <2>2. Progress(c)'
    BY <1>1, <1>4 DEF Progress
  <2>3. runs'[r] = runs[r] /\ jstate'[r] = jstate[r] /\ memo'[r] = memo[r]
    BY DEF Resume
  <2> QED BY <2>1, <2>2, <2>3, SameRun DEF Mine
<1> QED BY <1>3, <1>5, <1>6, LocalStep DEF IInv
-----------------------------------------------------------------------------
\* A call under way that changes only its own record and run is a local step.
LEMMA MoveLocal ==
    ASSUME IInv, NEW c \in Calls, call[c].pc # "idle",
           NEW k \in CallType, k.pc # "idle" => k.run = call[c].run,
           call' = [call EXCEPT ![c] = k],
           cpu \in {c, Free}, cpu' \in {c, Free},
           \A q \in Runs \ {call[c].run} :
               runs'[q] = runs[q] /\ jstate'[q] = jstate[q] /\ memo'[q] = memo[q]
    PROVE  Local(c, call[c].run) /\ call'[c] = k /\ call' \in [Calls -> CallType]
<1>1. call \in [Calls -> CallType]
  BY Given
<1>2. \A d \in Calls \ {c} : call[d].pc # "idle" => call[d].run # call[c].run
  BY DEF IInv, ThreadInv, OneExecutor
<1> QED BY <1>1, <1>2 DEF Local

\* A call that ends its loop with a transition has that one transition to make.
LEMMA Ended ==
    ASSUME IInv, NEW c \in Calls, call[c].pc \in {"loop", "step"},
           NEW to \in {"awaiting_data", "failed", "completed"}, EndWith(c, to),
           cpu \in {c, Free}, cpu' = c, memo' = memo, jstate' = jstate,
           \A q \in Runs \ {call[c].run} : runs'[q] = runs[q],
           runs'[call[c].run].state = runs[call[c].run].state
    PROVE  /\ Local(c, call[c].run) /\ call' \in [Calls -> CallType]
           /\ CallOK(c)' /\ Progress(c)'
<1> DEFINE k == [call[c] EXCEPT !.pc = "write", !.todo = <<to>>]
<1>1. call[c] \in CallType /\ CallOK(c) /\ Progress(c) /\ call \in [Calls -> CallType]
  BY Given
<1>2. /\ k \in CallType /\ k.pc = "write" /\ k.todo = <<to>> /\ k.run = call[c].run
      /\ k.half = call[c].half /\ k.step = call[c].step /\ k.outs = call[c].outs
  <2>1. <<to>> \in Seq(State \ {"none"})
    BY DEF State, Terminal
  <2> QED BY <1>1, <2>1 DEF CallType
<1>3. call' = [call EXCEPT ![c] = k]
  BY <1>1 DEF EndWith, CallType
<1> HIDE DEF k
<1>4. Local(c, call[c].run) /\ call'[c] = k /\ call' \in [Calls -> CallType]
  BY <1>2, <1>3, MoveLocal
<1>5. CallOK(c)'
  <2>1. ~k.half /\ runs[call[c].run].state = "running"
    BY <1>1, <1>2 DEF CallOK
  <2>2. Ready(runs'[call[c].run].state, <<to>>)
    BY <2>1 DEF Ready
  <2> QED BY <1>2, <1>4, <2>1, <2>2 DEF CallOK
<1>6. Progress(c)'
  BY <1>1, <1>2, <1>4 DEF Progress
<1> QED BY <1>4, <1>5, <1>6

\* A call that has a step's recorded result goes on to the next step.
LEMMA Advanced ==
    ASSUME IInv, NEW c \in Calls, call[c].pc \in {"loop", "step"}, call[c].step <= N,
           NEW out \in AnyOutput, Advance(c, out),
           cpu \in {c, Free}, cpu' = c, runs' = runs, jstate' = jstate,
           \A q \in Runs \ {call[c].run} : memo'[q] = memo[q],
           memo[call[c].run] \subseteq memo'[call[c].run],
           [step |-> call[c].step, input |-> stepInput(call[c].step, call[c].outs),
            out |-> out] \in memo'[call[c].run]
    PROVE  /\ Local(c, call[c].run) /\ call' \in [Calls -> CallType]
           /\ CallOK(c)' /\ Progress(c)'
<1> DEFINE i == call[c].step
           o == call[c].outs
           k == [call[c] EXCEPT !.pc = "loop", !.step = i + 1, !.outs = Append(o, out)]
<1>1. call[c] \in CallType /\ CallOK(c) /\ Progress(c) /\ call \in [Calls -> CallType]
  BY Given
<1>2. i \in 1..N /\ o \in Seq(AnyOutput) /\ Len(o) = i - 1
  BY <1>1, RunAssumption DEF CallType, Progress
<1>3. /\ k \in CallType /\ k.pc = "loop" /\ k.run = call[c].run
      /\ k.half = call[c].half /\ k.step = i + 1 /\ k.outs = Append(o, out)
  <2>1. i + 1 \in 1..(N + 1) /\ Append(o, out) \in Seq(AnyOutput)
    BY <1>2, RunAssumption
  <2> QED BY <1>1, <2>1 DEF CallType
<1>4. call' = [call EXCEPT ![c] = k]
  BY <1>1 DEF Advance, CallType
<1> HIDE DEF k
<1>5. Local(c, call[c].run) /\ call'[c] = k /\ call' \in [Calls -> CallType]
  BY <1>3, <1>4, MoveLocal
<1>6. CallOK(c)'
  BY <1>1, <1>3, <1>5 DEF CallOK
<1>7. Progress(c)'
  <2> DEFINE p == Append(o, out)
  <2>1. Len(p) = i /\ p[i] = out /\ \A j \in 1..(i - 1) : p[j] = o[j]
    BY <1>2
  <2> HIDE DEF p
  <2>2. \A j \in 1..i : stepInput(j, p) = stepInput(j, o)
    <3> SUFFICES ASSUME NEW j \in 1..i PROVE stepInput(j, p) = stepInput(j, o)
      OBVIOUS
    <3>1. N \in Nat
      BY RunAssumption
    <3>2. i \in Nat /\ i <= N /\ j \in Nat /\ 1 <= j /\ j <= i
      BY <1>2, <3>1
    <3>3. \A l \in 1..(j - 1) : l \in 1..(i - 1)
      BY <3>2
    <3>4. j \in 1..N /\ \A l \in 1..(j - 1) : p[l] = o[l]
      BY <2>1, <3>1, <3>2, <3>3
    <3> QED BY <3>4, InputStable
  <2>3. \A j \in 1..i : [step |-> j, input |-> stepInput(j, p), out |-> p[j]] \in memo'[call[c].run]
    <3> SUFFICES ASSUME NEW j \in 1..i
                 PROVE  [step |-> j, input |-> stepInput(j, p), out |-> p[j]] \in memo'[call[c].run]
      OBVIOUS
    <3>1. CASE j = i
      BY <2>1, <2>2, <3>1
    <3>2. CASE j # i
      <4>1. j \in 1..(i - 1)
        BY <1>2, <3>2
      <4>2. [step |-> j, input |-> stepInput(j, o), out |-> o[j]] \in memo[call[c].run]
        BY <1>1, <4>1 DEF Progress
      <4> QED BY <2>1, <2>2, <4>1, <4>2
    <3> QED BY <3>1, <3>2
  <2>4. k.outs = p /\ k.step - 1 = i
    BY <1>2, <1>3 DEF p
  <2> QED BY <1>2, <1>3, <1>5, <2>1, <2>3, <2>4 DEF Progress
<1> QED BY <1>5, <1>6, <1>7
-----------------------------------------------------------------------------
(* The steps of a call under way.                                          *)

\* The entry a call appends records the state its run is about to get.
LEMMA JournalTransitionStep ==
    ASSUME IInv, NEW c \in Calls, JournalTransition(c)
    PROVE  IInv'
<1> DEFINE k == [call[c] EXCEPT !.half = TRUE]
           r == call[c].run
<1>1. call[c] \in CallType /\ CallOK(c) /\ Progress(c) /\ call \in [Calls -> CallType] /\ r \in Runs
  BY Given
<1>2. /\ k \in CallType /\ k.pc = "write" /\ k.todo = call[c].todo /\ k.run = r
      /\ k.half = TRUE /\ k.step = call[c].step /\ k.outs = call[c].outs
  BY <1>1 DEF CallType, JournalTransition
<1>3. call' = [call EXCEPT ![c] = k]
  BY <1>1 DEF JournalTransition, CallType
<1> HIDE DEF k
<1>4. Ready(runs[r].state, call[c].todo) /\ cpu = c /\ cpu' = c /\ runs' = runs /\ memo' = memo
  BY <1>1 DEF CallOK, JournalTransition
<1>5. jstate' = [jstate EXCEPT ![r] = Head(call[c].todo)] /\ jstate \in [Runs -> State]
  BY Given DEF JournalTransition
<1>6. /\ Head(call[c].todo) \in State
      /\ \/ Head(call[c].todo) \in Allowed[runs[r].state]
         \/ Head(call[c].todo) = runs[r].state
  BY <1>4 DEF Ready, Allowed, State, Terminal
<1>7. jstate' \in [Runs -> State] /\ jstate'[r] = Head(call[c].todo)
  BY <1>1, <1>5, <1>6
<1>8. Local(c, r) /\ call'[c] = k /\ call' \in [Calls -> CallType]
  <2>1. \A q \in Runs \ {r} : runs'[q] = runs[q] /\ jstate'[q] = jstate[q] /\ memo'[q] = memo[q]
    BY <1>4, <1>5
  <2> QED BY <1>2, <1>3, <1>4, <2>1, MoveLocal DEF JournalTransition
<1>9. Mine(c, r)
  <2>1. CallOK(c)'
    BY <1>2, <1>4, <1>7, <1>8 DEF CallOK
  <2>2. Progress(c)'
    BY <1>1, <1>2, <1>4, <1>8 DEF Progress, JournalTransition
  <2> QED BY <1>1, <1>4, <1>6, <1>7, <2>1, <2>2
          DEF Mine, IInv, MemoInv, ReplayMatchesHash, MemoUnique, Replays
<1>10. RunTypeOK'
  BY <1>7, <1>8 DEF IInv, RunTypeOK, CallType, JournalTransition
<1> QED BY <1>1, <1>8, <1>9, <1>10, LocalStep DEF IInv

\* What remains of a list of transitions fits the state its first one leads to.
LEMMA ReadyRest ==
    ASSUME NEW state, NEW todo, Ready(state, todo), Tail(todo) # <<>>
    PROVE  Ready(Head(todo), Tail(todo))
<1>1. ASSUME NEW a, NEW b PROVE Tail(<<a, b>>) = <<b>>
  OBVIOUS
<1>2. ASSUME NEW a, NEW b, NEW d PROVE Tail(<<a, b, d>>) = <<b, d>>
  OBVIOUS
<1>3. ASSUME NEW a, NEW b, NEW d, NEW e PROVE Tail(<<a, b, d, e>>) = <<b, d, e>>
  OBVIOUS
<1>4. ASSUME NEW a PROVE Tail(<<a>>) = <<>>
  OBVIOUS
<1>5. CASE state = "draft" /\ todo = <<"draft", "validated", "queued", "running">>
  BY <1>3, <1>5 DEF Ready
<1>6. CASE state = "draft" /\ todo = <<"validated", "queued", "running">>
  BY <1>2, <1>6 DEF Ready
<1>7. CASE state = "validated" /\ todo = <<"queued", "running">>
  BY <1>1, <1>7 DEF Ready
<1> QED BY <1>4, <1>5, <1>6, <1>7 DEF Ready

\* The update puts in the table what the journal already says.
LEMMA UpdateStateStep ==
    ASSUME IInv, NEW c \in Calls, UpdateState(c)
    PROVE  IInv'
<1> DEFINE r == call[c].run
           to == Head(call[c].todo)
           rest == Tail(call[c].todo)
           k == IF rest # <<>> THEN [call[c] EXCEPT !.todo = rest, !.half = FALSE]
                ELSE IF to = "running"
                THEN [call[c] EXCEPT !.pc = "loop", !.todo = <<>>, !.half = FALSE]
                ELSE Idle
<1>1. call[c] \in CallType /\ CallOK(c) /\ Progress(c) /\ call \in [Calls -> CallType] /\ r \in Runs
  BY Given
<1>2. /\ Ready(runs[r].state, call[c].todo) /\ jstate[r] = to /\ cpu = c
      /\ call[c].pc = "write" /\ jstate' = jstate /\ memo' = memo
  BY <1>1 DEF CallOK, UpdateState
<1>3. to \in State \ {"none"} /\ rest \in Seq(State \ {"none"})
  <2>1. call[c].todo \in Seq(State \ {"none"}) /\ call[c].todo # <<>>
    BY <1>1, <1>2 DEF CallType, Ready
  <2> QED BY <2>1
<1>4. /\ k \in CallType
      /\ k.pc # "idle" => k.run = r /\ k.step = call[c].step /\ k.outs = call[c].outs
      /\ ~k.half
      /\ rest # <<>> => k.pc = "write" /\ k.todo = rest
      /\ rest = <<>> /\ to = "running" => k.pc = "loop"
      /\ rest = <<>> /\ to # "running" => k.pc = "idle"
  <2>1. CASE rest # <<>>
    BY <1>1, <1>2, <1>3, <2>1 DEF CallType
  <2>2. CASE rest = <<>> /\ to = "running"
    <3>1. <<>> \in Seq(State \ {"none"})
      OBVIOUS
    <3>2. k = [call[c] EXCEPT !.pc = "loop", !.todo = <<>>, !.half = FALSE]
      BY <2>2
    <3> QED BY <1>1, <2>2, <3>1, <3>2 DEF CallType
  <2>3. CASE rest = <<>> /\ to # "running"
    BY <1>1, <2>3, IdleType
  <2> QED BY <2>1, <2>2, <2>3
<1>5. call' = [call EXCEPT ![c] = k] /\ cpu' = IF rest = <<>> /\ to # "running" THEN Free ELSE c
  BY <1>1, <1>2 DEF UpdateState
<1>6. \/ rest # <<>> /\ Ready(to, rest)
      \/ rest = <<>> /\ to = "running"
      \/ rest = <<>> /\ to # "running"
  BY <1>2, ReadyRest
<1>7. runs' \in [Runs -> RowType] /\ runs'[r].state = to /\ runs'[r].hash = runs[r].hash
      /\ \A q \in Runs \ {r} : runs'[q] = runs[q]
  BY <1>1, <1>3, Given DEF UpdateState, RowType
<1> HIDE DEF k
<1>8. Local(c, r) /\ call'[c] = k /\ call' \in [Calls -> CallType]
  <2>1. cpu' \in {c, Free} /\ \A q \in Runs \ {r} :
            runs'[q] = runs[q] /\ jstate'[q] = jstate[q] /\ memo'[q] = memo[q]
    BY <1>2, <1>5, <1>7
  <2> QED BY <1>2, <1>4, <1>5, <2>1, MoveLocal
<1>9. Mine(c, r)
  <2>1. CallOK(c)'
    <3> HIDE DEF to, rest
    <3> QED BY <1>4, <1>5, <1>6, <1>7, <1>8, RunAssumption DEF CallOK
  <2>2. Progress(c)'
    <3> HIDE DEF to, rest
    <3> QED BY <1>1, <1>2, <1>4, <1>6, <1>8 DEF Progress
  <2> QED BY <1>1, <1>2, <1>7, <2>1, <2>2
          DEF Mine, IInv, MemoInv, ReplayMatchesHash, MemoUnique, Replays
<1>10. cpu' \in Calls \cup {Free}
  BY <1>5
<1>11. RunTypeOK'
  BY <1>7, <1>8, <1>10 DEF IInv, RunTypeOK, CallType, RowType, UpdateState
<1> QED BY <1>1, <1>8, <1>9, <1>11, LocalStep DEF IInv

\* A recorded result is taken over as it is.
LEMMA MemoHitStep ==
    ASSUME IInv, NEW c \in Calls, MemoHit(c)
    PROVE  IInv'
<1> DEFINE r == call[c].run
           i == call[c].step
<1>1. PICK m \in Recorded(r, i, stepInput(i, call[c].outs)) : Advance(c, m.out)
  BY DEF MemoHit
<1>2. call[c] \in CallType /\ r \in Runs /\ memo \in [Runs -> SUBSET Result]
  BY Given
<1>3. m \in memo[r] /\ m \in Result /\ m.step = i /\ m.input = stepInput(i, call[c].outs)
  BY <1>1, <1>2 DEF Recorded
<1>4. m = [step |-> i, input |-> stepInput(i, call[c].outs), out |-> m.out] /\ m.out \in AnyOutput
  BY <1>3 DEF Result
<1>5. /\ cpu = c /\ cpu' = c /\ call[c].pc = "loop" /\ i <= N
      /\ runs' = runs /\ jstate' = jstate /\ memo' = memo
  BY DEF MemoHit, Stepping
<1>6. Local(c, r) /\ call' \in [Calls -> CallType] /\ CallOK(c)' /\ Progress(c)'
  BY <1>1, <1>3, <1>4, <1>5, Advanced
<1>7. Mine(c, r)
  BY <1>2, <1>5, <1>6, SameRun DEF Mine
<1>8. RunTypeOK'
  BY <1>5, <1>6 DEF IInv, RunTypeOK, CallType, MemoHit
<1> QED BY <1>2, <1>6, <1>7, <1>8, LocalStep DEF IInv

\* A call that stops at a gate, or whose step fails, has one more transition to make.
LEMMA HoldStep ==
    ASSUME IInv, NEW c \in Calls, Hold(c)
    PROVE  IInv'
<1> DEFINE r == call[c].run
<1>1. call[c] \in CallType /\ r \in Runs /\ runs \in [Runs -> RowType]
  BY Given
<1>2. /\ cpu = c /\ cpu' = c /\ call[c].pc = "loop" /\ call[c].step <= N
      /\ EndWith(c, "awaiting_data") /\ jstate' = jstate /\ memo' = memo
      /\ runs' = [runs EXCEPT ![r].held = call[c].step]
  BY DEF Hold, Stepping
<1>3. /\ runs' \in [Runs -> RowType] /\ runs'[r].state = runs[r].state
      /\ runs'[r].hash = runs[r].hash /\ \A q \in Runs \ {r} : runs'[q] = runs[q]
  <2>1. call[c].step \in 0..N
    BY <1>1, <1>2, RunAssumption DEF CallType
  <2> QED BY <1>1, <1>2, <2>1 DEF RowType
<1>4. Local(c, r) /\ call' \in [Calls -> CallType] /\ CallOK(c)' /\ Progress(c)'
  BY <1>2, <1>3, Ended
<1>5. Mine(c, r)
  BY <1>1, <1>2, <1>3, <1>4
     DEF Mine, IInv, ThreadInv, JournalLeads, MemoInv, ReplayMatchesHash, MemoUnique, Replays
<1>6. RunTypeOK'
  BY <1>2, <1>3, <1>4 DEF IInv, RunTypeOK, CallType, RowType, Hold
<1> QED BY <1>1, <1>4, <1>5, <1>6, LocalStep DEF IInv

\* Saving the first result for a key adds a row and replaces none.
LEMMA Saved ==
    ASSUME IInv, NEW r \in Runs, NEW i \in 1..N, NEW input \in Input, NEW out \in AnyOutput,
           Recorded(r, i, input) = {}, saveStepResult(r, i, input, out)
    PROVE  /\ memo' \in [Runs -> SUBSET Result]
           /\ memo'[r] = memo[r] \cup {[step |-> i, input |-> input, out |-> out]}
           /\ \A q \in Runs \ {r} : memo'[q] = memo[q]
           /\ \A m, k \in memo'[r] : m.step = k.step /\ m.input = k.input => m = k
<1> DEFINE new == [step |-> i, input |-> input, out |-> out]
<1>1. memo \in [Runs -> SUBSET Result]
  BY DEF IInv, RunTypeOK
<1>2. new \in Result /\ new.step = i /\ new.input = input
  BY DEF Result
<1>3. memo' = [memo EXCEPT ![r] = memo[r] \cup {new}]
  BY DEF saveStepResult
<1> HIDE DEF new
<1>4. memo' \in [Runs -> SUBSET Result] /\ memo'[r] = memo[r] \cup {new}
      /\ \A q \in Runs \ {r} : memo'[q] = memo[q]
  BY <1>1, <1>2, <1>3
<1>5. \A m \in memo[r] : ~(m.step = i /\ m.input = input)
  BY DEF Recorded
<1>6. \A m, k \in memo'[r] : m.step = k.step /\ m.input = k.input => m = k
  BY <1>2, <1>4, <1>5 DEF IInv, MemoInv, ReplayMatchesHash, MemoUnique
<1> QED BY <1>4, <1>6 DEF new

\* A call that saves the first result for its step's input and goes on keeps the invariant.
LEMMA SaveAndAdvance ==
    ASSUME IInv, NEW c \in Calls, call[c].pc \in {"loop", "step"}, call[c].step <= N,
           NEW out \in AnyOutput, Advance(c, out), Missed(c),
           saveStepResult(call[c].run, call[c].step, stepInput(call[c].step, call[c].outs), out),
           cpu \in {c, Free}, cpu' = c,
           UNCHANGED <<runs, jstate, gateOpen, everOpen, crashes>>
    PROVE  IInv'
<1> DEFINE r == call[c].run
           i == call[c].step
           in == stepInput(i, call[c].outs)
           new == [step |-> i, input |-> in, out |-> out]
<1>1. call[c] \in CallType /\ r \in Runs /\ Progress(c)
  BY Given
<1>2. i \in 1..N /\ call[c].outs \in Seq(AnyOutput) /\ Len(call[c].outs) = i - 1
  BY <1>1, RunAssumption DEF CallType, Progress
<1>3. in \in Input
  BY <1>2, InputType
<1> HIDE DEF in
<1>4. Recorded(r, i, in) = {} /\ saveStepResult(r, i, in, out)
  BY DEF Missed, in
<1>5. /\ memo' \in [Runs -> SUBSET Result] /\ memo'[r] = memo[r] \cup {new}
      /\ \A q \in Runs \ {r} : memo'[q] = memo[q]
      /\ \A m, k \in memo'[r] : m.step = k.step /\ m.input = k.input => m = k
  BY <1>1, <1>2, <1>3, <1>4, Saved
<1>6. Local(c, r) /\ call' \in [Calls -> CallType] /\ CallOK(c)' /\ Progress(c)'
  <2>1. memo[r] \subseteq memo'[r] /\ [step |-> i, input |-> stepInput(i, call[c].outs), out |-> out] \in memo'[r]
    BY <1>5 DEF in
  <2> QED BY <1>5, <2>1, Advanced
<1>7. Mine(c, r)
  <2>1. \A m \in memo[r] : m \in memo'[r]
    BY <1>5
  <2> QED BY <1>1, <1>5, <1>6, <2>1
          DEF Mine, IInv, ThreadInv, JournalLeads, MemoInv, ReplayMatchesHash, Replays
<1>8. RunTypeOK'
  BY <1>5, <1>6 DEF IInv, RunTypeOK, CallType
<1> QED BY <1>1, <1>6, <1>7, <1>8, LocalStep DEF IInv

\* A call that fails, in the turn of a dry run or when its runner throws.
LEMMA FailStep ==
    ASSUME IInv, NEW c \in Calls, call[c].pc \in {"loop", "step"}, EndWith(c, "failed"),
           cpu \in {c, Free}, cpu' = c,
           UNCHANGED <<runs, jstate, memo, gateOpen, everOpen, crashes>>
    PROVE  IInv'
<1> DEFINE r == call[c].run
<1>1. r \in Runs
  BY Given
<1>2. Local(c, r) /\ call' \in [Calls -> CallType] /\ CallOK(c)' /\ Progress(c)'
  BY Ended
<1>3. Mine(c, r)
  BY <1>1, <1>2, SameRun DEF Mine
<1>4. RunTypeOK'
  BY <1>2 DEF IInv, RunTypeOK, CallType
<1> QED BY <1>1, <1>2, <1>3, <1>4, LocalStep DEF IInv

\* A dry run records a placeholder, or fails where a real run would.
LEMMA DryStepStep ==
    ASSUME IInv, NEW c \in Calls, DryStep(c)
    PROVE  IInv'
<1>1. cpu = c /\ cpu' = c /\ call[c].pc = "loop" /\ call[c].step <= N /\ Missed(c)
  BY DEF DryStep, Passes, Stepping
<1>2. UNCHANGED <<runs, jstate, gateOpen, everOpen, crashes>>
  BY DEF DryStep
<1>3. CASE DryRefused(c)
  BY <1>1, <1>2, <1>3, FailStep DEF DryStep
<1>4. CASE ~DryRefused(c)
  <2>1. DryOutput \in AnyOutput
    BY DEF AnyOutput
  <2> QED BY <1>1, <1>2, <1>4, <2>1, SaveAndAdvance DEF DryStep
<1> QED BY <1>3, <1>4

\* A call leaves the thread only with no result recorded for its step.
LEMMA CallStepRunnerStep ==
    ASSUME IInv, NEW c \in Calls, CallStepRunner(c)
    PROVE  IInv'
<1> DEFINE r == call[c].run
           k == [call[c] EXCEPT !.pc = "step"]
<1>1. call[c] \in CallType /\ CallOK(c) /\ Progress(c) /\ call \in [Calls -> CallType] /\ r \in Runs
  BY Given
<1>2. /\ cpu = c /\ cpu' = Free /\ call[c].pc = "loop" /\ call[c].step <= N /\ Missed(c)
      /\ runs' = runs /\ jstate' = jstate /\ memo' = memo
  BY DEF CallStepRunner, Passes, Stepping
<1>3. /\ k \in CallType /\ k.pc = "step" /\ k.run = r /\ k.half = call[c].half
      /\ k.step = call[c].step /\ k.outs = call[c].outs
  BY <1>1 DEF CallType
<1>4. call' = [call EXCEPT ![c] = k]
  BY <1>1 DEF CallStepRunner, CallType
<1> HIDE DEF k
<1>5. Local(c, r) /\ call'[c] = k /\ call' \in [Calls -> CallType]
  BY <1>2, <1>3, <1>4, MoveLocal
<1>6. CallOK(c)'
  BY <1>1, <1>2, <1>3, <1>5, RunAssumption DEF CallOK
<1>7. Progress(c)'
  BY <1>1, <1>2, <1>3, <1>5 DEF Progress, Missed, Recorded
<1>8. Mine(c, r)
  BY <1>1, <1>2, <1>6, <1>7, SameRun DEF Mine
<1>9. RunTypeOK'
  BY <1>2, <1>5 DEF IInv, RunTypeOK, CallType, CallStepRunner
<1> QED BY <1>1, <1>5, <1>8, <1>9, LocalStep DEF IInv

\* The answer of a step runner is saved in the turn it arrives in.
LEMMA StepDoneStep ==
    ASSUME IInv, NEW c \in Calls, NEW out \in Outputs, StepDone(c, out)
    PROVE  IInv'
<1>1. CallOK(c) /\ Progress(c)
  BY Given
<1>2. cpu = Free /\ cpu' = c /\ call[c].pc = "step"
  BY DEF StepDone
<1>3. call[c].step <= N /\ Missed(c)
  BY <1>1, <1>2 DEF CallOK, Progress, Missed
<1>4. out \in AnyOutput
  BY DEF AnyOutput
<1> QED BY <1>2, <1>3, <1>4, SaveAndAdvance DEF StepDone

\* A step runner that throws fails the run.
LEMMA StepThrowsStep ==
    ASSUME IInv, NEW c \in Calls, StepThrows(c)
    PROVE  IInv'
BY FailStep DEF StepThrows

\* The hash a call writes is of outputs that are all in the memo rows.
LEMMA WriteHashStep ==
    ASSUME IInv, NEW c \in Calls, WriteHash(c)
    PROVE  IInv'
<1> DEFINE r == call[c].run
<1>1. call[c] \in CallType /\ Progress(c) /\ r \in Runs /\ runs \in [Runs -> RowType]
  BY Given
<1>2. /\ cpu = c /\ cpu' = c /\ call[c].pc = "loop" /\ call[c].step = N + 1
      /\ EndWith(c, "completed") /\ jstate' = jstate /\ memo' = memo
      /\ runs' = [runs EXCEPT ![r].hash = call[c].outs]
  BY DEF WriteHash
<1>3. /\ runs' \in [Runs -> RowType] /\ runs'[r].state = runs[r].state
      /\ runs'[r].hash = call[c].outs /\ \A q \in Runs \ {r} : runs'[q] = runs[q]
  BY <1>1, <1>2 DEF RowType, CallType
<1>4. Local(c, r) /\ call' \in [Calls -> CallType] /\ CallOK(c)' /\ Progress(c)'
  BY <1>2, <1>3, Ended
<1>5. \A i \in 1..N : [step |-> i, input |-> stepInput(i, call[c].outs), out |-> call[c].outs[i]] \in memo[r]
  <2>1. call[c].step - 1 = N
    BY <1>2, RunAssumption
  <2> QED BY <1>1, <1>2, <2>1 DEF Progress
<1>6. Mine(c, r)
  BY <1>1, <1>2, <1>3, <1>4, <1>5
     DEF Mine, IInv, ThreadInv, JournalLeads, MemoInv, ReplayMatchesHash, MemoUnique
<1>7. RunTypeOK'
  BY <1>2, <1>3, <1>4 DEF IInv, RunTypeOK, CallType, RowType, WriteHash
<1> QED BY <1>1, <1>4, <1>6, <1>7, LocalStep DEF IInv
-----------------------------------------------------------------------------
\* Records and clocks change gates; calls, rows and results stay.
LEMMA GateChangesStep ==
    ASSUME IInv, NEW i \in GatedSteps, NEW x \in AnyOutput \cup {NoOutput}, GateChanges(i, x)
    PROVE  IInv'
<1>1. UNCHANGED <<runs, jstate, memo, call, cpu, crashes>>
  BY DEF GateChanges
<1>2. RunTypeOK'
  BY <1>1 DEF IInv, RunTypeOK, GateChanges
<1>3. ThreadInv'
  BY <1>1 DEF IInv, ThreadInv, CallOK, OneExecutor, JournalLeads
<1>4. MemoInv'
  BY <1>1 DEF IInv, MemoInv, Progress, ReplayMatchesHash, MemoUnique, Replays, Recorded
<1> QED BY <1>2, <1>3, <1>4 DEF IInv

\* A crash takes the calls away; what the tables and the journal say of a run stands.
LEMMA CrashStep ==
    ASSUME IInv, Crash
    PROVE  IInv'
<1>1. UNCHANGED <<runs, jstate, memo, gateOpen, everOpen>>
      /\ call' = [c \in Calls |-> Idle] /\ cpu' = Free
  BY DEF Crash
<1>2. Idle \in CallType /\ Idle.pc = "idle"
  BY RunAssumption, IdleType
<1>3. call' \in [Calls -> CallType] /\ \A c \in Calls : call'[c].pc = "idle"
  BY <1>1, <1>2
<1>4. crashes' \in 0..MaxCrashes
  BY RunAssumption DEF IInv, RunTypeOK, Crash
<1>5. RunTypeOK'
  BY <1>1, <1>3, <1>4 DEF IInv, RunTypeOK, CallType
<1>6. \A c \in Calls : CallOK(c)' /\ Progress(c)'
  BY <1>1, <1>3, RunAssumption DEF CallOK, Progress
<1>7. OneExecutor'
  BY <1>3 DEF OneExecutor
<1>8. JournalLeads' /\ ReplayMatchesHash'
  BY <1>1 DEF IInv, ThreadInv, MemoInv, JournalLeads, ReplayMatchesHash, MemoUnique, Replays
<1> QED BY <1>5, <1>6, <1>7, <1>8 DEF IInv, ThreadInv, MemoInv

\* The initial state.
LEMMA InitStep == ASSUME Init PROVE IInv
<1>1. Idle \in CallType /\ Idle.pc = "idle"
  BY IdleType, RunAssumption
<1>2. call \in [Calls -> CallType] /\ \A c \in Calls : call[c].pc = "idle"
  BY <1>1 DEF Init
<1>3. runs \in [Runs -> RowType] /\ jstate \in [Runs -> State] /\ memo \in [Runs -> SUBSET Result]
      /\ \A r \in Runs : runs[r].state = "none" /\ jstate[r] = "none" /\ runs[r].hash = NoHash /\ memo[r] = {}
  BY RunAssumption DEF Init, RowType, State
<1>4. RunTypeOK
  BY <1>2, <1>3, RunAssumption DEF Init, RunTypeOK, CallType, RowType
<1>5. \A c \in Calls : CallOK(c) /\ Progress(c)
  BY <1>2, RunAssumption DEF Init, CallOK, Progress
<1>6. OneExecutor /\ JournalLeads /\ ReplayMatchesHash
  BY <1>2, <1>3 DEF OneExecutor, JournalLeads, ReplayMatchesHash, MemoUnique
<1> QED BY <1>4, <1>5, <1>6 DEF IInv, ThreadInv, MemoInv

\* Every step keeps the invariant.
LEMMA NextStep == ASSUME IInv, [Next]_vars PROVE IInv'
<1>1. CASE UNCHANGED vars
  <2>1. RunTypeOK'
    BY <1>1 DEF IInv, RunTypeOK, vars
  <2>2. ThreadInv'
    BY <1>1 DEF IInv, ThreadInv, CallOK, OneExecutor, JournalLeads, vars
  <2>3. MemoInv'
    BY <1>1 DEF IInv, MemoInv, Progress, ReplayMatchesHash, MemoUnique, Replays, Recorded, vars
  <2> QED BY <2>1, <2>2, <2>3 DEF IInv
<1>2. ASSUME NEW c \in Calls, NEW r \in Runs, NEW caller \in Starters, Start(c, r, caller) PROVE IInv'
  BY <1>2, StartStep
<1>3. ASSUME NEW c \in Calls, NEW r \in Runs, NEW caller \in Resumers, Resume(c, r, caller) PROVE IInv'
  BY <1>3, ResumeStep
<1>4. ASSUME NEW c \in Calls, Executing(c) PROVE IInv'
  BY <1>4, JournalTransitionStep, UpdateStateStep, MemoHitStep, HoldStep, DryStepStep,
     CallStepRunnerStep, StepDoneStep, StepThrowsStep, WriteHashStep DEF Executing
<1>5. ASSUME NEW i \in GatedSteps, NEW x \in AnyOutput \cup {NoOutput}, GateChanges(i, x) PROVE IInv'
  BY <1>5, GateChangesStep
<1>6. CASE Crash
  BY <1>6, CrashStep
<1> QED BY <1>1, <1>2, <1>3, <1>4, <1>5, <1>6 DEF Next
-----------------------------------------------------------------------------
(* Theorems of the specification.                                          *)

\* The strengthened invariant holds throughout every behaviour.
LEMMA Invariance == Spec => []IInv
<1>1. Init => IInv
  BY InitStep
<1>2. IInv /\ [Next]_vars => IInv'
  BY NextStep
<1> QED BY <1>1, <1>2, PTL DEF Spec

\* executeRun keeps every table and call record well formed, for any manifest.
THEOREM RunTypeCorrect == Spec => []RunTypeOK
<1>1. IInv => RunTypeOK
  BY DEF IInv
<1> QED BY <1>1, Invariance, PTL

\* No two calls of executeRun ever work on one run, with any number of concurrent calls:
\* a call that waits for a step runner leaves its run `running`, which Start and Resume refuse.
THEOREM RunHasOneExecutor == Spec => []OneExecutor
<1>1. IInv => OneExecutor
  BY DEF IInv, ThreadInv
<1> QED BY <1>1, Invariance, PTL

\* transitionState never lets the table overtake the journal, wherever a crash falls.
THEOREM RunJournalLeads == Spec => []JournalLeads
<1>1. IInv => JournalLeads
  BY DEF IInv, ThreadInv
<1> QED BY <1>1, Invariance, PTL

\* replayExecutionHash of the stored results is the recorded execution_hash.
THEOREM RunReplays == Spec => []ReplayMatchesHash
<1>1. IInv => ReplayMatchesHash
  BY DEF IInv, MemoInv
<1> QED BY <1>1, Invariance, PTL

\* A call under way works on a run that is not finished.
LEMMA ActiveUnfinished ==
    ASSUME IInv, NEW c \in Calls, call[c].pc # "idle"
    PROVE  runs[call[c].run].state \notin Terminal
<1>1. CallOK(c) /\ call[c] \in CallType
  BY Given
<1> QED BY <1>1 DEF CallOK, CallType, Ready, Terminal

\* A step result, once recorded, is never replaced: a call saves only what it found missing
\* and no other call can have recorded it meanwhile.
THEOREM RunMemoStable == Spec => MemoStable
<1>1. IInv /\ [Next]_vars => [\A r \in Runs : memo[r] \subseteq memo'[r]]_vars
  <2> SUFFICES ASSUME IInv, Next, NEW r \in Runs PROVE memo[r] \subseteq memo'[r]
    OBVIOUS
  <2>1. ASSUME NEW c \in Calls, NEW out,
               Recorded(call[c].run, call[c].step, stepInput(call[c].step, call[c].outs)) = {},
               saveStepResult(call[c].run, call[c].step, stepInput(call[c].step, call[c].outs), out)
        PROVE  memo[r] \subseteq memo'[r]
    <3>1. memo \in [Runs -> SUBSET Result] /\ call[c].run \in Runs
      BY Given
    <3> QED BY <2>1, <3>1 DEF saveStepResult
  <2>2. ASSUME NEW c \in Calls, DryStep(c) PROVE memo[r] \subseteq memo'[r]
    BY <2>1, <2>2 DEF DryStep, Passes, Missed
  <2>3. ASSUME NEW c \in Calls, NEW out \in Outputs, StepDone(c, out) PROVE memo[r] \subseteq memo'[r]
    <3>1. Progress(c)
      BY Given
    <3> QED BY <2>1, <2>3, <3>1 DEF StepDone, Progress
  <2>4. CASE UNCHANGED memo
    BY <2>4
  <2> QED BY <2>2, <2>3, <2>4 DEF Next, Executing, Start, Resume, JournalTransition, UpdateState,
             MemoHit, Hold, CallStepRunner, StepThrows, WriteHash, GateChanges, Crash
<1> QED BY <1>1, Invariance, PTL DEF Spec, MemoStable

\* A completed or failed run never changes again, in the table or in the journal.
THEOREM RunTerminalIsFinal == Spec => TerminalIsFinal
<1>1. IInv /\ [Next]_vars =>
        [\A r \in Runs : runs[r].state \in Terminal => runs'[r] = runs[r] /\ jstate'[r] = jstate[r]]_vars
  <2> SUFFICES ASSUME IInv, Next, NEW r \in Runs, runs[r].state \in Terminal
               PROVE  runs'[r] = runs[r] /\ jstate'[r] = jstate[r]
    OBVIOUS
  <2>1. runs \in [Runs -> RowType] /\ jstate \in [Runs -> State]
    BY DEF IInv, RunTypeOK, RowType
  <2>2. ASSUME NEW c \in Calls, call[c].pc # "idle" PROVE call[c].run # r
    BY <2>2, ActiveUnfinished
  <2>3. ASSUME NEW c \in Calls, NEW q \in Runs, NEW caller, Start(c, q, caller)
        PROVE  runs'[r] = runs[r] /\ jstate'[r] = jstate[r]
    BY <2>1, <2>3 DEF Start, Terminal
  <2>4. ASSUME NEW c \in Calls, Executing(c) PROVE runs'[r] = runs[r] /\ jstate'[r] = jstate[r]
    <3>1. CASE JournalTransition(c)
      BY <2>1, <2>2, <3>1 DEF JournalTransition
    <3>2. CASE UpdateState(c)
      BY <2>1, <2>2, <3>2 DEF UpdateState
    <3>3. CASE Hold(c)
      BY <2>1, <2>2, <3>3 DEF Hold, Stepping
    <3>4. CASE WriteHash(c)
      BY <2>1, <2>2, <3>4 DEF WriteHash
    <3> QED BY <2>4, <3>1, <3>2, <3>3, <3>4
            DEF Executing, MemoHit, DryStep, CallStepRunner, StepDone, StepThrows
  <2> QED BY <2>3, <2>4 DEF Next, Resume, GateChanges, Crash
<1> QED BY <1>1, Invariance, PTL DEF Spec, TerminalIsFinal
-----------------------------------------------------------------------------
\* results, and runners called, for gated steps only after the gate was open
GateInv ==
    /\ GatedResultsWereApproved
    /\ \A c \in Calls : call[c].pc = "step" /\ call[c].step \in GatedSteps
          => <<call[c].step, Prior(call[c].step, call[c].outs)>> \in everOpen

\* No gated step has a recorded result unless records once opened its gate for exactly the
\* output that feeds it, whichever route called executeRun.
THEOREM RunGates == Spec => []GatedResultsWereApproved
<1>1. Init => GateInv
  <2> SUFFICES ASSUME Init PROVE GateInv
    OBVIOUS
  <2>1. Idle.pc = "idle"
    BY DEF Idle
  <2>2. \A r \in Runs : memo[r] = {}
    BY DEF Init
  <2>3. \A c \in Calls : call[c].pc = "idle"
    BY <2>1 DEF Init
  <2> QED BY <2>2, <2>3 DEF GateInv, GatedResultsWereApproved
<1>2. IInv /\ GateInv /\ [Next]_vars => GateInv'
  <2> SUFFICES ASSUME IInv, GateInv, [Next]_vars PROVE GateInv'
    OBVIOUS
  <2>1. gateOpen \subseteq everOpen /\ call \in [Calls -> CallType] /\ memo \in [Runs -> SUBSET Result]
    BY DEF IInv, RunTypeOK, CallType
  <2>2. everOpen \subseteq everOpen'
    BY DEF Next, vars, Executing, Start, Resume, JournalTransition, UpdateState, MemoHit, Hold, DryStep,
           CallStepRunner, StepDone, StepThrows, WriteHash, GateChanges, Crash
  <2>3. ASSUME NEW d \in Calls, NEW out,
               saveStepResult(call[d].run, call[d].step, stepInput(call[d].step, call[d].outs), out),
               call[d].step \in GatedSteps => <<call[d].step, Prior(call[d].step, call[d].outs)>> \in everOpen
        PROVE  GatedResultsWereApproved'
    <3> DEFINE new == [step |-> call[d].step, input |-> stepInput(call[d].step, call[d].outs), out |-> out]
    <3>1. new.step = call[d].step /\ new.input.prior = Prior(call[d].step, call[d].outs)
      BY DEF stepInput
    <3>2. \A r \in Runs : \A m \in memo'[r] : m \in memo[r] \/ m = new
      BY <2>1, <2>3 DEF saveStepResult
    <3> HIDE DEF new
    <3> QED BY <2>2, <2>3, <3>1, <3>2 DEF GateInv, GatedResultsWereApproved
  <2>4. GatedResultsWereApproved'
    <3>1. CASE UNCHANGED memo
      BY <2>2, <3>1 DEF GateInv, GatedResultsWereApproved
    <3>2. ASSUME NEW d \in Calls, DryStep(d) PROVE GatedResultsWereApproved'
      <4>1. CASE DryRefused(d)
        BY <3>1, <3>2, <4>1 DEF DryStep
      <4>2. CASE ~DryRefused(d)
        BY <2>1, <2>3, <3>2, <4>2 DEF DryStep, Passes, Held, ApprovalHeld
      <4> QED BY <4>1, <4>2
    <3>3. ASSUME NEW d \in Calls, NEW out \in Outputs, StepDone(d, out) PROVE GatedResultsWereApproved'
      BY <2>3, <3>3 DEF StepDone, GateInv
    <3> QED BY <3>1, <3>2, <3>3 DEF Next, vars, Executing, Start, Resume, JournalTransition, UpdateState,
               MemoHit, Hold, CallStepRunner, StepThrows, WriteHash, GateChanges, Crash
  <2>5. ASSUME NEW c \in Calls, call'[c].pc = "step", call'[c].step \in GatedSteps
        PROVE  <<call'[c].step, Prior(call'[c].step, call'[c].outs)>> \in everOpen'
    <3>1. CASE call'[c] = call[c]
      BY <2>2, <2>5, <3>1 DEF GateInv
    <3>2. CASE CallStepRunner(c)
      <4>1. call'[c].step = call[c].step /\ call'[c].outs = call[c].outs
        BY <2>1, <3>2 DEF CallStepRunner, CallType
      <4> QED BY <2>1, <2>2, <2>5, <3>2, <4>1 DEF CallStepRunner, Passes, Held, ApprovalHeld
    <3>3. Idle.pc = "idle"
      BY DEF Idle
    <3>4. ASSUME NEW d \in Calls, Executing(d) PROVE call'[c] = call[c] \/ CallStepRunner(c)
      <4>1. CASE d # c
        BY <2>1, <3>4, <4>1 DEF Executing, JournalTransition, UpdateState, MemoHit, Hold, DryStep,
           CallStepRunner, StepDone, StepThrows, WriteHash, Advance, EndWith
      <4>2. CASE d = c
        <5>1. CASE JournalTransition(c)
          BY <2>1, <2>5, <5>1 DEF JournalTransition, CallType
        <5>2. CASE UpdateState(c)
          BY <2>1, <2>5, <3>3, <5>2 DEF UpdateState, CallType
        <5>3. ASSUME NEW out, Advance(c, out) PROVE FALSE
          BY <2>1, <2>5, <5>3 DEF Advance, CallType
        <5>4. ASSUME NEW st, EndWith(c, st) PROVE FALSE
          BY <2>1, <2>5, <5>4 DEF EndWith, CallType
        <5> QED BY <3>4, <4>2, <5>1, <5>2, <5>3, <5>4
                DEF Executing, MemoHit, Hold, DryStep, StepDone, StepThrows, WriteHash
      <4> QED BY <4>1, <4>2
    <3>5. ASSUME NEW d \in Calls, NEW r \in Runs, NEW caller, Start(d, r, caller) PROVE call'[c] = call[c]
      BY <2>1, <2>5, <3>5 DEF Start, Idle
    <3>6. ASSUME NEW d \in Calls, NEW r \in Runs, NEW caller, Resume(d, r, caller) PROVE call'[c] = call[c]
      BY <2>1, <2>5, <3>6 DEF Resume, Idle
    <3>7. CASE Crash
      BY <2>5, <3>3, <3>7 DEF Crash
    <3>8. CASE UNCHANGED call
      BY <3>1, <3>8
    <3> QED BY <3>1, <3>2, <3>4, <3>5, <3>6, <3>7, <3>8 DEF Next, vars, GateChanges
  <2> QED BY <2>4, <2>5 DEF GateInv
<1>3. GateInv => GatedResultsWereApproved
  BY DEF GateInv
<1> QED BY <1>1, <1>2, <1>3, Invariance, PTL DEF Spec

\* The journal, the table of runs and the recorded hashes agree (journal, executeRun).
THEOREM RunRecordsReplay == Spec => []RecordsReplay
<1>1. JournalLeads /\ ReplayMatchesHash => RecordsReplay
  BY DEF RecordsReplay
<1> QED BY <1>1, RunJournalLeads, RunReplays, PTL

\* Recorded results and ends of runs are never changed (saveStepResult, updateState).
THEOREM RunResultsAreFinal == Spec => ResultsAreFinal
BY RunMemoStable, RunTerminalIsFinal DEF ResultsAreFinal
=============================================================================
