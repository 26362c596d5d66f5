----------------------------- MODULE AnchorQueue -----------------------------
(***************************************************************************)
(* hub/anchor-queue.mjs and anchorForCheckpoint of hub/anchor-client.mjs:  *)
(* the markers of checkpoints the timestamp relay did not answer for, kept *)
(* in anchor-queue.json, and the pass over them that every start of the    *)
(* daemon makes before it asks for a timestamp of its own checkpoint. The  *)
(* pass runs in the background of a daemon that serves, and dies with it.  *)
(*                                                                         *)
(* Times are ages in units of a fraction of MIN_RETRY_INTERVAL_MS. An age  *)
(* nobody compares with any longer stays at its cap, which is what makes   *)
(* the state space finite without a last moment. A journal_root_digest is  *)
(* the number of rows it covers.                                           *)
(***************************************************************************)
EXTENDS Naturals, Sequences, FiniteSets

CONSTANTS Interval,   \* MIN_RETRY_INTERVAL_MS
          Minute,     \* the period of the relay's limiter
          RelayLimit, \* requests the relay takes in one Minute
          MaxStarts,  \* bound: starts of the daemon
          MaxHead     \* bound: rows of the journal

\* 20 seconds, and 4 requests a minute: the retries leave room for one more
ASSUME AnchorAssumption == /\ Interval \in Nat \ {0} /\ Minute \in Nat \ {0}
                           /\ RelayLimit \in Nat \ {0} /\ Minute <= (RelayLimit - 1) * Interval
                           /\ MaxStarts \in Nat /\ MaxHead \in Nat \ {0}

VARIABLES queue,    \* anchor-queue.json: markers, in the order they were written
          saved,    \* table checkpoints: the anchors[] entry of each
          pass,     \* anchorForCheckpoint of this start: where it waits
          head,     \* rows of the journal
          up,       \* is the daemon running?
          starts,   \* starts so far
          stamped,  \* digests a retry got a timestamp of
          requests  \* requests of the last Minute: which start made them, for which marker (0: its own), how long ago

anchorVars == <<queue, saved, pass, head, up, starts, stamped, requests>>

Marker == [seq : Nat \ {0}, digest : Nat, age : 0..Interval]
NoPass == [phase |-> "off", todo |-> <<>>, since |-> Interval, root |-> 0]

older(age, cap) == IF age < cap THEN age + 1 ELSE cap
aged(entries) == [i \in DOMAIN entries |-> [entries[i] EXCEPT !.age = older(@, Interval)]]

\* the elements of s at the positions in kept, in their order
Filtered(s, kept) ==
    [k \in 1..Cardinality(kept) |-> s[CHOOSE i \in kept : Cardinality({j \in kept : j <= i}) = k]]

\* entries.filter((e) => e.checkpoint_seq !== seq)
Without(entries, seq) == Filtered(entries, {i \in DOMAIN entries : entries[i].seq # seq})

nextSeq == Len(saved) + 1
-----------------------------------------------------------------------------
(* The queue file.                                                         *)

\* Mistaken form: an older marker of the same checkpoint_seq stays.
enqueueKeeping(marker) == queue' = Append(queue, marker)

enqueueAnchorRetry(marker) == queue' = Append(Without(queue, marker.seq), marker)

resolveAnchorRetry(seq) == queue' = Without(queue, seq)

\* Mistaken form: the failed entry is taken out and not written back.
requeueDropping(entry, age) == queue' = Without(queue, entry.seq)

requeueAnchorRetry(entry, age) ==
    queue' = Append(Without(queue, entry.seq), [entry EXCEPT !.age = age])
-----------------------------------------------------------------------------
(* A start. Without rows there is nothing to checkpoint; with anchoring    *)
(* switched off the checkpoint is saved with a skipped marker at once and  *)
(* the queue is left alone.                                                *)

StartPass(offline) ==
    /\ ~up /\ starts < MaxStarts
    /\ up' = TRUE /\ starts' = starts + 1
    /\ IF head > 0 /\ offline
       THEN saved' = Append(saved, [type |-> "skipped", digest |-> head])
       ELSE saved' = saved
    /\ pass' = IF head > 0 /\ ~offline
               THEN [phase |-> "next", todo |-> queue, since |-> Interval, root |-> head]
               ELSE NoPass
    /\ UNCHANGED <<queue, head, stamped, requests>>

\* an append to the journal by a request the daemon serves meanwhile
Serve ==
    /\ up /\ pass.phase # "saving" /\ head < MaxHead
    /\ head' = head + 1
    /\ UNCHANGED <<queue, saved, pass, up, starts, stamped, requests>>

\* the end of the process, wherever the pass is
StopDaemon ==
    /\ up
    /\ up' = FALSE /\ pass' = NoPass
    /\ UNCHANGED <<queue, saved, head, starts, stamped, requests>>

Tick ==
    /\ queue' = aged(queue)
    /\ pass' = [pass EXCEPT !.since = older(@, Interval), !.todo = aged(@)]
    /\ requests' = {[r EXCEPT !.age = @ + 1] : r \in {q \in requests : q.age + 1 < Minute}}
    /\ UNCHANGED <<saved, head, up, starts, stamped>>
-----------------------------------------------------------------------------
(* drainAnchorQueue.                                                       *)

firstTodo == Head(pass.todo)

AskRelay(seq) == requests' = requests \cup {[start |-> starts, of |-> seq, age |-> 0]}

\* an entry in its own cooldown is passed over
SkipEntry ==
    /\ pass.phase = "next" /\ pass.todo # <<>>
    /\ firstTodo.age < Interval
    /\ pass' = [pass EXCEPT !.todo = Tail(@)]
    /\ UNCHANGED <<queue, saved, head, up, starts, stamped, requests>>

TakeEntry ==
    /\ pass.phase = "next" /\ pass.todo # <<>>
    /\ firstTodo.age >= Interval
    /\ pass' = [pass EXCEPT !.phase = "wait"]
    /\ UNCHANGED <<queue, saved, head, up, starts, stamped, requests>>

\* Mistaken form: the retry does not wait for the interval since the one before.
AskRetryAtOnce ==
    /\ pass.phase = "wait"
    /\ pass' = [pass EXCEPT !.phase = "asked", !.since = 0]
    /\ AskRelay(firstTodo.seq)
    /\ UNCHANGED <<queue, saved, head, up, starts, stamped>>

\* the sleep since the last attempt of this pass is over
AskRetry ==
    /\ pass.phase = "wait"
    /\ pass.since >= Interval
    /\ pass' = [pass EXCEPT !.phase = "asked", !.since = 0]
    /\ AskRelay(firstTodo.seq)
    /\ UNCHANGED <<queue, saved, head, up, starts, stamped>>

RetrySucceeds ==
    /\ pass.phase = "asked"
    /\ resolveAnchorRetry(firstTodo.seq)
    /\ stamped' = stamped \cup {firstTodo.digest}
    /\ pass' = [pass EXCEPT !.phase = "next", !.todo = Tail(@)]
    /\ UNCHANGED <<saved, head, up, starts, requests>>

\* Mistaken form: the pass goes over the queue as it is now and not as it was loaded.
RetryFailsLive ==
    /\ pass.phase = "asked"
    /\ requeueAnchorRetry(firstTodo, pass.since)
    /\ pass' = [pass EXCEPT !.phase = "next", !.todo = queue']
    /\ UNCHANGED <<saved, head, up, starts, stamped, requests>>

RetryFails ==
    /\ pass.phase = "asked"
    /\ requeueAnchorRetry(firstTodo, pass.since)
    /\ pass' = [pass EXCEPT !.phase = "next", !.todo = Tail(@)]
    /\ UNCHANGED <<saved, head, up, starts, stamped, requests>>
-----------------------------------------------------------------------------
(* The start's own checkpoint, asked for when the pass is through.         *)

AskOwn ==
    /\ pass.phase = "next" /\ pass.todo = <<>>
    /\ pass' = [pass EXCEPT !.phase = "own", !.since = 0]
    /\ AskRelay(0)
    /\ UNCHANGED <<queue, saved, head, up, starts, stamped>>

OwnSucceeds ==
    /\ pass.phase = "own"
    /\ saved' = Append(saved, [type |-> "rfc3161", digest |-> pass.root])
    /\ pass' = NoPass
    /\ UNCHANGED <<queue, head, up, starts, stamped, requests>>

OwnFails ==
    /\ pass.phase = "own"
    /\ enqueueAnchorRetry([seq |-> nextSeq, digest |-> pass.root, age |-> pass.since])
    /\ pass' = [pass EXCEPT !.phase = "saving"]
    /\ UNCHANGED <<saved, head, up, starts, stamped, requests>>

SaveQueued ==
    /\ pass.phase = "saving"
    /\ saved' = Append(saved, [type |-> "queued", digest |-> pass.root])
    /\ pass' = NoPass
    /\ UNCHANGED <<queue, head, up, starts, stamped, requests>>
-----------------------------------------------------------------------------
AnchorInit ==
    /\ queue = <<>> /\ saved = <<>> /\ pass = NoPass
    /\ head \in {0, 1}
    /\ up = FALSE /\ starts = 0
    /\ stamped = {} /\ requests = {}

PassStep ==
    \/ SkipEntry \/ TakeEntry \/ AskRetry \/ RetrySucceeds \/ RetryFails
    \/ AskOwn \/ OwnSucceeds \/ OwnFails \/ SaveQueued

AnchorNext ==
    \/ \E offline \in BOOLEAN : StartPass(offline)
    \/ Serve \/ StopDaemon \/ Tick
    \/ PassStep

AnchorSpec == AnchorInit /\ [][AnchorNext]_anchorVars
-----------------------------------------------------------------------------
\* Every variable holds values of its kind, and no checkpoint has two markers.
AnchorTypeOK ==
    /\ queue \in Seq(Marker)
    /\ \A i, j \in DOMAIN queue : queue[i].seq = queue[j].seq => i = j
    /\ saved \in Seq([type : {"rfc3161", "queued", "skipped"}, digest : 1..MaxHead])
    /\ pass \in [phase : {"off", "next", "wait", "asked", "own", "saving"},
                 todo : Seq(Marker), since : 0..Interval, root : 0..MaxHead]
    /\ head \in 0..MaxHead /\ up \in BOOLEAN /\ starts \in 0..MaxStarts
    /\ stamped \subseteq 1..MaxHead
    /\ requests \subseteq [start : 1..MaxStarts, of : Nat, age : 0..(Minute - 1)]

\* A checkpoint saved as "queued" is never forgotten: until a retry got a timestamp of the
\* digest it was queued for, its marker is in the queue file. It survives failed retries,
\* a process that ends anywhere in a pass, starts with anchoring switched off, and the
\* reuse of a checkpoint_seq by a start whose predecessor queued a marker and ended before
\* it saved the checkpoint.
QueuedUntilStamped ==
    \A c \in DOMAIN saved :
        saved[c].type = "queued"
            => \/ saved[c].digest \in stamped
               \/ \E i \in DOMAIN queue : queue[i].seq = c /\ queue[i].digest = saved[c].digest

RequestsOf(start) == {r \in requests : r.start = start}

\* One start never makes more requests in a minute than the relay takes, the request for
\* its own checkpoint, which no interval separates from the last retry, included.
StartWithinLimit == \A s \in 1..starts : Cardinality(RequestsOf(s)) <= RelayLimit

\* Retries are neither lost nor made faster than the relay takes them.
RetriesKeptAndPaced == QueuedUntilStamped /\ StartWithinLimit

\* The pass of a start comes to its end and the checkpoint is saved, unless the daemon
\* stops first: neither a relay that fails every request nor the cooldowns hold it for ever.
PassEnds == (pass.phase # "off") ~> (pass.phase = "off")
-----------------------------------------------------------------------------
(* What comments of the code say and the code does not do: see the README. *)

\* The retries alone never exceed the relay's limit, however often a pass is started.
RetriesWithinLimit ==
    Cardinality({r \in requests : r.of # 0}) <= RelayLimit
=============================================================================
