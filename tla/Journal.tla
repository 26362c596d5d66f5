------------------------------- MODULE Journal -------------------------------
(***************************************************************************)
(* hub/journal.mjs: the hash-chained journal.  The tables `journal` and    *)
(* `stream_state` are the variables journal and streamState; tx is the     *)
(* SQLite transaction appendEntry runs its statements in.  Statements see  *)
(* and change the transaction's own copy of the tables, COMMIT publishes   *)
(* it, and an exception or the death of the process throws it away.        *)
(*                                                                         *)
(* A SHA-256 value is represented by the transcript it was computed from,  *)
(* so two running hashes are equal exactly when all that was hashed is.    *)
(* seq is AUTOINCREMENT over a table no statement deletes from: the seq of *)
(* a row is its position.                                                  *)
(***************************************************************************)
EXTENDS Naturals, Sequences

CONSTANTS Streams,     \* stream ids
          Digests,     \* entry digests (sha256 of the canonical entry)
          NoDigest,    \* what a stream's seed holds in place of a digest
          MaxSeq       \* bound: rows the journal may get

ASSUME JournalAssumption == /\ Streams # {} /\ Digests # {}
                            /\ NoDigest \notin Digests
                            /\ MaxSeq \in Nat

VARIABLES journal,      \* committed rows, by seq
          streamState,  \* stream -> last_seq, last_rh
          tx            \* the open transaction of appendEntry

jvars == <<journal, streamState, tx>>

Link == [stream : Streams, seq : Nat, digest : Digests \cup {NoDigest}]
Rh == Seq(Link)
Row == [stream : Streams, digest : Digests, rh : Rh]
Head_ == [seq : Nat, rh : Rh]
Phase == {"idle", "begun", "inserted", "hashed", "upserted"}

BlankRh == <<>>     \* the "" the placeholder INSERT stores

streamSeed(s) == << [stream |-> s, seq |-> 0, digest |-> NoDigest] >>

\* rh = SHA-256(rhPrev || stream || seq || entry_digest)
ChainHash(prev, s, n, d) == Append(prev, [stream |-> s, seq |-> n, digest |-> d])

\* streamHead of a stream with no row in stream_state: seq null (here 0), its seed
NoHead(s) == [seq |-> 0, rh |-> streamSeed(s)]

\* streamHeads: the streams that have a stream_state row
LiveStreams(heads) == {s \in Streams : heads[s].seq # 0}

NoTx == [phase |-> "idle", stream |-> CHOOSE s \in Streams : TRUE,
         digest |-> CHOOSE d \in Digests : TRUE, rhPrev |-> BlankRh,
         rows |-> <<>>, heads |-> [s \in Streams |-> NoHead(s)]]
-----------------------------------------------------------------------------
(***************************************************************************)
(* Replay.  The loop of replayVerify stops at the first row whose stored   *)
(* rh is not the recomputed one, so at every row it reaches rhByStream     *)
(* holds, for a stream, the stored rh of the stream's previous replayed    *)
(* row, or else where the stream's chain starts from.  rows may be any     *)
(* function from the seqs that SELECT finds.                               *)
(***************************************************************************)
PriorRows(rows, floor, i) ==
    {j \in DOMAIN rows : floor < j /\ j < i /\ rows[j].stream = rows[i].stream}

Recomputes(rows, i, rhPrev) ==
    rows[i].rh = ChainHash(rhPrev, rows[i].stream, i, rows[i].digest)

RowReplays(rows, floor, start, i) ==
    LET prior == PriorRows(rows, floor, i)
    IN  \/ prior = {} /\ Recomputes(rows, i, start[rows[i].stream])
        \/ \E j \in prior : /\ \A k \in prior : k <= j
                             /\ Recomputes(rows, i, rows[j].rh)

ReplayFrom(rows, floor, start) ==
    \A i \in DOMAIN rows : i > floor => RowReplays(rows, floor, start, i)

Seeds == [s \in Streams |-> streamSeed(s)]

replayVerify(rows) == ReplayFrom(rows, 0, Seeds)
-----------------------------------------------------------------------------
(* appendEntry, statement by statement.                                    *)

\* Mistaken forms, for the sensitivity of the properties: the entry has no digest yet, ...
BeginAppendUndigested(s, d) ==
    /\ tx.phase = "idle"
    /\ Len(journal) < MaxSeq
    /\ tx' = [phase |-> "begun", stream |-> s, digest |-> NoDigest,
              rhPrev |-> streamState[s].rh, rows |-> journal, heads |-> streamState]
    /\ UNCHANGED <<journal, streamState>>

\* ... the hash chains to the last row of all instead of the stream's, ...
UpdateRhOneChain ==
    /\ tx.phase = "inserted"
    /\ LET seq == Len(tx.rows)
           prev == IF seq = 1 THEN tx.rhPrev ELSE tx.rows[seq - 1].rh
       IN  tx' = [tx EXCEPT !.phase = "hashed",
                            !.rows[seq].rh = ChainHash(prev, tx.stream, seq, tx.digest)]
    /\ UNCHANGED <<journal, streamState>>

\* ... the head keeps the hash the row was chained to, ...
UpsertStateStale ==
    /\ tx.phase = "hashed"
    /\ tx' = [tx EXCEPT !.phase = "upserted",
                        !.heads[tx.stream] = [seq |-> Len(tx.rows), rh |-> tx.rhPrev]]
    /\ UNCHANGED <<journal, streamState>>

\* ... and a failure is undone by deleting the last row, inserted or not.
LastOf(rows, s) ==
    IF \A i \in 1..Len(rows) : rows[i].stream # s THEN NoHead(s)
    ELSE LET last == CHOOSE i \in 1..Len(rows) :
                       /\ rows[i].stream = s
                       /\ \A j \in (i + 1)..Len(rows) : rows[j].stream # s
         IN  [seq |-> last, rh |-> rows[last].rh]

RollbackByDeleting ==
    /\ tx.phase # "idle"
    /\ tx' = NoTx
    /\ journal' = IF tx.rows = <<>> THEN <<>> ELSE SubSeq(tx.rows, 1, Len(tx.rows) - 1)
    /\ streamState' = [s \in Streams |-> LastOf(journal', s)]

\* the head is read before BEGIN; nothing runs in between, the code is synchronous
BeginAppend(s, d) ==
    /\ tx.phase = "idle"
    /\ Len(journal) < MaxSeq
    /\ tx' = [phase |-> "begun", stream |-> s, digest |-> d,
              rhPrev |-> streamState[s].rh, rows |-> journal, heads |-> streamState]
    /\ UNCHANGED <<journal, streamState>>

InsertRow ==
    /\ tx.phase = "begun"
    /\ tx' = [tx EXCEPT !.phase = "inserted",
                        !.rows = Append(@, [stream |-> tx.stream, digest |-> tx.digest,
                                            rh |-> BlankRh])]
    /\ UNCHANGED <<journal, streamState>>

UpdateRh ==
    /\ tx.phase = "inserted"
    /\ LET seq == Len(tx.rows)
       IN  tx' = [tx EXCEPT !.phase = "hashed",
                            !.rows[seq].rh = ChainHash(tx.rhPrev, tx.stream, seq, tx.digest)]
    /\ UNCHANGED <<journal, streamState>>

UpsertState ==
    /\ tx.phase = "hashed"
    /\ LET seq == Len(tx.rows)
       IN  tx' = [tx EXCEPT !.phase = "upserted",
                            !.heads[tx.stream] =
                              [seq |-> seq, rh |-> ChainHash(tx.rhPrev, tx.stream, seq, tx.digest)]]
    /\ UNCHANGED <<journal, streamState>>

CommitAppend ==
    /\ tx.phase = "upserted"
    /\ journal' = tx.rows
    /\ streamState' = tx.heads
    /\ tx' = NoTx

\* ROLLBACK after an exception; what the WAL leaves after the process dies is the same
RollbackAppend ==
    /\ tx.phase # "idle"
    /\ tx' = NoTx
    /\ UNCHANGED <<journal, streamState>>

InitJournal ==
    /\ journal = <<>>
    /\ streamState = [s \in Streams |-> NoHead(s)]
    /\ tx = NoTx

AppendEntry ==
    \/ \E s \in Streams, d \in Digests : BeginAppend(s, d)
    \/ InsertRow
    \/ UpdateRh
    \/ UpsertState
    \/ CommitAppend
    \/ RollbackAppend

JournalSpec == InitJournal /\ [][AppendEntry]_jvars
-----------------------------------------------------------------------------
\* Every variable holds values of its kind.
JournalTypeOK ==
    /\ journal \in Seq(Row)
    /\ streamState \in [Streams -> Head_]
    /\ tx \in [phase : Phase, stream : Streams, digest : Digests, rhPrev : Rh,
               rows : Seq(Row), heads : [Streams -> Head_]]

\* The committed journal replays from the seeds at every moment: appends to any
\* mix of streams, abandoned at any statement, never leave a row that the replay
\* at the next start would call broken.
ChainIntact == replayVerify(journal)

HeadAgrees(rows, head, s) ==
    \/ /\ head = NoHead(s)
       /\ \A i \in 1..Len(rows) : rows[i].stream # s
    \/ /\ head.seq \in 1..Len(rows)
       /\ rows[head.seq].stream = s
       /\ rows[head.seq].rh = head.rh
       /\ \A i \in (head.seq + 1)..Len(rows) : rows[i].stream # s

HeadsAgree(rows, heads) == \A s \in Streams : HeadAgrees(rows, heads[s], s)

\* stream_state and journal agree: the head recorded for a stream, which the next
\* append chains to and the next checkpoint signs, is the stream's last row.
HeadsMatchRows == HeadsAgree(journal, streamState)

\* The journal, its hashes left out, is an append-only log: half-done appends are
\* invisible, and every commit adds one whole entry after all the others.
Entries == [i \in 1..Len(journal) |->
              [stream |-> journal[i].stream, digest |-> journal[i].digest]]
Log == INSTANCE AppendOnlyLog WITH log <- Entries
ImplementsLog == Log!Spec

\* What an open transaction holds at each of its statements; the strengthening that
\* makes ChainIntact and HeadsMatchRows inductive.
NewRow == [stream |-> tx.stream, digest |-> tx.digest,
           rh |-> ChainHash(streamState[tx.stream].rh, tx.stream, Len(journal) + 1, tx.digest)]

TxConsistent ==
    /\ tx.phase # "idle" => tx.rhPrev = streamState[tx.stream].rh
    /\ tx.phase = "begun" => tx.rows = journal
    /\ tx.phase = "inserted" => tx.rows = Append(journal, [NewRow EXCEPT !.rh = BlankRh])
    /\ tx.phase \in {"hashed", "upserted"} => tx.rows = Append(journal, NewRow)
    /\ tx.phase \in {"begun", "inserted", "hashed"} => tx.heads = streamState
    /\ tx.phase = "upserted" =>
         tx.heads = [streamState EXCEPT ![tx.stream] =
                        [seq |-> Len(journal) + 1, rh |-> NewRow.rh]]
=============================================================================
