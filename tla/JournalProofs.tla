---------------------------- MODULE JournalProofs ----------------------------
(***************************************************************************)
(* For any streams, any entries and any number of appends: the journal     *)
(* always replays, its recorded heads are its last rows, and it implements *)
(* the append-only log.                                                    *)
(***************************************************************************)
EXTENDS Journal, SequenceTheorems, WellFoundedInduction, TLAPS

\* A set of numbers that is not empty has a least one.
LEMMA LeastNat ==
    ASSUME NEW T, T \subseteq Nat, T # {}
    PROVE  \E m \in T : \A n \in T : m <= n
<1> DEFINE less == {ss \in Nat \X Nat : ss[1] < ss[2]}
<1>1. OpToRel(<, Nat) = less
  BY Zenon DEF OpToRel
<1>2. IsWellFoundedOn(less, Nat)
  BY <1>1, NatLessThanWellFounded, Zenon
<1> HIDE DEF less
<1>3. PICK m \in T : \A y \in T : ~(<<y, m>> \in less)
  BY <1>2, WFMin, Zenon
<1>4. \A x, y \in Nat : x < y => <<x, y>> \in less
  BY Zenon DEF less
<1>5. \A y \in T : ~(y < m)
  BY <1>3, <1>4
<1>6. QED
  BY <1>5

\* A running hash extended with one more row is a running hash.
LEMMA ChainHashType ==
    ASSUME NEW prev \in Rh, NEW s \in Streams, NEW n \in Nat, NEW d \in Digests
    PROVE  ChainHash(prev, s, n, d) \in Rh
  BY DEF ChainHash, Rh, Link

\* A stream's seed is a running hash, and the head of a stream without rows a head.
LEMMA NoHeadType == ASSUME NEW s \in Streams PROVE NoHead(s) \in Head_
  BY DEF NoHead, streamSeed, Head_, Rh, Link

\* The idle transaction has the shape of a transaction.
LEMMA NoTxType ==
    NoTx \in [phase : Phase, stream : Streams, digest : Digests, rhPrev : Rh,
              rows : Seq(Row), heads : [Streams -> Head_]]
  <1>1. (CHOOSE s \in Streams : TRUE) \in Streams /\ (CHOOSE d \in Digests : TRUE) \in Digests
    BY JournalAssumption
  <1>2. [s \in Streams |-> NoHead(s)] \in [Streams -> Head_]
    BY NoHeadType
  <1>3. QED
    BY <1>1, <1>2 DEF NoTx, Phase, BlankRh, Rh

\* Setting the rh of one row leaves a sequence of rows.
LEMMA SetRhType ==
    ASSUME NEW rows \in Seq(Row), NEW n \in Nat, NEW h \in Rh
    PROVE  /\ [rows EXCEPT ![n].rh = h] \in Seq(Row)
           /\ Len([rows EXCEPT ![n].rh = h]) = Len(rows)
  <1> DEFINE rows2 == [rows EXCEPT ![n].rh = h]
  <1>1. rows \in [1..Len(rows) -> Row] /\ Len(rows) \in Nat
    OBVIOUS
  <1>2. rows2 = [i \in 1..Len(rows) |-> IF i = n THEN [rows[i] EXCEPT !.rh = h] ELSE rows[i]]
    BY <1>1
  <1>3. ASSUME NEW i \in 1..Len(rows) PROVE [rows[i] EXCEPT !.rh = h] \in Row
    BY <1>1 DEF Row
  <1>4. rows2 \in [1..Len(rows) -> Row]
    BY <1>1, <1>2, <1>3
  <1>5. QED
    BY <1>1, <1>4

\* The tables are empty and no transaction is open.
LEMMA JournalTypeInit == InitJournal => JournalTypeOK
  BY NoTxType, NoHeadType DEF InitJournal, JournalTypeOK

\* A statement of appendEntry, a commit or a rollback leaves values of their kind.
LEMMA JournalTypeStep == ASSUME JournalTypeOK, [AppendEntry]_jvars PROVE JournalTypeOK'
  <1> USE DEF JournalTypeOK
  <1>1. ASSUME NEW s \in Streams, NEW d \in Digests, BeginAppend(s, d) PROVE JournalTypeOK'
    BY <1>1 DEF BeginAppend, Phase, Head_
  <1>2. CASE InsertRow
    <2> DEFINE row == [stream |-> tx.stream, digest |-> tx.digest, rh |-> BlankRh]
    <2>1. BlankRh \in Rh
      BY DEF BlankRh, Rh
    <2>2. row \in Row
      BY <2>1 DEF Row
    <2>3. Append(tx.rows, row) \in Seq(Row)
      BY <2>2
    <2> HIDE DEF row
    <2>4. QED
      BY <1>2, <2>3 DEF InsertRow, Phase, row
  <1>3. CASE UpdateRh
    <2>1. ChainHash(tx.rhPrev, tx.stream, Len(tx.rows), tx.digest) \in Rh
      BY ChainHashType
    <2> DEFINE rows2 == [tx.rows EXCEPT ![Len(tx.rows)].rh =
                            ChainHash(tx.rhPrev, tx.stream, Len(tx.rows), tx.digest)]
    <2>2. rows2 \in Seq(Row)
      BY <2>1, SetRhType
    <2>3. tx' = [tx EXCEPT !.phase = "hashed", !.rows = rows2]
      BY <1>3 DEF UpdateRh
    <2> HIDE DEF rows2
    <2>4. QED
      BY <1>3, <2>2, <2>3 DEF UpdateRh, Phase
  <1>4. CASE UpsertState
    <2> DEFINE head == [seq |-> Len(tx.rows),
                        rh |-> ChainHash(tx.rhPrev, tx.stream, Len(tx.rows), tx.digest)]
    <2>1. head \in Head_
      BY ChainHashType DEF Head_
    <2> DEFINE heads2 == [tx.heads EXCEPT ![tx.stream] = head]
    <2>2. tx' = [tx EXCEPT !.phase = "upserted", !.heads = heads2]
      BY <1>4 DEF UpsertState
    <2> HIDE DEF head
    <2>3. heads2 \in [Streams -> Head_]
      BY <2>1
    <2> HIDE DEF heads2
    <2>4. QED
      BY <1>4, <2>2, <2>3 DEF UpsertState, Phase
  <1>5. CASE CommitAppend
    BY <1>5, NoTxType DEF CommitAppend
  <1>6. CASE RollbackAppend
    BY <1>6, NoTxType DEF RollbackAppend
  <1>7. CASE UNCHANGED jvars
    BY <1>7 DEF jvars
  <1>8. QED
    BY <1>1, <1>2, <1>3, <1>4, <1>5, <1>6, <1>7 DEF AppendEntry

\* Type correctness: no interleaving of statements and failures puts a value of the
\* wrong kind into the tables or the transaction.
THEOREM JournalTypeCorrect == JournalSpec => []JournalTypeOK
  BY JournalTypeInit, JournalTypeStep, PTL DEF JournalSpec
-----------------------------------------------------------------------------
\* What a row replays against depends only on the rows before it.
LEMMA ReplayStable ==
    ASSUME NEW rows \in Seq(Row), NEW row \in Row, NEW i \in 1..Len(rows)
    PROVE  RowReplays(Append(rows, row), 0, Seeds, i) <=> RowReplays(rows, 0, Seeds, i)
  <1> DEFINE rows2 == Append(rows, row)
  <1>1. \A j \in 1..i : rows2[j] = rows[j]
    OBVIOUS
  <1> HIDE DEF rows2
  <1>2. PriorRows(rows2, 0, i) = PriorRows(rows, 0, i) /\ PriorRows(rows, 0, i) \subseteq 1..i
    <2>1. DOMAIN rows = 1..Len(rows) /\ DOMAIN rows2 = 1..(Len(rows) + 1) /\ i \in Nat
      BY DEF rows2
    <2>2. QED
      BY <1>1, <2>1 DEF PriorRows
  <1>3. QED
    BY <1>1, <1>2 DEF RowReplays, Recomputes, rows2

\* The new head of a stream is its new last row, and the other streams keep theirs.
LEMMA AppendKeepsHeads ==
    ASSUME NEW rows \in Seq(Row), NEW heads \in [Streams -> Head_],
           NEW s \in Streams, NEW d \in Digests, HeadsAgree(rows, heads)
    PROVE  LET n    == Len(rows) + 1
               rh   == ChainHash(heads[s].rh, s, n, d)
           IN  HeadsAgree(Append(rows, [stream |-> s, digest |-> d, rh |-> rh]),
                          [heads EXCEPT ![s] = [seq |-> n, rh |-> rh]])
  <1> DEFINE n == Len(rows) + 1
             rh == ChainHash(heads[s].rh, s, n, d)
             row == [stream |-> s, digest |-> d, rh |-> rh]
             rows2 == Append(rows, row)
             heads2 == [heads EXCEPT ![s] = [seq |-> n, rh |-> rh]]
  <1>1. rh \in Rh /\ n \in Nat
    BY ChainHashType DEF Head_
  <1>2. row \in Row
    BY <1>1 DEF Row
  <1>3. /\ Len(rows2) = n
        /\ rows2[n] = row
        /\ \A j \in 1..Len(rows) : rows2[j] = rows[j]
    BY <1>2
  <1>4. /\ row.stream = s /\ row.digest = d /\ row.rh = rh
    OBVIOUS
  <1>5. ASSUME NEW t \in Streams PROVE HeadAgrees(rows2, heads2[t], t)
    <2> HIDE DEF rows2, row, rh
    <2>1. HeadAgrees(rows, heads[t], t)
      BY DEF HeadsAgree
    <2>2. CASE t = s
      BY <1>1, <1>3, <1>4, <2>2 DEF HeadAgrees
    <2>3. CASE t # s
      <3>1. heads2[t] = heads[t]
        BY <2>3
      <3>2. \A i \in 1..Len(rows2) : rows2[i].stream = t => i \in 1..Len(rows)
        BY <1>3, <1>4, <2>3
      <3>3. CASE heads[t] = NoHead(t) /\ \A i \in 1..Len(rows) : rows[i].stream # t
        BY <1>3, <3>1, <3>2, <3>3 DEF HeadAgrees
      <3>4. CASE /\ heads[t].seq \in 1..Len(rows)
                 /\ rows[heads[t].seq].stream = t
                 /\ rows[heads[t].seq].rh = heads[t].rh
                 /\ \A i \in (heads[t].seq + 1)..Len(rows) : rows[i].stream # t
        <4>1. heads[t].seq \in 1..Len(rows2) /\ rows2[heads[t].seq] = rows[heads[t].seq]
          BY <1>3, <3>4
        <4>2. ASSUME NEW i \in (heads[t].seq + 1)..Len(rows2), rows2[i].stream = t PROVE FALSE
          BY <1>3, <3>2, <3>4, <4>1, <4>2
        <4>3. QED
          BY <3>1, <3>4, <4>1, <4>2 DEF HeadAgrees
      <3>5. QED
        BY <2>1, <3>3, <3>4 DEF HeadAgrees
    <2>4. QED
      BY <2>2, <2>3
  <1>6. HeadsAgree(rows2, heads2)
    BY <1>5 DEF HeadsAgree
  <1>7. QED
    BY <1>6

\* The step of the argument: chaining a new row to its stream's recorded head keeps the
\* journal replayable, and the new head is again the stream's last row.
LEMMA AppendKeepsChain ==
    ASSUME NEW rows \in Seq(Row), NEW heads \in [Streams -> Head_],
           NEW s \in Streams, NEW d \in Digests,
           replayVerify(rows), HeadsAgree(rows, heads)
    PROVE  LET n    == Len(rows) + 1
               rh   == ChainHash(heads[s].rh, s, n, d)
               rows2 == Append(rows, [stream |-> s, digest |-> d, rh |-> rh])
           IN  /\ replayVerify(rows2)
               /\ HeadsAgree(rows2, [heads EXCEPT ![s] = [seq |-> n, rh |-> rh]])
  <1> DEFINE n == Len(rows) + 1
             rh == ChainHash(heads[s].rh, s, n, d)
             row == [stream |-> s, digest |-> d, rh |-> rh]
             rows2 == Append(rows, row)
             heads2 == [heads EXCEPT ![s] = [seq |-> n, rh |-> rh]]
  <1>1. rh \in Rh /\ n \in Nat
    BY ChainHashType DEF Head_
  <1>2. row \in Row
    BY <1>1 DEF Row
  <1>3. /\ Len(rows2) = n
        /\ rows2[n] = row
        /\ \A j \in 1..Len(rows) : rows2[j] = rows[j]
    BY <1>2
  <1>4. /\ row.stream = s /\ row.digest = d /\ row.rh = rh
    OBVIOUS
  <1>5. ASSUME NEW i \in 1..Len(rows) PROVE RowReplays(rows2, 0, Seeds, i)
    BY <1>2, <1>5, ReplayStable DEF replayVerify, ReplayFrom
  <1>6. RowReplays(rows2, 0, Seeds, n)
    <2> HIDE DEF rows2, row, rh
    <2>1. PriorRows(rows2, 0, n) = {j \in 1..Len(rows) : rows[j].stream = s}
      <3>1. DOMAIN rows2 = 1..n
        BY <1>2 DEF rows2
      <3>2. QED
        BY <1>3, <1>4, <3>1 DEF PriorRows
    <2>2. HeadAgrees(rows, heads[s], s)
      BY DEF HeadsAgree
    <2>3. CASE heads[s] = NoHead(s) /\ \A i \in 1..Len(rows) : rows[i].stream # s
      <3>1. heads[s].rh = Seeds[s]
        BY <2>3 DEF NoHead, Seeds
      <3>2. PriorRows(rows2, 0, n) = {}
        BY <2>1, <2>3
      <3>3. Recomputes(rows2, n, Seeds[s])
        BY <1>3, <1>4, <3>1 DEF Recomputes, rh
      <3>4. QED
        BY <1>3, <1>4, <3>2, <3>3 DEF RowReplays
    <2>4. CASE /\ heads[s].seq \in 1..Len(rows)
               /\ rows[heads[s].seq].stream = s
               /\ rows[heads[s].seq].rh = heads[s].rh
               /\ \A i \in (heads[s].seq + 1)..Len(rows) : rows[i].stream # s
      <3>1. /\ heads[s].seq \in PriorRows(rows2, 0, n)
            /\ \A k \in PriorRows(rows2, 0, n) : k <= heads[s].seq
        BY <2>1, <2>4
      <3>2. Recomputes(rows2, n, rows2[heads[s].seq].rh)
        BY <1>3, <1>4, <2>4 DEF Recomputes, rh
      <3>3. QED
        BY <3>1, <3>2 DEF RowReplays
    <2>5. QED
      BY <2>2, <2>3, <2>4 DEF HeadAgrees
  <1>7. replayVerify(rows2)
    <2>1. DOMAIN rows2 = 1..n
      BY <1>2
    <2>2. QED
      BY <1>1, <1>3, <1>5, <1>6, <2>1 DEF replayVerify, ReplayFrom
  <1>8. HeadsAgree(rows2, heads2)
    BY AppendKeepsHeads
  <1>9. QED
    BY <1>7, <1>8
-----------------------------------------------------------------------------
\* The inductive invariant: the committed tables are right, and an open transaction
\* differs from them by exactly the statements it has run.
IInv == JournalTypeOK /\ TxConsistent /\ ChainIntact /\ HeadsMatchRows

\* Each statement of appendEntry moves the transaction on as TxConsistent says.
LEMMA TxStep ==
    ASSUME JournalTypeOK, JournalTypeOK', TxConsistent,
           \/ \E s \in Streams, d \in Digests : BeginAppend(s, d)
           \/ InsertRow \/ UpdateRh \/ UpsertState
    PROVE  TxConsistent' /\ UNCHANGED <<journal, streamState>>
  <1> USE DEF JournalTypeOK
  <1>1. ASSUME NEW s \in Streams, NEW d \in Digests, BeginAppend(s, d)
        PROVE  TxConsistent' /\ UNCHANGED <<journal, streamState>>
    BY <1>1 DEF BeginAppend, TxConsistent
  <1>2. CASE InsertRow
    <2>1. /\ tx.phase = "begun" /\ tx'.phase = "inserted"
          /\ tx'.rows = Append(journal, [stream |-> tx.stream, digest |-> tx.digest, rh |-> BlankRh])
          /\ tx'.stream = tx.stream /\ tx'.digest = tx.digest
          /\ tx'.rhPrev = tx.rhPrev /\ tx'.heads = tx.heads
          /\ UNCHANGED <<journal, streamState>>
      BY <1>2 DEF InsertRow, TxConsistent
    <2>2. [NewRow EXCEPT !.rh = BlankRh]' =
             [stream |-> tx.stream, digest |-> tx.digest, rh |-> BlankRh]
      BY <2>1 DEF NewRow, BlankRh
    <2>3. QED
      BY <2>1, <2>2 DEF TxConsistent
  <1>3. CASE UpdateRh
    <2> DEFINE n == Len(journal) + 1
    <2>1. /\ tx.phase = "inserted"
          /\ tx.rows = Append(journal, [NewRow EXCEPT !.rh = BlankRh])
          /\ tx.heads = streamState /\ tx.rhPrev = streamState[tx.stream].rh
      BY <1>3 DEF UpdateRh, TxConsistent
    <2>2. NewRow \in Row /\ [NewRow EXCEPT !.rh = BlankRh] \in Row
      <3>1. streamState[tx.stream].rh \in Rh /\ Len(journal) + 1 \in Nat
        BY DEF Head_
      <3>2. NewRow.rh \in Rh
        BY <3>1, ChainHashType DEF NewRow
      <3>3. BlankRh \in Rh
        BY DEF BlankRh, Rh
      <3>4. QED
        BY <3>2, <3>3 DEF NewRow, Row
    <2>3. Len(tx.rows) = n /\ tx.rows[n] = [NewRow EXCEPT !.rh = BlankRh]
          /\ \A i \in 1..Len(journal) : tx.rows[i] = journal[i]
      BY <2>1, <2>2
    <2> DEFINE rows2 == [tx.rows EXCEPT ![n].rh = NewRow.rh]
    <2>4. NewRow.rh = ChainHash(tx.rhPrev, tx.stream, n, tx.digest)
      BY <2>1 DEF NewRow
    <2>5. tx' = [tx EXCEPT !.phase = "hashed", !.rows = rows2]
      BY <1>3, <2>3, <2>4 DEF UpdateRh
    <2>6. rows2 = Append(journal, NewRow)
      <3>1. [[NewRow EXCEPT !.rh = BlankRh] EXCEPT !.rh = NewRow.rh] = NewRow
        BY DEF NewRow
      <3>2. Len(rows2) = n /\ rows2 \in Seq(Row)
        <4>1. NewRow.rh \in Rh /\ n \in Nat /\ tx.rows \in Seq(Row)
          BY <2>2 DEF Row
        <4>2. QED
          BY <2>3, <4>1, SetRhType
      <3>3. ASSUME NEW i \in 1..n PROVE rows2[i] = Append(journal, NewRow)[i]
        <4>1. tx.rows \in [1..n -> Row]
          BY <2>3
        <4>2. CASE i = n
          BY <2>2, <2>3, <3>1, <4>1, <4>2
        <4>3. CASE i # n
          BY <2>2, <2>3, <4>1, <4>3
        <4>4. QED
          BY <4>2, <4>3
      <3>4. Append(journal, NewRow) \in Seq(Row) /\ Len(Append(journal, NewRow)) = n
        BY <2>2
      <3> DEFINE rows3 == Append(journal, NewRow)
      <3>5. rows3 \in Seq(Row) /\ Len(rows3) = n /\ \A i \in 1..n : rows2[i] = rows3[i]
        BY <3>3, <3>4
      <3> HIDE DEF rows2, rows3
      <3>6. rows2 = rows3
        BY <3>2, <3>5, SeqEqual
      <3>7. QED
        BY <3>6 DEF rows3
    <2> HIDE DEF rows2
    <2>7. /\ tx'.phase = "hashed" /\ tx'.rows = rows2
          /\ tx'.stream = tx.stream /\ tx'.digest = tx.digest
          /\ tx'.rhPrev = tx.rhPrev /\ tx'.heads = tx.heads
          /\ UNCHANGED <<journal, streamState>>
      BY <1>3, <2>5 DEF UpdateRh
    <2>8. NewRow' = NewRow
      BY <2>7 DEF NewRow
    <2>9. QED
      BY <2>1, <2>6, <2>7, <2>8 DEF TxConsistent
  <1>4. CASE UpsertState
    <2> DEFINE n == Len(journal) + 1
               heads2 == [streamState EXCEPT ![tx.stream] = [seq |-> n, rh |-> NewRow.rh]]
    <2>1. /\ tx.phase = "hashed"
          /\ tx.rows = Append(journal, NewRow)
          /\ tx.heads = streamState /\ tx.rhPrev = streamState[tx.stream].rh
      BY <1>4 DEF UpsertState, TxConsistent
    <2>2. Len(tx.rows) = n
      BY <2>1
    <2>3. NewRow.rh = ChainHash(tx.rhPrev, tx.stream, n, tx.digest)
      BY <2>1 DEF NewRow
    <2>4. tx' = [tx EXCEPT !.phase = "upserted", !.heads = heads2]
      BY <1>4, <2>1, <2>2, <2>3 DEF UpsertState
    <2> HIDE DEF heads2
    <2>5. /\ tx'.phase = "upserted" /\ tx'.rows = tx.rows
          /\ tx'.stream = tx.stream /\ tx'.digest = tx.digest
          /\ tx'.rhPrev = tx.rhPrev /\ tx'.heads = heads2
          /\ UNCHANGED <<journal, streamState>>
      BY <1>4, <2>4 DEF UpsertState
    <2>6. NewRow' = NewRow
      BY <2>5 DEF NewRow
    <2>7. QED
      BY <2>1, <2>5, <2>6 DEF TxConsistent, heads2
  <1>5. QED
    BY <1>1, <1>2, <1>3, <1>4

\* A commit publishes one row and its head, whatever the rows before it hold.
LEMMA CommitWrites ==
    ASSUME JournalTypeOK, TxConsistent, HeadsMatchRows, CommitAppend
    PROVE  /\ HeadsMatchRows' /\ TxConsistent' /\ NewRow \in Row
           /\ journal' = Append(journal, NewRow)
           /\ streamState' = [streamState EXCEPT ![tx.stream] =
                                 [seq |-> Len(journal) + 1, rh |-> NewRow.rh]]
  <1>1. /\ journal' = Append(journal, NewRow)
        /\ streamState' = [streamState EXCEPT ![tx.stream] =
                              [seq |-> Len(journal) + 1, rh |-> NewRow.rh]]
        /\ tx'.phase = "idle"
    BY DEF CommitAppend, TxConsistent, NoTx
  <1>2. tx.stream \in Streams /\ tx.digest \in Digests
    BY DEF JournalTypeOK
  <1>3. HeadsAgree(journal', streamState')
    BY <1>1, <1>2, AppendKeepsHeads DEF JournalTypeOK, HeadsMatchRows, NewRow
  <1>4. NewRow \in Row
    <2>1. ChainHash(streamState[tx.stream].rh, tx.stream, Len(journal) + 1, tx.digest) \in Rh
      BY <1>2, ChainHashType DEF JournalTypeOK, Head_
    <2>2. QED
      BY <1>2, <2>1 DEF NewRow, Row
  <1>5. QED
    BY <1>1, <1>3, <1>4 DEF HeadsMatchRows, TxConsistent

\* The row a commit publishes is chained to its stream.
LEMMA CommitStep ==
    ASSUME JournalTypeOK, TxConsistent, ChainIntact, HeadsMatchRows, CommitAppend
    PROVE  ChainIntact' /\ HeadsMatchRows' /\ TxConsistent'
           /\ journal' = Append(journal, NewRow)
  <1>1. tx.stream \in Streams /\ tx.digest \in Digests
    BY DEF JournalTypeOK
  <1>2. replayVerify(journal')
    <2>1. journal' = Append(journal, NewRow)
      BY CommitWrites
    <2>2. replayVerify(Append(journal, NewRow))
      BY <1>1, AppendKeepsChain DEF JournalTypeOK, ChainIntact, HeadsMatchRows, NewRow
    <2>3. QED
      BY <2>1, <2>2
  <1>3. QED
    BY <1>2, CommitWrites DEF ChainIntact

\* The invariant holds throughout every run of appends.
LEMMA Invariance == JournalSpec => []IInv
  <1>1. InitJournal => IInv
    <2> SUFFICES ASSUME InitJournal PROVE TxConsistent /\ ChainIntact /\ HeadsMatchRows /\ JournalTypeOK
      BY DEF IInv
    <2>1. JournalTypeOK
      BY NoTxType, NoHeadType DEF InitJournal, JournalTypeOK
    <2>2. TxConsistent
      BY DEF InitJournal, NoTx, TxConsistent
    <2>3. ChainIntact /\ HeadsMatchRows
      BY DEF InitJournal, ChainIntact, replayVerify, ReplayFrom, HeadsMatchRows, HeadsAgree, HeadAgrees
    <2>4. QED
      BY <2>1, <2>2, <2>3
  <1>2. IInv /\ JournalTypeOK' /\ [AppendEntry]_jvars => IInv'
    <2> SUFFICES ASSUME IInv, JournalTypeOK', [AppendEntry]_jvars PROVE IInv'
      OBVIOUS
    <2>1. CASE \/ \E s \in Streams, d \in Digests : BeginAppend(s, d)
               \/ InsertRow \/ UpdateRh \/ UpsertState
      <3>1. TxConsistent' /\ UNCHANGED <<journal, streamState>>
        BY <2>1, TxStep DEF IInv
      <3>2. QED
        BY <3>1 DEF IInv, ChainIntact, HeadsMatchRows
    <2>2. CASE CommitAppend
      BY <2>2, CommitStep DEF IInv
    <2>3. CASE RollbackAppend
      <3>1. TxConsistent'
        BY <2>3 DEF RollbackAppend, NoTx, TxConsistent
      <3>2. QED
        BY <2>3, <3>1 DEF IInv, ChainIntact, HeadsMatchRows, RollbackAppend
    <2>4. CASE UNCHANGED jvars
      BY <2>4 DEF jvars, IInv, ChainIntact, HeadsMatchRows, TxConsistent, NewRow
    <2>5. QED
      BY <2>1, <2>2, <2>3, <2>4 DEF AppendEntry
  <1>3. QED
    BY <1>1, <1>2, JournalTypeCorrect, PTL DEF JournalSpec, IInv

\* The chain holds: whatever is appended to whatever streams, and wherever an append is
\* abandoned, replayVerify accepts the journal.
THEOREM JournalReplays == JournalSpec => []ChainIntact
  <1>1. IInv => ChainIntact
    BY DEF IInv
  <1>2. QED
    BY <1>1, Invariance, PTL

\* stream_state names the last row of every stream, so an append and a checkpoint that
\* read it chain to, and sign, what the journal holds.
THEOREM JournalHeads == JournalSpec => []HeadsMatchRows
  <1>1. IInv => HeadsMatchRows
    BY DEF IInv
  <1>2. QED
    BY <1>1, Invariance, PTL

\* The journal implements the append-only log: seen without its hashes, every step adds
\* one whole entry at the end or changes nothing.
THEOREM JournalImplementsLog == JournalSpec => ImplementsLog
  <1>1. InitJournal => Log!Init
    BY DEF InitJournal, Log!Init, Entries
  <1>2. IInv /\ [AppendEntry]_jvars => [Log!AddEntry]_Entries
    <2> SUFFICES ASSUME IInv, [AppendEntry]_jvars PROVE [Log!AddEntry]_Entries
      OBVIOUS
    <2> USE DEF IInv, JournalTypeOK
    <2>1. CASE CommitAppend
      <3> DEFINE e == [stream |-> tx.stream, digest |-> tx.digest]
                 n == Len(journal) + 1
      <3>1. journal' = Append(journal, NewRow)
        BY <2>1, CommitStep
      <3>2. /\ Len(journal') = n
            /\ journal'[n] = NewRow
            /\ \A i \in 1..Len(journal) : journal'[i] = journal[i]
        BY <3>1
      <3>3. e \in Log!Entry
        BY DEF Log!Entry
      <3>4. Entries \in Seq(Log!Entry) /\ Len(Entries) = Len(journal)
        <4>1. \A i \in 1..Len(journal) : journal[i].stream \in Streams /\ journal[i].digest \in Digests
          <5>1. ASSUME NEW i \in 1..Len(journal) PROVE journal[i] \in Row
            OBVIOUS
          <5>2. QED
            BY <5>1 DEF Row
        <4>2. Entries \in [1..Len(journal) -> Log!Entry]
          BY <4>1 DEF Entries, Log!Entry
        <4>3. QED
          BY <4>2
      <3>5. Entries' = [i \in 1..n |-> IF i = n THEN e ELSE Entries[i]]
        BY <3>2 DEF Entries, NewRow
      <3>6. Append(Entries, e) = [i \in 1..n |-> IF i = n THEN e ELSE Entries[i]]
        BY <3>3, <3>4
      <3>7. QED
        BY <3>3, <3>5, <3>6 DEF Log!AddEntry
    <2>2. CASE UNCHANGED journal
      BY <2>2 DEF Entries
    <2>3. QED
      BY <2>1, <2>2 DEF AppendEntry, BeginAppend, InsertRow, UpdateRh, UpsertState,
                        RollbackAppend, jvars
  <1>3. QED
    BY <1>1, <1>2, Invariance, PTL DEF JournalSpec, ImplementsLog, Log!Spec
=============================================================================
