---------------------------- MODULE DaemonProofs ----------------------------
(***************************************************************************)
(* From the daemon's start to its exit, for any number of streams, runs,   *)
(* keys, boots and faults: what it counts, what it seals and what its      *)
(* checkpoints say.                                                        *)
(***************************************************************************)
EXTENDS JournalProofs, Boot, Identity, Stream, FiniteSetTheorems

-----------------------------------------------------------------------------
(* Starts. The rows as they were committed are chained, each by a hash no  *)
(* other row has, and a checkpoint holds the heads of one prefix of them.  *)
(* A row after that moment that replays is therefore stored as it was      *)
(* hashed and follows the row it was chained to, so only the end of a      *)
(* stream can be gone; and where nothing hashed was altered it replays.    *)
(* With stream_state altered, nothing of this is claimed.                  *)

\* The head of a stream after the first n rows.
HeadUpTo(log, n, head, s) ==
    \/ head = NoHead(s) /\ \A i \in 1..n : log[i].stream # s
    \/ /\ head.seq \in 1..n /\ log[head.seq].stream = s /\ log[head.seq].rh = head.rh
       /\ \A i \in (head.seq + 1)..n : log[i].stream # s

HeadsUpTo(log, n, front) == \A s \in Streams : HeadUpTo(log, n, front[s], s)

Moments ==
    \A c \in 1..Len(checkpoints) :
        /\ LiveStreams(checkpoints[c].streams) # {}
        /\ \E n \in 0..Len(journal) : HeadsUpTo(journal, n, checkpoints[c].streams)

\* The inductive invariant: with the heads as they were written the tables agree, the
\* rows are chained, and checkpoints are moments of the journal with a head.
Sound ==
    /\ TxConsistent /\ HeadsMatchRows /\ ChainIntact /\ Moments
    /\ building.live => LiveStreams(streamState) # {}

BootInv == BootTypeOK /\ (astray = {} => Sound)

\* A running hash tells what was hashed last, and onto what.
LEMMA OneHash ==
    ASSUME NEW p \in Rh, NEW q \in Rh, NEW s \in Streams, NEW n \in Nat, NEW m \in Nat,
           NEW d \in Digests \cup {NoDigest}, NEW e \in Digests \cup {NoDigest},
           ChainHash(p, s, n, d) = ChainHash(q, s, m, e)
    PROVE  p = q /\ n = m /\ d = e
<1> DEFINE x == [stream |-> s, seq |-> n, digest |-> d]
           y == [stream |-> s, seq |-> m, digest |-> e]
<1>1. x \in Link /\ y \in Link
  BY DEF Link
<1>2. Append(p, x) = Append(q, y)
  BY DEF ChainHash
<1>3. x.digest = d /\ y.digest = e /\ x.seq = n /\ y.seq = m
  OBVIOUS
<1> HIDE DEF x, y
<1>4. p = q /\ x = y
  BY <1>1, <1>2, AppendInjective DEF Rh
<1>5. QED
  BY <1>3, <1>4

\* The blank is nothing's hash, and a seed is the hash of row 0.
LEMMA SeedHash ==
    ASSUME NEW s \in Streams
    PROVE  /\ BlankRh \in Rh /\ streamSeed(s) = ChainHash(BlankRh, s, 0, NoDigest)
           /\ streamSeed(s) # BlankRh
           /\ \A p \in Rh, n \in Nat, d \in Digests \cup {NoDigest} : ChainHash(p, s, n, d) # BlankRh
<1>1. BlankRh \in Rh /\ streamSeed(s) = ChainHash(BlankRh, s, 0, NoDigest)
  BY DEF BlankRh, Rh, streamSeed, ChainHash
<1>2. ASSUME NEW p \in Rh, NEW n \in Nat, NEW d \in Digests \cup {NoDigest} PROVE ChainHash(p, s, n, d) # BlankRh
  <2> DEFINE x == [stream |-> s, seq |-> n, digest |-> d]
  <2>1. x \in Link
    BY DEF Link
  <2> HIDE DEF x
  <2>2. Len(Append(p, x)) = Len(p) + 1 /\ Len(p) \in Nat
    BY <2>1 DEF Rh
  <2>3. Append(p, x) # <<>>
    BY <2>2
  <2>4. QED
    BY <2>3 DEF ChainHash, BlankRh, x
<1>3. QED
  BY <1>1, <1>2

\* A committed row holds the hash of itself onto something.
LEMMA RowHash ==
    ASSUME JournalTypeOK, ChainIntact, NEW i \in 1..Len(journal)
    PROVE  /\ journal[i] \in Row /\ journal[i].stream \in Streams /\ journal[i].digest \in Digests
           /\ \E p \in Rh : journal[i].rh = ChainHash(p, journal[i].stream, i, journal[i].digest)
<1>1. DOMAIN journal = 1..Len(journal) /\ i \in Nat /\ i > 0
  BY DEF JournalTypeOK
<1>2. \A j \in 1..Len(journal) : journal[j] \in Row
  BY DEF JournalTypeOK
<1>3. \A j \in 1..Len(journal) : journal[j].rh \in Rh /\ journal[j].stream \in Streams /\ journal[j].digest \in Digests
  BY <1>2 DEF Row
<1>4. RowReplays(journal, 0, Seeds, i)
  BY <1>1 DEF ChainIntact, replayVerify, ReplayFrom
<1>5. \A s \in Streams : Seeds[s] \in Rh
  BY NoHeadType DEF Seeds, NoHead, Head_
<1>6. PriorRows(journal, 0, i) \subseteq 1..Len(journal)
  BY <1>1 DEF PriorRows
<1>7. QED
  BY <1>1, <1>2, <1>3, <1>4, <1>5, <1>6 DEF RowReplays, Recomputes

\* No two rows of a stream have the same hash.
LEMMA HashesDiffer ==
    ASSUME JournalTypeOK, ChainIntact, NEW i \in 1..Len(journal)
    PROVE  /\ journal[i].rh \in Rh /\ journal[i].rh # BlankRh /\ journal[i].rh # streamSeed(journal[i].stream)
           /\ \A j \in 1..Len(journal) :
                 journal[j].stream = journal[i].stream /\ journal[j].rh = journal[i].rh => j = i
<1> DEFINE s == journal[i].stream
<1>1. \A j \in 1..Len(journal) :
         /\ journal[j].stream \in Streams /\ journal[j].digest \in Digests /\ j \in Nat /\ j # 0
         /\ \E p \in Rh : journal[j].rh = ChainHash(p, journal[j].stream, j, journal[j].digest)
  BY RowHash
<1>2. PICK p \in Rh : journal[i].rh = ChainHash(p, s, i, journal[i].digest)
  BY <1>1
<1>3. journal[i].rh # BlankRh /\ journal[i].rh \in Rh
  BY <1>1, <1>2, SeedHash, ChainHashType
<1>4. journal[i].rh # streamSeed(s)
  <2>1. streamSeed(s) = ChainHash(BlankRh, s, 0, NoDigest) /\ BlankRh \in Rh
    BY <1>1, SeedHash
  <2>2. QED
    BY <1>1, <1>2, <2>1, OneHash
<1>5. ASSUME NEW j \in 1..Len(journal), journal[j].stream = s, journal[j].rh = journal[i].rh PROVE j = i
  <2>1. PICK q \in Rh : journal[j].rh = ChainHash(q, s, j, journal[j].digest)
    BY <1>1, <1>5
  <2>2. QED
    BY <1>1, <1>2, <1>5, <2>1, OneHash
<1>6. QED
  BY <1>3, <1>4, <1>5

\* What is stored, read back.
LEMMA StoredIs ==
    ASSUME JournalTypeOK
    PROVE  /\ DOMAIN stored = present /\ present \subseteq 1..Len(journal)
           /\ \A i \in present :
                 /\ stored[i].stream = journal[i].stream
                 /\ stored[i].digest = IF <<i, "entry_digest">> \in damaged THEN NoDigest ELSE journal[i].digest
                 /\ stored[i].rh = IF <<i, "rh">> \in damaged THEN BlankRh ELSE journal[i].rh
<1>1. DOMAIN journal = 1..Len(journal)
  BY DEF JournalTypeOK
<1>2. QED
  BY <1>1 DEF stored, present

\* A stored row that replays, onto whatever, is as it was hashed.
LEMMA ReplayedIsHashed ==
    ASSUME JournalTypeOK, ChainIntact, NEW i \in present, NEW p \in Rh, Recomputes(stored, i, p)
    PROVE  AsHashed(i) /\ journal[i].rh = ChainHash(p, journal[i].stream, i, journal[i].digest)
<1> DEFINE s == journal[i].stream
<1>1. /\ i \in 1..Len(journal) /\ i \in Nat /\ stored[i].stream = s
      /\ stored[i].digest = IF <<i, "entry_digest">> \in damaged THEN NoDigest ELSE journal[i].digest
      /\ stored[i].rh = IF <<i, "rh">> \in damaged THEN BlankRh ELSE journal[i].rh
  BY StoredIs
<1>2. s \in Streams /\ journal[i].digest \in Digests /\ NoDigest \notin Digests
  BY <1>1, RowHash, JournalAssumption
<1>3. PICK q \in Rh : journal[i].rh = ChainHash(q, s, i, journal[i].digest)
  BY <1>1, RowHash
<1>4. stored[i].rh = ChainHash(p, s, i, stored[i].digest)
  BY <1>1 DEF Recomputes
<1>5. stored[i].digest \in Digests \cup {NoDigest}
  BY <1>1, <1>2
<1>6. stored[i].rh # BlankRh
  BY <1>1, <1>2, <1>4, <1>5, SeedHash
<1>7. stored[i].rh = journal[i].rh /\ <<i, "rh">> \notin damaged
  BY <1>1, <1>6
<1>8. stored[i].digest = journal[i].digest
  <2>1. ChainHash(p, s, i, stored[i].digest) = ChainHash(q, s, i, journal[i].digest)
    BY <1>3, <1>4, <1>7
  <2>2. journal[i].digest \in Digests \cup {NoDigest}
    BY <1>2
  <2> HIDE DEF s
  <2>3. QED
    BY <1>1, <1>2, <1>5, <2>1, <2>2, OneHash
<1>9. <<i, "entry_digest">> \notin damaged /\ <<i, "row">> \notin damaged
  BY <1>1, <1>2, <1>8 DEF present
<1>10. QED
  BY <1>4, <1>7, <1>8, <1>9 DEF AsHashed, Hashed

\* The hash a replay starts a stream from is that of no row after the moment.
LEMMA FrontIsNoLaterRow ==
    ASSUME JournalTypeOK, ChainIntact, NEW n \in 0..Len(journal), NEW front \in [Streams -> Head_],
           HeadsUpTo(journal, n, front), NEW p \in (n + 1)..Len(journal)
    PROVE  front[journal[p].stream].rh # journal[p].rh
<1> DEFINE s == journal[p].stream
<1>1. p \in 1..Len(journal) /\ n \in Nat /\ Len(journal) \in Nat
  BY DEF JournalTypeOK
<1>2. s \in Streams /\ journal[p].rh # streamSeed(s)
  BY <1>1, RowHash, HashesDiffer
<1>3. HeadUpTo(journal, n, front[s], s)
  BY <1>2 DEF HeadsUpTo
<1>4. CASE front[s] = NoHead(s)
  BY <1>2, <1>4 DEF NoHead
<1>5. CASE front[s].seq \in 1..n /\ journal[front[s].seq].stream = s /\ journal[front[s].seq].rh = front[s].rh
  <2>1. front[s].seq \in 1..Len(journal) /\ front[s].seq # p
    BY <1>1, <1>5
  <2>2. QED
    BY <1>1, <1>5, <2>1, HashesDiffer
<1>6. QED
  BY <1>3, <1>4, <1>5 DEF HeadUpTo

\* When everything stored after the moment replays, a row after it is as it was
\* hashed, or gone together with all that followed it in its stream.
LEMMA ServedIsHashed ==
    ASSUME JournalTypeOK, ChainIntact, NEW n \in 0..Len(journal), NEW front \in [Streams -> Head_],
           HeadsUpTo(journal, n, front), NEW floor \in 0..n,
           NEW start \in [Streams -> Rh], \A t \in Streams : start[t] = front[t].rh,
           ReplayFrom(stored, floor, start), NEW i \in (n + 1)..Len(journal)
    PROVE  AsHashed(i) \/ CutOff(i)
<1> DEFINE s == journal[i].stream
           Onto(k, p) == Recomputes(stored, k, p)
<1>1. /\ i \in 1..Len(journal) /\ n \in Nat /\ floor \in Nat /\ i > floor /\ Len(journal) \in Nat
      /\ DOMAIN stored = present /\ present \subseteq 1..Len(journal) /\ DOMAIN journal = 1..Len(journal)
  BY StoredIs DEF JournalTypeOK
<1>2. \A k \in present : stored[k].stream = journal[k].stream /\ stored[k].rh \in {BlankRh, journal[k].rh}
  BY StoredIs
<1>3. \A k \in 1..Len(journal) : journal[k].rh \in Rh /\ journal[k].stream \in Streams
  BY RowHash, HashesDiffer
<1>4. ASSUME NEW k \in present, k > floor
      PROVE  \E p \in Rh :
                /\ Onto(k, p)
                /\ \/ p = start[journal[k].stream]
                   \/ \E j \in present : /\ j < k /\ journal[j].stream = journal[k].stream
                                         /\ p \in {BlankRh, journal[j].rh}
  <2>1. RowReplays(stored, floor, start, k)
    BY <1>1, <1>4 DEF ReplayFrom
  <2>2. start[journal[k].stream] \in Rh /\ BlankRh \in Rh
    BY <1>1, <1>3, <1>4, SeedHash
  <2>3. \A j \in present : stored[j].rh \in Rh
    BY <1>1, <1>2, <1>3, <2>2
  <2>4. QED
    BY <1>1, <1>2, <1>4, <2>1, <2>2, <2>3 DEF RowReplays, PriorRows
<1>5. CASE i \in present
  <2>1. PICK p \in Rh : Onto(i, p)
    BY <1>1, <1>4, <1>5
  <2>2. QED
    BY <1>5, <2>1, ReplayedIsHashed
<1>6. CASE i \notin present
  <2> SUFFICES ASSUME ~CutOff(i) PROVE FALSE
    OBVIOUS
  <2> DEFINE T == {j \in present : journal[j].stream = s /\ j > i}
  <2>1. T # {} /\ T \subseteq Nat
    <3>1. PICK j \in present : journal[j].stream = s /\ ~(j < i)
      BY DEF CutOff
    <3>2. j > i
      BY <1>1, <1>6, <3>1
    <3>3. j \in T
      BY <3>1, <3>2
    <3>4. T \subseteq present /\ present \subseteq Nat
      BY <1>1
    <3>5. QED
      BY <3>3, <3>4
  <2>2. PICK k \in T : \A m \in T : k <= m
    BY <2>1, LeastNat
  <2>3. k \in present /\ k \in 1..Len(journal) /\ k > i /\ k > floor /\ journal[k].stream = s
    BY <1>1, <2>2
  <2>4. PICK p \in Rh :
            /\ Onto(k, p)
            /\ \/ p = start[s]
               \/ \E j \in present : j < k /\ journal[j].stream = s /\ p \in {BlankRh, journal[j].rh}
    BY <1>4, <2>3
  <2>5. journal[k].rh = ChainHash(p, s, k, journal[k].digest) /\ journal[k].digest \in Digests
    BY <2>3, <2>4, ReplayedIsHashed, RowHash
  <2>6. PICK w \in PriorRows(journal, 0, k) :
            /\ \A j \in PriorRows(journal, 0, k) : j <= w
            /\ journal[k].rh = ChainHash(journal[w].rh, s, k, journal[k].digest)
    <3>1. i \in PriorRows(journal, 0, k)
      BY <1>1, <2>3 DEF PriorRows
    <3>2. RowReplays(journal, 0, Seeds, k)
      BY <1>1, <2>3 DEF ChainIntact, replayVerify, ReplayFrom
    <3>3. QED
      BY <2>3, <3>1, <3>2 DEF RowReplays, Recomputes
  <2>7. w \in (n + 1)..Len(journal) /\ w \in 1..Len(journal) /\ w >= i /\ journal[w].stream = s
    <3>1. i \in PriorRows(journal, 0, k)
      BY <1>1, <2>3 DEF PriorRows
    <3>2. w \in 1..Len(journal) /\ journal[w].stream = s
      BY <1>1, <2>3, <2>6 DEF PriorRows
    <3>3. QED
      BY <1>1, <2>6, <3>1, <3>2
  <2>8. p = journal[w].rh
    <3>1. ChainHash(p, s, k, journal[k].digest) = ChainHash(journal[w].rh, s, k, journal[k].digest)
      BY <2>5, <2>6
    <3>2. s \in Streams /\ journal[w].rh \in Rh /\ k \in Nat /\ journal[k].digest \in Digests \cup {NoDigest}
      BY <1>1, <1>3, <2>3, <2>5, <2>7
    <3> HIDE DEF s
    <3>3. QED
      BY <3>1, <3>2, OneHash
  <2>9. CASE p = start[s]
    <3>1. start[s] = front[s].rh
      BY <1>1, <1>3
    <3>2. front[journal[w].stream].rh # journal[w].rh
      BY <2>7, FrontIsNoLaterRow
    <3>3. QED
      BY <2>7, <2>8, <2>9, <3>1, <3>2
  <2>10. ASSUME NEW j \in present, j < k, journal[j].stream = s, p \in {BlankRh, journal[j].rh} PROVE FALSE
    <3>1. j < i
      <4>1. j # i
        BY <1>6
      <4>2. ~(j > i)
        BY <1>1, <2>2, <2>3, <2>10
      <4>3. QED
        BY <1>1, <4>1, <4>2
    <3>2. p # BlankRh
      BY <2>7, <2>8, HashesDiffer
    <3>3. journal[j].rh = journal[w].rh /\ j \in 1..Len(journal)
      BY <1>1, <2>8, <2>10, <3>2
    <3>4. j = w
      BY <2>7, <2>10, <3>3, HashesDiffer
    <3>5. QED
      BY <1>1, <2>7, <3>1, <3>4
  <2>11. QED
    BY <2>4, <2>9, <2>10
<1>7. QED
  BY <1>5, <1>6

\* Where nothing hashed was altered from the replay's start on, a row after the moment replays.
LEMMA CleanReplays ==
    ASSUME JournalTypeOK, ChainIntact, NEW n \in 0..Len(journal), NEW front \in [Streams -> Head_],
           HeadsUpTo(journal, n, front), NEW floor \in 0..n,
           NEW start \in [Streams -> Rh], \A t \in Streams : start[t] = front[t].rh,
           \A k \in 1..Len(journal) : k > floor => AsHashed(k),
           NEW i \in (n + 1)..Len(journal)
    PROVE  RowReplays(stored, floor, start, i)
<1> DEFINE s == journal[i].stream
           all == PriorRows(journal, 0, i)
           prior == PriorRows(stored, floor, i)
<1>1. /\ i \in 1..Len(journal) /\ n \in Nat /\ floor \in Nat /\ i > floor /\ Len(journal) \in Nat
      /\ DOMAIN stored = present /\ present \subseteq 1..Len(journal) /\ DOMAIN journal = 1..Len(journal)
  BY StoredIs DEF JournalTypeOK
<1>2. \A k \in 1..Len(journal) : k > floor => /\ k \in present /\ stored[k].stream = journal[k].stream
                                              /\ stored[k].rh = journal[k].rh /\ stored[k].digest = journal[k].digest
  BY <1>1, StoredIs DEF AsHashed, Hashed, present
<1>3. /\ all = {j \in 1..Len(journal) : j < i /\ journal[j].stream = s}
      /\ prior = {j \in 1..Len(journal) : floor < j /\ j < i /\ journal[j].stream = s}
  <2>1. \A j \in 1..Len(journal) : j \in Nat /\ 0 < j
    BY <1>1
  <2>2. all = {j \in 1..Len(journal) : j < i /\ journal[j].stream = s}
    BY <1>1, <2>1 DEF PriorRows
  <2>3. stored[i].stream = s
    BY <1>1, <1>2
  <2>4. \A j : j \in prior <=> j \in 1..Len(journal) /\ floor < j /\ j < i /\ journal[j].stream = s
    BY <1>1, <1>2, <2>3 DEF PriorRows
  <2> HIDE DEF prior
  <2>5. prior = {j \in 1..Len(journal) : floor < j /\ j < i /\ journal[j].stream = s}
    BY <2>4
  <2>6. QED
    BY <2>2, <2>5
<1>4. s \in Streams
  BY <1>1, RowHash
<1>5. \/ all = {} /\ journal[i].rh = ChainHash(Seeds[s], s, i, journal[i].digest)
      \/ \E j \in all : (\A k \in all : k <= j) /\ journal[i].rh = ChainHash(journal[j].rh, s, i, journal[i].digest)
  BY <1>1 DEF ChainIntact, replayVerify, ReplayFrom, RowReplays, Recomputes
<1>6. start[s] = front[s].rh /\ HeadUpTo(journal, n, front[s], s)
  BY <1>4 DEF HeadsUpTo
<1>7. stored[i].stream = s /\ stored[i].rh = journal[i].rh /\ stored[i].digest = journal[i].digest
  BY <1>1, <1>2
<1>8. RowReplays(stored, floor, start, i) <=>
          \/ prior = {} /\ journal[i].rh = ChainHash(start[s], s, i, journal[i].digest)
          \/ \E j \in prior : (\A k \in prior : k <= j) /\ journal[i].rh = ChainHash(stored[j].rh, s, i, journal[i].digest)
  BY <1>7 DEF RowReplays, Recomputes
<1> HIDE DEF s, all, prior
<1>9. CASE prior # {}
  <2>1. PICK j \in all : (\A k \in all : k <= j) /\ journal[i].rh = ChainHash(journal[j].rh, s, i, journal[i].digest)
    BY <1>1, <1>3, <1>5, <1>9
  <2>2. j \in prior /\ (\A k \in prior : k <= j) /\ stored[j].rh = journal[j].rh
    BY <1>1, <1>2, <1>3, <1>9, <2>1
  <2>3. QED
    BY <1>8, <2>1, <2>2
<1>10. CASE prior = {}
  <2>1. \A k \in all : k <= floor
    BY <1>1, <1>3, <1>10
  <2>2. CASE front[s] = NoHead(s) /\ \A k \in 1..n : journal[k].stream # s
    <3>1. all = {}
      BY <1>1, <1>3, <2>1, <2>2
    <3>2. start[s] = Seeds[s]
      BY <1>4, <1>6, <2>2 DEF NoHead, Seeds
    <3>3. QED
      BY <1>5, <1>8, <1>10, <3>1, <3>2
  <2>3. CASE /\ front[s].seq \in 1..n /\ journal[front[s].seq].stream = s
             /\ journal[front[s].seq].rh = front[s].rh
             /\ \A k \in (front[s].seq + 1)..n : journal[k].stream # s
    <3>1. front[s].seq \in all
      BY <1>1, <1>3, <2>3
    <3>2. PICK j \in all : (\A k \in all : k <= j) /\ journal[i].rh = ChainHash(journal[j].rh, s, i, journal[i].digest)
      BY <1>5, <3>1
    <3>3. j = front[s].seq
      BY <1>1, <1>3, <2>1, <2>3, <3>1, <3>2
    <3>4. QED
      BY <1>6, <1>8, <1>10, <2>3, <3>2, <3>3
  <2>4. QED
    BY <1>6, <2>2, <2>3 DEF HeadUpTo
<1>11. QED
  BY <1>9, <1>10

\* HeadUpTo is what HeadAt computes.
LEMMA HeadAtIs ==
    ASSUME NEW log, NEW n \in Nat, NEW s \in Streams, NEW head \in Head_, HeadUpTo(log, n, head, s)
    PROVE  head = HeadAt(log, n, s)
<1> DEFINE own == {i \in 1..n : log[i].stream = s}
<1>1. HeadAt(log, n, s) = IF own = {} THEN NoHead(s) ELSE [seq |-> Max(own), rh |-> log[Max(own)].rh]
  BY DEF HeadAt
<1>2. CASE head = NoHead(s) /\ \A i \in 1..n : log[i].stream # s
  BY <1>1, <1>2
<1>3. CASE /\ head.seq \in 1..n /\ log[head.seq].stream = s /\ log[head.seq].rh = head.rh
           /\ \A i \in (head.seq + 1)..n : log[i].stream # s
  <2>1. head.seq \in own /\ (\A k \in own : head.seq >= k) /\ own \subseteq Nat
    BY <1>3
  <2> HIDE DEF own
  <2>2. Max(own) \in own /\ \A k \in own : Max(own) >= k
    BY <2>1 DEF Max
  <2>3. Max(own) = head.seq
    <3>1. \A x, y \in Nat : x >= y /\ y >= x => x = y
      OBVIOUS
    <3>2. QED
      BY <2>1, <2>2, <3>1
  <2>4. head = [seq |-> head.seq, rh |-> head.rh]
    BY DEF Head_
  <2>5. QED
    BY <1>1, <1>3, <2>1, <2>3, <2>4
<1>4. QED
  BY <1>2, <1>3 DEF HeadUpTo

\* The replay from heads that are not all empty begins after the lowest of them.
LEMMA FloorIsLowest ==
    ASSUME NEW log \in Seq(Row), NEW n \in 0..Len(log), NEW front \in [Streams -> Head_],
           HeadsUpTo(log, n, front), LiveStreams(front) # {}
    PROVE  floorSeq(front) = LowestHead(front) /\ floorSeq(front) \in 0..n
<1> DEFINE live == {front[s].seq : s \in LiveStreams(front)}
<1>1. live # {} /\ live \subseteq 1..n
  <2>1. ASSUME NEW s \in LiveStreams(front) PROVE front[s].seq \in 1..n
    <3>1. s \in Streams /\ front[s].seq # 0 /\ HeadUpTo(log, n, front[s], s)
      BY <2>1 DEF LiveStreams, HeadsUpTo
    <3>2. QED
      BY <3>1 DEF HeadUpTo, NoHead
  <2>2. QED
    BY <2>1
<1>2. floorSeq(front) = IF live = {} THEN 0 ELSE Min(live)
  BY DEF floorSeq
<1>3. LowestHead(front) = Min(live)
  BY DEF LowestHead
<1> HIDE DEF live
<1>4. \E x \in live : \A y \in live : x <= y
  <2>1. live \subseteq Nat
    BY <1>1
  <2>2. QED
    BY <1>1, <2>1, LeastNat
<1>5. Min(live) \in live
  BY <1>4 DEF Min
<1>6. Min(live) \in 1..n
  BY <1>1, <1>5
<1>7. floorSeq(front) = Min(live)
  BY <1>1, <1>2
<1>8. QED
  BY <1>3, <1>6, <1>7

\* A later row does not change the heads before it.
LEMMA AppendKeepsMoments ==
    ASSUME NEW log \in Seq(Row), NEW row \in Row, NEW n \in 0..Len(log), NEW front \in [Streams -> Head_],
           HeadsUpTo(log, n, front)
    PROVE  HeadsUpTo(Append(log, row), n, front)
<1> DEFINE log2 == Append(log, row)
<1>1. \A j \in 1..n : log2[j] = log[j]
  OBVIOUS
<1> HIDE DEF log2
<1>2. ASSUME NEW s \in Streams PROVE HeadUpTo(log2, n, front[s], s)
  <2>1. HeadUpTo(log, n, front[s], s) /\ front[s].seq \in Nat
    BY DEF HeadsUpTo, Head_
  <2>2. QED
    BY <1>1, <2>1 DEF HeadUpTo
<1>3. QED
  BY <1>2 DEF HeadsUpTo, log2

\* A stored checkpoint has the shape of one.
LEMMA CheckpointType ==
    ASSUME BootTypeOK, NEW c \in 1..Len(checkpoints)
    PROVE  checkpoints[c].streams \in [Streams -> Head_]
<1> DEFINE Stamps == Seq([type : AnchorType, digest : Heads])
           Shape == [streams : Heads, sound : BOOLEAN, anchors : Stamps]
<1>1. checkpoints \in Seq(Shape)
  BY DEF BootTypeOK
<1> HIDE DEF Stamps
<1>2. checkpoints[c] \in Shape
  <2> HIDE DEF Shape
  <2>1. QED
    BY <1>1
<1>3. QED
  BY <1>2 DEF Heads

\* The tables of an empty directory are sound.
LEMMA EmptyIsSound ==
    ASSUME journal = <<>>, \A s \in Streams : streamState[s] = NoHead(s), tx = NoTx, checkpoints = <<>>,
           building = NotBuilding
    PROVE  Sound
<1>1. TxConsistent
  BY DEF NoTx, TxConsistent
<1>2. \A i \in 1..Len(journal) : FALSE
  OBVIOUS
<1>3. HeadsMatchRows
  <2>1. \A s \in Streams : HeadAgrees(journal, streamState[s], s)
    BY <1>2 DEF HeadAgrees
  <2>2. QED
    BY <2>1 DEF HeadsMatchRows, HeadsAgree
<1>4. ChainIntact /\ Moments
  BY DEF ChainIntact, replayVerify, ReplayFrom, Moments
<1>5. QED
  BY <1>1, <1>3, <1>4 DEF Sound, NotBuilding

\* Nothing is written and nothing runs.
LEMMA BootStart == Init => BootInv
<1> SUFFICES ASSUME Init PROVE BootInv
  OBVIOUS
<1>1. EmptyHeads \in Heads
  BY NoHeadType DEF EmptyHeads, Heads
<1>2. JournalTypeOK
  BY JournalTypeInit DEF Init
<1>3. BootTypeOK
  BY <1>1, <1>2, BootAssumption DEF Init, InitJournal, BootTypeOK, NotBuilding
<1>4. Sound
  BY EmptyIsSound DEF Init, InitJournal
<1>5. QED
  BY <1>3, <1>4 DEF BootInv

\* The variables are those of the tables and those of the start.
LEMMA AllOf == UNCHANGED bvars =>
                 UNCHANGED <<phase, bootPath, checkpoints, building, quarantined, damaged, astray, boots, faults>>
  BY DEF bvars

\* A checkpoint whose envelope stops verifying has kept its heads.
LEMMA DamagedEnvelope ==
    ASSUME BootTypeOK, DamageCheckpoint
    PROVE  /\ checkpoints' \in Seq([streams : Heads, sound : BOOLEAN,
                                    anchors : Seq([type : AnchorType, digest : Heads])])
           /\ Len(checkpoints') = Len(checkpoints)
           /\ \A c \in 1..Len(checkpoints) : checkpoints'[c].streams = checkpoints[c].streams
<1> DEFINE Stamps == Seq([type : AnchorType, digest : Heads])
           Shape == [streams : Heads, sound : BOOLEAN, anchors : Stamps]
           newest == Len(checkpoints)
<1>1. checkpoints' = [checkpoints EXCEPT ![newest].sound = FALSE]
  BY DEF DamageCheckpoint
<1>2. checkpoints \in Seq(Shape)
  BY DEF BootTypeOK
<1> HIDE DEF Stamps
<1>3. /\ newest \in Nat /\ checkpoints = [k \in 1..newest |-> checkpoints[k]]
      /\ \A k \in 1..newest : checkpoints[k] \in Shape
  <2> HIDE DEF Shape
  <2>1. QED
    BY <1>2
<1>4. \A k \in 1..newest : checkpoints'[k] \in Shape /\ checkpoints'[k].streams = checkpoints[k].streams
  BY <1>1, <1>3
<1>5. checkpoints' \in Seq(Shape) /\ Len(checkpoints') = newest
  <2> HIDE DEF Shape
  <2>1. checkpoints' \in [1..newest -> Shape]
    BY <1>1, <1>3, <1>4
  <2>2. QED
    BY <1>3, <2>1
<1>6. QED
  BY <1>4, <1>5 DEF Shape, Stamps

\* The saved checkpoint has the heads of now, and the others are as they were.
LEMMA SavedCheckpoint ==
    ASSUME BootTypeOK, NEW type \in AnchorType, SaveCheckpoint(type)
    PROVE  /\ checkpoints' \in Seq([streams : Heads, sound : BOOLEAN,
                                    anchors : Seq([type : AnchorType, digest : Heads])])
           /\ Len(checkpoints') = Len(checkpoints) + 1 /\ Len(checkpoints) \in Nat
           /\ checkpoints'[Len(checkpoints) + 1].streams = streamState
           /\ \A c \in 1..Len(checkpoints) : checkpoints'[c] = checkpoints[c]
<1> DEFINE Stamps == Seq([type : AnchorType, digest : Heads])
           Shape == [streams : Heads, sound : BOOLEAN, anchors : Stamps]
           cp == [streams |-> streamState, anchors |-> << [type |-> type, digest |-> building.root] >>, sound |-> TRUE]
<1>1. checkpoints' = Append(checkpoints, cp)
  BY DEF SaveCheckpoint
<1>2. cp.streams = streamState
  OBVIOUS
<1>3. cp \in Shape
  <2>1. streamState \in Heads /\ building.root \in Heads
    BY DEF BootTypeOK, JournalTypeOK, Heads
  <2>2. << [type |-> type, digest |-> building.root] >> \in Stamps
    BY <2>1
  <2> HIDE DEF Stamps
  <2>3. QED
    BY <2>1, <2>2
<1>4. checkpoints \in Seq(Shape)
  BY DEF BootTypeOK
<1> HIDE DEF Shape, cp
<1>5. /\ checkpoints' \in Seq(Shape) /\ Len(checkpoints') = Len(checkpoints) + 1
      /\ checkpoints'[Len(checkpoints) + 1] = cp /\ Len(checkpoints) \in Nat
      /\ \A c \in 1..Len(checkpoints) : checkpoints'[c] = checkpoints[c]
  BY <1>1, <1>3, <1>4
<1>6. QED
  BY <1>2, <1>5 DEF Shape, Stamps

\* Every step leaves values of their kind, whatever was altered before.
LEMMA BootTypeStep == ASSUME BootTypeOK, [Next]_vars PROVE BootTypeOK'
<1> USE BootAssumption
<1>1. NotBuilding \in [live : BOOLEAN, root : Heads] /\ EmptyHeads \in Heads /\ streamState \in Heads
  BY NoHeadType DEF NotBuilding, EmptyHeads, Heads, BootTypeOK, JournalTypeOK
<1>2. UNCHANGED jvars => JournalTypeOK'
  BY DEF jvars, BootTypeOK, JournalTypeOK
<1>3. CASE BootVerified
  <2>1. JournalTypeOK' /\ journal' = journal
    BY <1>2, <1>3 DEF BootVerified, jvars
  <2>2. building' \in [live : BOOLEAN, root : Heads]
    <3>1. [live |-> TRUE, root |-> streamState] \in [live : BOOLEAN, root : Heads]
      BY <1>1
    <3>2. building' = NotBuilding \/ building' = [live |-> TRUE, root |-> streamState]
      BY <1>3 DEF BootVerified, StartBuilding
    <3>3. QED
      BY <1>1, <3>1, <3>2
  <2>3. QED
    BY <1>3, <2>1, <2>2 DEF BootVerified, BootTypeOK
<1>4. CASE BootQuarantined
  <2>1. JournalTypeOK'
    BY <1>1, <1>4, NoTxType DEF BootQuarantined, JournalTypeOK, Heads
  <2>2. quarantined' \subseteq [intact : BOOLEAN]
    <3> DEFINE whole == damaged = {} /\ astray = {}
    <3>1. [intact |-> whole] \in [intact : BOOLEAN]
      BY Zenon
    <3>2. quarantined' = quarantined \cup {[intact |-> whole]}
      BY <1>4 DEF BootQuarantined
    <3>3. QED
      BY <3>1, <3>2, Zenon DEF BootTypeOK
  <2>3. boots' \in 0..MaxBoots /\ faults' \in 0..MaxFaults /\ checkpoints' = <<>>
    BY <1>4 DEF BootQuarantined, BootTypeOK
  <2>4. QED
    BY <1>1, <1>4, <2>1, <2>2, <2>3 DEF BootQuarantined, BootTypeOK
<1>5. ASSUME NEW type \in AnchorType, SaveCheckpoint(type) PROVE BootTypeOK'
  BY <1>1, <1>2, <1>5, SavedCheckpoint DEF SaveCheckpoint, BootTypeOK, jvars
<1>6. CASE Appending
  <2>1. AppendEntry /\ JournalTypeOK'
    BY <1>6, JournalTypeStep DEF Appending, BootTypeOK
  <2>2. QED
    BY <1>6, <2>1, AllOf DEF Appending, BootTypeOK
<1>7. CASE Stop
  <2>1. JournalTypeOK'
    BY <1>7, NoTxType DEF Stop, BootTypeOK, JournalTypeOK
  <2>2. QED
    BY <1>1, <1>7, <2>1 DEF Stop, BootTypeOK
<1>8. ASSUME NEW i \in DOMAIN journal, NEW what \in Damage, DamageRow(i, what) PROVE BootTypeOK'
  <2>1. i \in Nat /\ JournalTypeOK'
    BY <1>2, <1>8 DEF DamageRow, BootTypeOK, JournalTypeOK
  <2>2. damaged' \subseteq Nat \X Damage /\ faults' \in 0..MaxFaults
    BY <1>8, <2>1 DEF DamageRow, BootTypeOK
  <2>3. QED
    BY <1>8, <2>1, <2>2 DEF DamageRow, BootTypeOK
<1>9. ASSUME NEW s \in Streams, NEW gone \in BOOLEAN, DamageHead(s, gone) PROVE BootTypeOK'
  <2>1. NoHead(s) \in Head_ /\ [streamState[s] EXCEPT !.rh = BlankRh] \in Head_
    BY NoHeadType, SeedHash DEF Head_, BootTypeOK, JournalTypeOK
  <2>2. JournalTypeOK'
    BY <1>9, <2>1 DEF DamageHead, BootTypeOK, JournalTypeOK
  <2>3. astray' \subseteq Streams /\ faults' \in 0..MaxFaults
    BY <1>9 DEF DamageHead, BootTypeOK
  <2>4. QED
    BY <1>9, <2>2, <2>3 DEF DamageHead, BootTypeOK
<1>10. CASE DamageCheckpoint
  <2>1. JournalTypeOK' /\ faults' \in 0..MaxFaults
    BY <1>2, <1>10 DEF DamageCheckpoint, BootTypeOK
  <2>2. QED
    BY <1>10, <2>1, DamagedEnvelope DEF DamageCheckpoint, BootTypeOK
<1>11. CASE UNCHANGED vars
  BY <1>2, <1>11, AllOf DEF vars, jvars, BootTypeOK
<1>12. QED
  BY <1>3, <1>4, <1>5, <1>6, <1>7, <1>8, <1>9, <1>10, <1>11 DEF Next

\* A step that leaves the tables alone.
LEMMA TablesAlone ==
    ASSUME Sound, UNCHANGED <<journal, streamState, checkpoints>>, tx' = tx \/ tx' = NoTx,
           building'.live => LiveStreams(streamState) # {}
    PROVE  Sound'
<1>1. TxConsistent'
  <2>1. CASE tx' = tx
    BY <2>1 DEF Sound, TxConsistent, NewRow
  <2>2. CASE tx' = NoTx
    BY <2>2 DEF NoTx, TxConsistent
  <2>3. QED
    BY <2>1, <2>2
<1>2. QED
  BY <1>1 DEF Sound, HeadsMatchRows, ChainIntact, Moments

\* A checkpoint is still a moment after a row more.
LEMMA MomentsStay ==
    ASSUME BootTypeOK, Moments, NEW row \in Row, journal' = Append(journal, row), checkpoints' = checkpoints
    PROVE  Moments'
<1>1. journal \in Seq(Row) /\ Len(journal) \in Nat /\ Len(journal') = Len(journal) + 1
  BY DEF BootTypeOK, JournalTypeOK
<1>2. ASSUME NEW c \in 1..Len(checkpoints)
      PROVE  /\ LiveStreams(checkpoints[c].streams) # {}
             /\ \E n \in 0..Len(journal') : HeadsUpTo(journal', n, checkpoints[c].streams)
  <2>1. checkpoints[c].streams \in [Streams -> Head_]
    BY CheckpointType
  <2>2. PICK n \in 0..Len(journal) : HeadsUpTo(journal, n, checkpoints[c].streams)
    BY DEF Moments
  <2>3. HeadsUpTo(journal', n, checkpoints[c].streams) /\ n \in 0..Len(journal')
    BY <1>1, <2>1, <2>2, AppendKeepsMoments
  <2>4. QED
    BY <2>3 DEF Moments
<1>3. checkpoints' = checkpoints
  OBVIOUS
<1>4. QED
  BY <1>2, <1>3 DEF Moments

\* An append, one statement at a time.
LEMMA AppendingKeeps == ASSUME BootTypeOK, Sound, Appending PROVE Sound'
<1>1. AppendEntry /\ JournalTypeOK /\ JournalTypeOK' /\ checkpoints' = checkpoints /\ building' = building
  BY JournalTypeStep DEF Appending, BootTypeOK, bvars
<1>2. CASE RollbackAppend
  BY <1>1, <1>2, TablesAlone DEF RollbackAppend, Sound
<1>3. CASE \/ \E s \in Streams, d \in Digests : BeginAppend(s, d)
           \/ InsertRow \/ UpdateRh \/ UpsertState
  <2>1. TxConsistent' /\ UNCHANGED <<journal, streamState>>
    BY <1>1, <1>3, TxStep DEF Sound
  <2>2. QED
    BY <1>1, <2>1 DEF Sound, HeadsMatchRows, ChainIntact, Moments
<1>4. CASE CommitAppend
  <2>1. ChainIntact' /\ HeadsMatchRows' /\ TxConsistent'
    BY <1>1, <1>4, CommitStep DEF Sound
  <2>2. /\ NewRow \in Row /\ journal' = Append(journal, NewRow)
        /\ streamState' = [streamState EXCEPT ![tx.stream] = [seq |-> Len(journal) + 1, rh |-> NewRow.rh]]
    BY <1>1, <1>4, CommitWrites DEF Sound
  <2>3. Moments'
    BY <1>1, <2>2, MomentsStay DEF Sound
  <2>4. tx.stream \in Streams /\ streamState \in [Streams -> Head_] /\ Len(journal) + 1 # 0
    BY <1>1 DEF JournalTypeOK
  <2>5. LiveStreams(streamState') # {}
    BY <2>2, <2>4 DEF LiveStreams
  <2>6. QED
    BY <2>1, <2>3, <2>5 DEF Sound, LiveStreams
<1>5. QED
  BY <1>1, <1>2, <1>3, <1>4 DEF AppendEntry

\* The heads a checkpoint signs are those of the whole journal at the moment it
\* is saved, which is not the moment its digest was taken.
LEMMA SaveKeeps == ASSUME BootTypeOK, Sound, NEW type \in AnchorType, SaveCheckpoint(type) PROVE Sound'
<1>1. UNCHANGED <<journal, streamState, tx>> /\ building.live /\ building' = NotBuilding
  BY DEF SaveCheckpoint, jvars
<1>2. /\ Len(checkpoints') = Len(checkpoints) + 1 /\ Len(checkpoints) \in Nat
      /\ checkpoints'[Len(checkpoints) + 1].streams = streamState
      /\ \A c \in 1..Len(checkpoints) : checkpoints'[c] = checkpoints[c]
  BY SavedCheckpoint
<1>3. HeadsUpTo(journal, Len(journal), streamState) /\ Len(journal) \in 0..Len(journal)
  BY DEF Sound, HeadsMatchRows, HeadsAgree, HeadAgrees, HeadsUpTo, HeadUpTo, BootTypeOK, JournalTypeOK
<1>4. Moments'
  <2>1. ASSUME NEW c \in 1..Len(checkpoints')
        PROVE  /\ LiveStreams(checkpoints'[c].streams) # {}
               /\ \E n \in 0..Len(journal) : HeadsUpTo(journal, n, checkpoints'[c].streams)
    <3>1. CASE c \in 1..Len(checkpoints)
      BY <1>2, <3>1 DEF Sound, Moments
    <3>2. CASE c = Len(checkpoints) + 1
      BY <1>1, <1>2, <1>3, <3>2 DEF Sound
    <3>3. QED
      BY <1>2, <3>1, <3>2
  <2>2. journal' = journal
    BY <1>1
  <2>3. QED
    BY <2>1, <2>2 DEF Moments
<1>5. TxConsistent' /\ HeadsMatchRows' /\ ChainIntact' /\ building'.live = FALSE
  BY <1>1 DEF Sound, TxConsistent, NewRow, HeadsMatchRows, ChainIntact, NotBuilding
<1>6. QED
  BY <1>4, <1>5 DEF Sound

\* A checkpoint that no longer verifies has kept its heads.
LEMMA DamageCheckpointKeeps == ASSUME BootTypeOK, Sound, DamageCheckpoint PROVE Sound'
<1>1. UNCHANGED <<journal, streamState, tx, building>>
  BY DEF DamageCheckpoint, jvars
<1>2. Moments'
  BY <1>1, DamagedEnvelope DEF Sound, Moments
<1>3. QED
  BY <1>1, <1>2 DEF Sound, TxConsistent, NewRow, HeadsMatchRows, ChainIntact

\* Every step keeps the tables sound until stream_state is altered.
LEMMA BootStep == BootInv /\ [Next]_vars => BootInv'
<1> SUFFICES ASSUME BootInv, [Next]_vars PROVE BootInv'
  OBVIOUS
<1>1. BootTypeOK /\ BootTypeOK'
  BY BootTypeStep DEF BootInv
<1> SUFFICES ASSUME astray' = {} PROVE Sound'
  BY <1>1 DEF BootInv
<1>2. CASE BootQuarantined
  <2>1. /\ journal' = <<>> /\ \A s \in Streams : streamState'[s] = NoHead(s)
        /\ tx' = NoTx /\ checkpoints' = <<>> /\ building' = NotBuilding
    BY <1>2 DEF BootQuarantined, EmptyHeads
  <2>2. TxConsistent'
    BY <2>1 DEF NoTx, TxConsistent
  <2>3. HeadsMatchRows'
    <3>1. \A i \in 1..Len(journal') : FALSE
      BY <2>1
    <3>2. \A s \in Streams : HeadAgrees(journal', streamState'[s], s)
      BY <2>1, <3>1 DEF HeadAgrees
    <3>3. QED
      BY <3>2 DEF HeadsMatchRows, HeadsAgree
  <2>4. ChainIntact' /\ Moments'
    BY <2>1 DEF ChainIntact, replayVerify, ReplayFrom, Moments
  <2>5. QED
    BY <2>1, <2>2, <2>3, <2>4 DEF Sound, NotBuilding
<1>3. CASE ~BootQuarantined
  <2>1. astray \subseteq astray'
    BY <1>3, AllOf DEF Next, BootVerified, SaveCheckpoint, Appending, Stop, DamageRow, DamageHead,
                       DamageCheckpoint, vars
  <2>2. Sound
    BY <2>1 DEF BootInv
  <2>3. CASE BootVerified
    <3>1. building'.live => LiveStreams(streamState) # {}
      BY <2>3 DEF BootVerified, StartBuilding, NotBuilding
    <3>2. QED
      BY <2>2, <2>3, <3>1, TablesAlone DEF BootVerified, jvars
  <2>4. CASE \E type \in AnchorType : AnchorOutcome(type) /\ SaveCheckpoint(type)
    BY <1>1, <2>2, <2>4, SaveKeeps
  <2>5. CASE Appending
    BY <1>1, <2>2, <2>5, AppendingKeeps
  <2>6. CASE Stop
    BY <2>2, <2>6, TablesAlone DEF Stop, NotBuilding
  <2>7. CASE \E i \in DOMAIN journal, what \in Damage : DamageRow(i, what)
    BY <2>2, <2>7, TablesAlone DEF DamageRow, jvars, Sound
  <2>8. CASE \E s \in Streams, gone \in BOOLEAN : DamageHead(s, gone)
    BY <2>8 DEF DamageHead
  <2>9. CASE DamageCheckpoint
    BY <1>1, <2>2, <2>9, DamageCheckpointKeeps
  <2>10. CASE UNCHANGED vars
    BY <2>2, <2>10, AllOf, TablesAlone DEF vars, jvars, Sound
  <2>11. QED
    BY <1>3, <2>3, <2>4, <2>5, <2>6, <2>7, <2>8, <2>9, <2>10 DEF Next
<1>4. QED
  BY <1>2, <1>3

\* The heads a checkpoint signs are all the heads of one prefix of the journal, for any
\* streams, however many rows were appended while it waited for its anchor and whatever
\* was damaged on disk, as long as stream_state was not.
THEOREM CheckpointsAreMoments == Spec => []CheckpointIsOneMoment
<1>1. BootInv => CheckpointIsOneMoment
  <2> SUFFICES ASSUME BootInv, astray = {}, NEW c \in 1..Len(checkpoints)
               PROVE  \E n \in 0..Len(journal) : \A s \in Streams : checkpoints[c].streams[s] = HeadAt(journal, n, s)
    BY DEF CheckpointIsOneMoment
  <2>1. checkpoints[c].streams \in [Streams -> Head_]
    BY CheckpointType DEF BootInv
  <2>2. PICK n \in 0..Len(journal) : HeadsUpTo(journal, n, checkpoints[c].streams)
    BY DEF BootInv, Sound, Moments
  <2>3. n \in Nat
    BY DEF BootInv, BootTypeOK, JournalTypeOK
  <2>4. ASSUME NEW s \in Streams PROVE checkpoints[c].streams[s] = HeadAt(journal, n, s)
    <3>1. checkpoints[c].streams[s] \in Head_ /\ HeadUpTo(journal, n, checkpoints[c].streams[s], s)
      BY <2>1, <2>2 DEF HeadsUpTo
    <3>2. QED
      BY <2>3, <3>1, HeadAtIs
  <2>5. QED
    BY <2>4
<1>2. QED
  BY <1>1, BootStart, BootStep, PTL DEF Spec

\* A start on the fast path replays from the heads of a moment, beginning after
\* the lowest of them; a full start replays from the moment before the first row.
LEMMA ReplayBase ==
    ASSUME BootTypeOK, Sound
    PROVE  \E n \in 0..Len(journal), front \in [Streams -> Head_], floor \in Nat, start \in [Streams -> Rh] :
             /\ floor \in 0..n /\ HeadsUpTo(journal, n, front) /\ \A t \in Streams : start[t] = front[t].rh
             /\ Verified <=> ReplayFrom(stored, floor, start)
             /\ canFastPath => front = latestCheckpoint.streams /\ floor = LowestHead(front)
             /\ ~canFastPath => n = 0
<1>1. journal \in Seq(Row) /\ Len(journal) \in Nat
  BY DEF BootTypeOK, JournalTypeOK
<1>2. CASE canFastPath
  <2> DEFINE c == Len(checkpoints)
             front == checkpoints[c].streams
  <2>1. c \in 1..Len(checkpoints)
    <3> DEFINE Shape == [streams : Heads, sound : BOOLEAN, anchors : Seq([type : AnchorType, digest : Heads])]
    <3>1. checkpoints \in Seq(Shape) /\ checkpoints # <<>>
      BY <1>2 DEF canFastPath, BootTypeOK
    <3> HIDE DEF Shape
    <3>2. QED
      BY <3>1
  <2>2. front \in [Streams -> Head_] /\ LiveStreams(front) # {}
    BY <2>1, CheckpointType DEF Sound, Moments
  <2>3. PICK n \in 0..Len(journal) : HeadsUpTo(journal, n, front)
    BY <2>1 DEF Sound, Moments
  <2>4. front = latestCheckpoint.streams
    BY DEF latestCheckpoint
  <2> DEFINE start == [s \in Streams |-> front[s].rh]
  <2>5. Verified <=> ReplayFrom(stored, floorSeq(front), start)
    BY <1>2, <2>4 DEF Verified, replayVerifyFrom
  <2> HIDE DEF front
  <2>10. start \in [Streams -> Rh] /\ \A t \in Streams : start[t] = front[t].rh
    BY <2>2 DEF Head_
  <2> HIDE DEF start
  <2>6. floorSeq(front) = LowestHead(front) /\ floorSeq(front) \in 0..n
    BY <1>1, <2>2, <2>3, FloorIsLowest
  <2>7. floorSeq(front) \in Nat
    BY <2>6
  <2>8. QED
    BY <1>2, <2>2, <2>3, <2>4, <2>5, <2>6, <2>7, <2>10
<1>3. CASE ~canFastPath
  <2>1. EmptyHeads \in [Streams -> Head_] /\ HeadsUpTo(journal, 0, EmptyHeads)
    BY NoHeadType DEF EmptyHeads, HeadsUpTo, HeadUpTo
  <2>2. Seeds \in [Streams -> Rh] /\ \A t \in Streams : Seeds[t] = EmptyHeads[t].rh
    BY NoHeadType DEF EmptyHeads, NoHead, Seeds, Head_
  <2>3. Verified <=> ReplayFrom(stored, 0, Seeds)
    BY <1>3 DEF Verified, replayVerify
  <2>4. 0 \in 0..Len(journal) /\ 0 \in 0..0
    BY <1>1
  <2>5. QED
    BY <1>3, <2>1, <2>2, <2>3, <2>4
<1>4. QED
  BY <1>2, <1>3

\* The head of a stream covers the rows of the stream up to the moment, and no other.
LEMMA HeadCovers ==
    ASSUME NEW log \in Seq(Row), NEW n \in 0..Len(log), NEW front \in [Streams -> Head_],
           HeadsUpTo(log, n, front), NEW i \in 1..Len(log)
    PROVE  i <= n <=> i <= front[log[i].stream].seq
<1>1. log[i] \in Row /\ n \in Nat /\ i \in Nat
  OBVIOUS
<1>2. log[i].stream \in Streams
  BY <1>1 DEF Row
<1>3. HeadUpTo(log, n, front[log[i].stream], log[i].stream)
  BY <1>2 DEF HeadsUpTo
<1>4. QED
  BY <1>1, <1>3 DEF HeadUpTo, NoHead

\* A start never serves a row that is not as it was hashed, unless the newest sound
\* checkpoint vouches for it or the end of its stream is gone, and sets a state directory
\* aside only for altered heads, for a row from the replay's start on that is not as it
\* was hashed, or for a row that the checkpoint covers and the head of another stream
\* makes it recompute: for any streams and faults.
THEOREM StartsJustified == Spec => StartsAreJustified
<1>1. ASSUME BootInv, BootVerified, astray = {}, NEW i \in DOMAIN journal
      PROVE  AsHashed(i) \/ Trusted(i) \/ CutOff(i)
  <2>0. BootTypeOK /\ Sound /\ ChainIntact /\ JournalTypeOK
    BY <1>1 DEF BootInv, Sound, BootTypeOK
  <2>1. PICK n \in 0..Len(journal), front \in [Streams -> Head_], floor \in Nat, start \in [Streams -> Rh] :
             /\ floor \in 0..n /\ HeadsUpTo(journal, n, front) /\ \A t \in Streams : start[t] = front[t].rh
             /\ Verified <=> ReplayFrom(stored, floor, start)
             /\ canFastPath => front = latestCheckpoint.streams /\ floor = LowestHead(front)
             /\ ~canFastPath => n = 0
    BY <2>0, ReplayBase
  <2>2. journal \in Seq(Row) /\ i \in 1..Len(journal) /\ i \in Nat /\ n \in Nat /\ Len(journal) \in Nat
    BY <1>1, <2>0 DEF JournalTypeOK
  <2>3. CASE i > n
    <3>1. i \in (n + 1)..Len(journal) /\ ReplayFrom(stored, floor, start)
      BY <1>1, <2>1, <2>2, <2>3 DEF BootVerified
    <3>2. QED
      BY <2>0, <2>1, <3>1, ServedIsHashed
  <2>4. CASE i <= n
    <3>1. canFastPath
      BY <2>1, <2>2, <2>4
    <3>2. HeadsUpTo(journal, n, front) /\ front = latestCheckpoint.streams
      BY <2>1, <3>1
    <3>3. i <= front[journal[i].stream].seq
      BY <2>2, <2>4, <3>2, HeadCovers
    <3>4. QED
      BY <3>1, <3>2, <3>3 DEF Trusted
  <2>5. QED
    BY <2>2, <2>3, <2>4
<1>2. ASSUME BootInv, BootQuarantined, astray = {}
      PROVE  \/ \E i \in DOMAIN journal : ~AsHashed(i) /\ (canFastPath => i > LowestHead(latestCheckpoint.streams))
             \/ \E i \in DOMAIN journal : Trusted(i) /\ i > LowestHead(latestCheckpoint.streams)
  <2>0. BootTypeOK /\ Sound /\ ChainIntact /\ JournalTypeOK
    BY <1>2 DEF BootInv, Sound, BootTypeOK
  <2>1. PICK n \in 0..Len(journal), front \in [Streams -> Head_], floor \in Nat, start \in [Streams -> Rh] :
             /\ floor \in 0..n /\ HeadsUpTo(journal, n, front) /\ \A t \in Streams : start[t] = front[t].rh
             /\ Verified <=> ReplayFrom(stored, floor, start)
             /\ canFastPath => front = latestCheckpoint.streams /\ floor = LowestHead(front)
             /\ ~canFastPath => n = 0
    BY <2>0, ReplayBase
  <2>2. /\ journal \in Seq(Row) /\ Len(journal) \in Nat /\ n \in Nat /\ DOMAIN journal = 1..Len(journal)
        /\ DOMAIN stored = present /\ present \subseteq 1..Len(journal)
    BY <2>0, StoredIs DEF JournalTypeOK
  <2>3. PICK i \in present : i > floor /\ ~RowReplays(stored, floor, start, i)
    BY <1>2, <2>1, <2>2 DEF BootQuarantined, ReplayFrom
  <2>4. i \in 1..Len(journal) /\ i \in Nat
    BY <2>2
  <2>5. CASE i > n
    <3>1. PICK k \in 1..Len(journal) : k > floor /\ ~AsHashed(k)
      <4>1. i \in (n + 1)..Len(journal)
        BY <2>2, <2>4, <2>5
      <4> SUFFICES ASSUME \A k \in 1..Len(journal) : k > floor => AsHashed(k) PROVE FALSE
        OBVIOUS
      <4>2. QED
        BY <2>0, <2>1, <2>3, <4>1, CleanReplays
    <3>2. canFastPath => k > LowestHead(latestCheckpoint.streams)
      BY <2>1, <3>1
    <3>3. QED
      BY <2>2, <3>1, <3>2
  <2>6. CASE i <= n
    <3>1. canFastPath
      BY <2>1, <2>2, <2>4, <2>6
    <3>2. HeadsUpTo(journal, n, front) /\ front = latestCheckpoint.streams /\ floor = LowestHead(front)
      BY <2>1, <3>1
    <3>3. i <= front[journal[i].stream].seq
      BY <2>2, <2>4, <2>6, <3>2, HeadCovers
    <3>4. Trusted(i) /\ i > LowestHead(latestCheckpoint.streams)
      BY <2>3, <3>1, <3>2, <3>3 DEF Trusted
    <3>5. QED
      BY <2>2, <2>4, <3>4
  <2>7. QED
    BY <2>2, <2>4, <2>5, <2>6
<1>3. BootInv /\ [Next]_vars =>
        [BootVerified /\ astray = {} => \A i \in DOMAIN journal : AsHashed(i) \/ Trusted(i) \/ CutOff(i)]_vars
  BY <1>1
<1>4. BootInv /\ [Next]_vars =>
        [BootQuarantined =>
           \/ astray # {}
           \/ \E i \in DOMAIN journal : ~AsHashed(i) /\ (canFastPath => i > LowestHead(latestCheckpoint.streams))
           \/ \E i \in DOMAIN journal : Trusted(i) /\ i > LowestHead(latestCheckpoint.streams)]_vars
  BY <1>2
<1>5. QED
  BY <1>3, <1>4, BootStart, BootStep, PTL DEF Spec, StartsAreJustified, ServesOnlyVerifiedRows,
     QuarantineHasCause
-----------------------------------------------------------------------------
(* Keys. While one process sets up the passphrase every other is off, so   *)
(* what it has read is what is stored; once the passphrase is settled it   *)
(* is never written again. A blob is written only with a passphrase that   *)
(* was read back from where the index says it is.                          *)

SealedBlob == [phrase : 0..(MaxMints + 1), by : Proc]
Place == {"off", "ref", "look", "set", "index", "verify", "delete", "deleteFile", "unindex", "shred",
          "blob", "done", "up", "hash", "head", "serving"}
Loaded == {"blob", "done", "up", "hash", "head", "serving"}

StoreOK ==
    /\ label \in Proc \cup {None} /\ legacy \in {0, None}
    /\ secret \in [Tier -> [Proc -> Pass \cup {None}]] /\ index \in [Proc -> Tier \cup {None}]
    /\ blob \in [File -> SealedBlob \cup {None}]

LocalsOK ==
    /\ pc \in [Proc -> Place] /\ want \in [Proc -> File]
    /\ ref \in [Proc -> Proc \cup {None}] /\ phrase \in [Proc -> Pass \cup {None}]
    /\ idx \in [Proc -> [Proc -> Tier \cup {None}]] /\ tier \in [Proc -> Tier \cup {None}]

IdentityTypeOK == StoreOK /\ LocalsOK /\ mints \in 0..MaxMints

\* The value the index points to.
Indexed == secret[index[label]][label]
Ready == settled /\ Indexed # None

\* What a process relies on, by where it is.
ReliesOn(p) ==
    /\ pc[p] = "ref" => label = None /\ ref[p] = p
    /\ pc[p] \in {"look", "set", "index", "verify", "delete", "deleteFile", "unindex", "shred"} =>
          label # None /\ ref[p] = label
    /\ pc[p] \in {"set", "index"} => index[label] = None /\ idx[p] = index
    /\ pc[p] \in {"set", "index", "verify"} =>
          phrase[p] \in Pass /\ (legacy = None => noCiphertext(blob)) /\ (legacy # None => phrase[p] = 0)
    /\ pc[p] = "index" => tier[p] \in Tier
    /\ pc[p] = "verify" => index[label] # None
    /\ pc[p] \in {"delete", "deleteFile", "unindex"} =>
          index[label] # None /\ idx[p] = index /\ (legacy = None => noCiphertext(blob))
    /\ pc[p] = "shred" => legacy # None /\ index[label] # None /\ Indexed = 0 /\ phrase[p] = 0
    /\ pc[p] \in Loaded => Ready
    /\ pc[p] = "blob" => phrase[p] = Indexed

Alone == \A p \in Proc : settingUp(p) => \A q \in Proc \ {p} : pc[q] = "off"

StoreInv ==
    /\ legacy # None => /\ \A t \in Tier, r \in Proc : secret[t][r] \in {None, 0}
                        /\ \A f \in File : blob[f] # None => blob[f].phrase = 0
    /\ legacy = None => \A f \in File :
          blob[f] # None /\ blob[f].phrase # Lost => Ready /\ blob[f].phrase = Indexed

SealInv == IdentityTypeOK /\ Alone /\ StoreInv /\ \A p \in Proc : ReliesOn(p)

\* The chain: what the snapshot in the making may be appended to.
ChainInv ==
    /\ rows \in Nat /\ captured \in Nat /\ snaps \in Seq(Nat)
    /\ heads \in Seq([root : Nat, signer : SealedBlob])
    /\ captured <= rows /\ \A i \in DOMAIN snaps : snaps[i] <= rows
    /\ pc[Daemon] = "hash" => \A i \in DOMAIN snaps : snaps[i] <= captured
    /\ pc[Daemon] = "head" => Len(snaps) > 0 /\ \A i \in DOMAIN heads : heads[i].root < Len(snaps)
    /\ pc[Daemon] \in {"up", "hash", "head", "serving"} => blob["ha"] # None
    /\ HeadsFollowSnapshots

\* Numbers, processes, tiers and blobs are not the missing value.
LEMMA NoneIsNone ==
    /\ None \notin Pass /\ None \notin Proc /\ None \notin Tier /\ None \notin SealedBlob
    /\ 0 \in Pass /\ Daemon \in Proc /\ Lost \notin Pass /\ Lost \in Nat
    /\ Pass \subseteq 0..(MaxMints + 1)
<1>1. MaxMints \in Nat /\ None \notin 0..(MaxMints + 1)
  BY IdentityAssumption
<1>2. Pass \subseteq 0..(MaxMints + 1) /\ 0 \in Pass /\ Lost \notin Pass /\ Lost \in Nat
  BY <1>1 DEF Pass, Lost
<1>3. None \notin SealedBlob /\ None \notin Proc /\ None \notin Tier /\ Daemon \in Proc
  BY IdentityAssumption DEF SealedBlob, Proc
<1>4. QED
  BY <1>1, <1>2, <1>3

\* The locals of the other processes.
OthersAlone(p) ==
    \A q \in Proc \ {p} : /\ pc'[q] = pc[q] /\ ref'[q] = ref[q] /\ phrase'[q] = phrase[q]
                          /\ idx'[q] = idx[q] /\ tier'[q] = tier[q]

\* A step of one process that writes none of the files.
LEMMA LocalStep ==
    ASSUME SealInv, NEW p \in Proc, UNCHANGED store, LocalsOK', mints' \in 0..MaxMints, OthersAlone(p),
           ReliesOn(p)', pc[p] # "off" \/ \A q \in Proc : ~settingUp(q),
           settingUp(p)' => \A q \in Proc \ {p} : pc[q] = "off"
    PROVE  SealInv'
<1>1. UNCHANGED <<label, legacy, secret, index, blob>>
  BY DEF store
<1>2. IdentityTypeOK' /\ StoreInv'
  BY <1>1 DEF SealInv, IdentityTypeOK, StoreOK, StoreInv, Ready, settled, Indexed
<1>3. Alone'
  <2> SUFFICES ASSUME NEW q \in Proc, settingUp(q)', NEW r \in Proc \ {q} PROVE pc'[r] = "off"
    BY DEF Alone
  <2>1. CASE q = p
    BY <2>1 DEF OthersAlone
  <2>2. CASE q # p
    <3>1. settingUp(q)
      BY <1>1, <2>2 DEF OthersAlone, settingUp, provisional, settled
    <3>2. pc[p] = "off" /\ \A u \in Proc \ {q} : pc[u] = "off"
      BY <2>2, <3>1 DEF SealInv, Alone
    <3>3. QED
      BY <3>1, <3>2
  <2>3. QED
    BY <2>1, <2>2
<1>4. ASSUME NEW q \in Proc PROVE ReliesOn(q)'
  <2>1. CASE q = p
    BY <2>1
  <2>2. CASE q # p
    <3>1. ReliesOn(q) /\ pc'[q] = pc[q] /\ ref'[q] = ref[q] /\ phrase'[q] = phrase[q] /\ idx'[q] = idx[q] /\ tier'[q] = tier[q]
      BY <2>2 DEF SealInv, OthersAlone
    <3>2. QED
      BY <1>1, <3>1 DEF ReliesOn, Ready, settled, Indexed, noCiphertext
  <2>3. QED
    BY <2>1, <2>2
<1>5. QED
  BY <1>2, <1>3, <1>4 DEF SealInv

\* A step of a process that sets up the passphrase, while all others are off.
LEMMA SetupStep ==
    ASSUME SealInv, NEW p \in Proc, settingUp(p), StoreOK', LocalsOK', mints' \in 0..MaxMints, OthersAlone(p),
           StoreInv', ReliesOn(p)'
    PROVE  SealInv'
<1>1. \A q \in Proc \ {p} : pc'[q] = "off"
  BY DEF SealInv, Alone, OthersAlone
<1>2. \A q \in Proc \ {p} : ReliesOn(q)' /\ ~settingUp(q)'
  BY <1>1 DEF ReliesOn, settingUp, provisional, Loaded
<1>3. Alone'
  BY <1>1, <1>2 DEF Alone
<1>4. QED
  BY <1>2, <1>3 DEF SealInv, IdentityTypeOK

\* A process ends or dies.
LEMMA OffStep ==
    ASSUME LocalsOK, NEW p \in Proc, off(p)
    PROVE  LocalsOK' /\ OthersAlone(p) /\ pc'[p] = "off" /\ ReliesOn(p)' /\ ~settingUp(p)'
<1>1. pc'[p] = "off"
  BY DEF off, LocalsOK
<1>2. LocalsOK'
  BY DEF off, set, LocalsOK, Place, File
<1>3. OthersAlone(p)
  BY DEF off, set, LocalsOK, OthersAlone
<1>4. QED
  BY <1>1, <1>2, <1>3 DEF ReliesOn, settingUp, provisional, Loaded

\* Nobody has begun.
LEMMA SealStart == IdentityInit => SealInv
<1> SUFFICES ASSUME IdentityInit PROVE SealInv
  OBVIOUS
<1>1. StoreOK
  <2>1. blob \in [File -> SealedBlob \cup {None}]
    <3>1. [phrase |-> 0, by |-> Daemon] \in SealedBlob /\ [phrase |-> Lost, by |-> Daemon] \in SealedBlob
      BY NoneIsNone, IdentityAssumption DEF SealedBlob, Lost
    <3>2. QED
      BY <3>1 DEF IdentityInit
  <2>2. label \in Proc \cup {None} /\ legacy \in {0, None}
    BY NoneIsNone DEF IdentityInit
  <2>3. secret \in [Tier -> [Proc -> Pass \cup {None}]] /\ index \in [Proc -> Tier \cup {None}]
    BY DEF IdentityInit
  <2>4. QED
    BY <2>1, <2>2, <2>3 DEF StoreOK
<1>2. LocalsOK /\ mints \in 0..MaxMints /\ \A p \in Proc : pc[p] = "off"
  BY IdentityAssumption DEF IdentityInit, LocalsOK, Place, File
<1>3. Alone /\ \A p \in Proc : ReliesOn(p)
  BY <1>2 DEF Alone, settingUp, provisional, ReliesOn, Loaded
<1>4. StoreInv
  <2>1. \A t \in Tier, r \in Proc : secret[t][r] = None
    BY DEF IdentityInit
  <2>2. CASE legacy # None
    <3>1. \A f \in File : blob[f] # None => blob[f].phrase = 0
      BY <2>2 DEF IdentityInit
    <3>2. QED
      BY <2>1, <2>2, <3>1 DEF StoreInv
  <2>3. CASE legacy = None
    <3>1. \A f \in File : blob[f] = None \/ blob[f].phrase = Lost
      BY <2>3, NoneIsNone DEF IdentityInit
    <3>2. QED
      BY <2>3, <3>1 DEF StoreInv
  <2>4. QED
    BY <2>2, <2>3
<1>5. QED
  BY <1>1, <1>2, <1>3, <1>4 DEF SealInv, IdentityTypeOK

\* While the passphrase is not settled, a process that is not setting it up is off.
LEMMA Unsettled ==
    ASSUME SealInv, ~settled
    PROVE  \A q \in Proc : settingUp(q) \/ pc[q] = "off"
<1> SUFFICES ASSUME NEW q \in Proc PROVE settingUp(q) \/ pc[q] = "off"
  OBVIOUS
<1>1. pc[q] \in Place /\ ReliesOn(q)
  BY DEF SealInv, IdentityTypeOK, LocalsOK
<1>2. pc[q] \notin Loaded
  BY <1>1 DEF ReliesOn, Ready
<1>3. QED
  BY <1>1, <1>2 DEF Place, Loaded, settingUp, provisional

\* Looking up the ref.
LEMMA LookUp ==
    ASSUME SealInv, NEW p \in Proc, lookUpRef(p), UNCHANGED <<phrase, idx, tier>>, want' \in [Proc -> File]
    PROVE  /\ LocalsOK' /\ OthersAlone(p)
           /\ label = None => pc'[p] = "ref" /\ ref'[p] = p
           /\ label # None => pc'[p] = "look" /\ ref'[p] = label
<1>1. LocalsOK /\ label \in Proc \cup {None}
  BY DEF SealInv, IdentityTypeOK, StoreOK
<1>2. QED
  BY <1>1 DEF lookUpRef, set, LocalsOK, OthersAlone, Place

\* A load begins when no other sets up the passphrase: it reads the ref in use.
LEMMA StartLoadKeeps ==
    ASSUME SealInv, ~LoadsOverlap, NEW p \in Proc, StartLoad(p)
    PROVE  SealInv'
<1>1. /\ pc[p] = "off" /\ lookUpRef(p) /\ (\A q \in Proc : ~settingUp(q))
      /\ UNCHANGED <<store, want, phrase, idx, tier, mints>>
  BY DEF StartLoad
<1>2. UNCHANGED <<label, legacy, secret, index, blob>>
  BY <1>1 DEF store
<1>3. want \in [Proc -> File] /\ mints \in 0..MaxMints
  BY DEF SealInv, IdentityTypeOK, LocalsOK
<1>4. /\ LocalsOK' /\ OthersAlone(p)
      /\ label = None => pc'[p] = "ref" /\ ref'[p] = p
      /\ label # None => pc'[p] = "look" /\ ref'[p] = label
  BY <1>1, <1>3, LookUp
<1>5. ReliesOn(p)'
  BY <1>2, <1>4 DEF ReliesOn, Loaded
<1>6. settingUp(p)' => \A q \in Proc \ {p} : pc[q] = "off"
  <2>1. settingUp(p)' => ~settled
    BY <1>2, <1>4 DEF settingUp, provisional, settled
  <2>2. QED
    BY <1>1, <2>1, Unsettled
<1>7. QED
  BY <1>1, <1>3, <1>4, <1>5, <1>6, LocalStep

\* The first process to look draws the ref.
LEMMA RefKeeps == ASSUME SealInv, NEW p \in Proc, passphraseRef(p) PROVE SealInv'
<1>1. /\ pc[p] = "ref" /\ pc' = [pc EXCEPT ![p] = "look"] /\ label' = p
      /\ UNCHANGED <<legacy, secret, index, blob, want, ref, phrase, idx, tier, mints>>
  BY DEF passphraseRef, go, locals, counters
<1>2. StoreOK /\ LocalsOK /\ mints \in 0..MaxMints /\ ReliesOn(p) /\ StoreInv
  BY DEF SealInv, IdentityTypeOK
<1>3. label = None /\ ref[p] = p /\ p # None
  BY <1>1, <1>2, NoneIsNone DEF ReliesOn
<1>4. settingUp(p) /\ ~settled
  BY <1>1, <1>3 DEF settingUp, provisional, settled
<1>5. StoreOK' /\ LocalsOK' /\ OthersAlone(p) /\ pc'[p] = "look" /\ mints' \in 0..MaxMints
  BY <1>1, <1>2 DEF StoreOK, LocalsOK, OthersAlone, Place
<1>6. StoreInv'
  BY <1>1, <1>2, <1>4 DEF StoreInv, Ready
<1>7. ReliesOn(p)'
  BY <1>1, <1>3, <1>5 DEF ReliesOn, Loaded
<1>8. QED
  BY <1>4, <1>5, <1>6, <1>7, SetupStep

\* What the indexed tier answers is what it holds.
LEMMA Strict ==
    ASSUME StoreOK, label # None, index[label] # None, vaultGetStrict(label) # None
    PROVE  vaultGetStrict(label) = Indexed /\ Indexed \in Pass
<1>1. vaultGetStrict(label) = fetch(index[label], label)
  BY DEF vaultGetStrict
<1>2. fetch(index[label], label) = Indexed
  BY <1>1 DEF fetch, Indexed
<1>3. label \in Proc /\ index[label] \in Tier
  BY DEF StoreOK
<1>4. Indexed \in Pass \cup {None}
  BY <1>3 DEF Indexed, StoreOK
<1>5. QED
  BY <1>1, <1>2, <1>4

\* A process that has looked goes on with what is stored, or ends.
LEMMA LookKeeps ==
    ASSUME SealInv, NEW p \in Proc,
           LoadMigrated(p) \/ AdoptLegacy(p) \/ MintPassphrase(p)
    PROVE  SealInv'
<1>1. UNCHANGED <<store, want, ref, tier>> /\ pc[p] = "look"
  BY DEF LoadMigrated, AdoptLegacy, MintPassphrase
<1>2. UNCHANGED <<label, legacy, secret, index, blob>>
  BY <1>1 DEF store
<1>3. StoreOK /\ LocalsOK /\ mints \in 0..MaxMints /\ ReliesOn(p) /\ StoreInv
  BY DEF SealInv, IdentityTypeOK
<1>4. label # None /\ ref[p] = label /\ label \in Proc /\ legacy \in {0, None} /\ None # 0
  BY <1>1, <1>3, NoneIsNone DEF ReliesOn, StoreOK
<1>5. CASE LoadMigrated(p)
  <2> DEFINE v == vaultGetStrict(label)
  <2>1. /\ index[label] # None /\ v # None /\ UNCHANGED <<idx, mints>>
        /\ pc' = [pc EXCEPT ![p] = IF legacy = None THEN "blob" ELSE "shred"] /\ phrase' = [phrase EXCEPT ![p] = v]
    BY <1>4, <1>5 DEF LoadMigrated, set, counters
  <2>2. v = Indexed /\ v \in Pass
    BY <1>3, <1>4, <2>1, Strict
  <2> HIDE DEF v
  <2>3. LocalsOK' /\ OthersAlone(p) /\ pc'[p] = (IF legacy = None THEN "blob" ELSE "shred") /\ phrase'[p] = v
    BY <1>1, <1>3, <2>1, <2>2 DEF LocalsOK, OthersAlone, Place
  <2>4. legacy # None => Indexed = 0
    <3>1. index[label] \in Tier /\ Indexed # None
      BY <1>3, <1>4, <2>1, <2>2 DEF StoreOK
    <3>2. QED
      BY <1>3, <1>4, <3>1 DEF StoreInv, Indexed
  <2>5. legacy = None => Ready
    BY <1>4, <2>1, <2>2 DEF Ready, settled
  <2>6. ReliesOn(p)'
    <3>1. Indexed' = Indexed /\ (Ready <=> Ready')
      BY <1>2 DEF Indexed, Ready, settled
    <3>2. QED
      BY <1>1, <1>2, <1>4, <2>1, <2>2, <2>3, <2>4, <2>5, <3>1 DEF ReliesOn, Loaded
  <2>7. settingUp(p)' => \A q \in Proc \ {p} : pc[q] = "off"
    <3>1. settingUp(p)' => settingUp(p)
      BY <1>1, <1>2, <2>3 DEF settingUp, provisional, settled
    <3>2. QED
      BY <3>1 DEF SealInv, Alone
  <2>8. QED
    BY <1>1, <1>3, <2>1, <2>3, <2>6, <2>7, LocalStep
<1>6. CASE AdoptLegacy(p) \/ MintPassphrase(p)
  <2> DEFINE v == IF legacy = None THEN mints + 1 ELSE legacy
  <2>1. /\ index[label] = None /\ (legacy = None => noCiphertext(blob))
        /\ pc' = [pc EXCEPT ![p] = "set"] /\ phrase' = [phrase EXCEPT ![p] = v] /\ idx' = [idx EXCEPT ![p] = index]
    BY <1>4, <1>6 DEF AdoptLegacy, MintPassphrase, set, locals
  <2>2. v \in Pass /\ (legacy # None => v = 0) /\ mints' \in 0..MaxMints
    BY <1>3, <1>4, <1>6, IdentityAssumption DEF AdoptLegacy, MintPassphrase, Pass, counters
  <2> HIDE DEF v
  <2>3. LocalsOK' /\ OthersAlone(p) /\ pc'[p] = "set" /\ phrase'[p] = v /\ idx'[p] = index
    <3>1. index \in [Proc -> Tier \cup {None}]
      BY <1>3 DEF StoreOK
    <3>2. QED
      BY <1>1, <1>3, <2>1, <2>2, <3>1 DEF LocalsOK, OthersAlone, Place
  <2>4. ReliesOn(p)'
    BY <1>1, <1>2, <1>4, <2>1, <2>2, <2>3 DEF ReliesOn, Loaded, noCiphertext
  <2>5. \A q \in Proc \ {p} : pc[q] = "off"
    BY <1>1, <2>1 DEF SealInv, Alone, settingUp, provisional, settled
  <2>6. QED
    BY <1>1, <2>2, <2>3, <2>4, <2>5, LocalStep
<1>7. QED
  BY <1>5, <1>6

\* A value goes to a store, which may not keep it.
LEMMA VaultSetKeeps == ASSUME SealInv, NEW p \in Proc, NEW kept \in BOOLEAN, vaultSet(p, kept) PROVE SealInv'
<1> DEFINE t == IF locked THEN "file-fallback" ELSE "native"
<1>1. /\ pc[p] = "set" /\ pc' = [pc EXCEPT ![p] = "index"] /\ tier' = [tier EXCEPT ![p] = t]
      /\ secret' = secret \/ secret' = [secret EXCEPT ![t][ref[p]] = phrase[p]]
      /\ UNCHANGED <<label, legacy, index, blob, want, ref, phrase, idx, mints>>
  BY DEF vaultSet, go, set
<1>2. t \in Tier
  BY DEF Tier
<1> HIDE DEF t
<1>3. StoreOK /\ LocalsOK /\ mints \in 0..MaxMints /\ ReliesOn(p) /\ StoreInv
  BY DEF SealInv, IdentityTypeOK
<1>4. /\ label # None /\ ref[p] = label /\ label \in Proc /\ index[label] = None /\ idx[p] = index
      /\ phrase[p] \in Pass /\ (legacy = None => noCiphertext(blob)) /\ (legacy # None => phrase[p] = 0)
  BY <1>1, <1>3 DEF ReliesOn, StoreOK
<1>5. /\ secret' \in [Tier -> [Proc -> Pass \cup {None}]]
      /\ \A u \in Tier, r \in Proc : secret'[u][r] = secret[u][r] \/ secret'[u][r] = phrase[p]
  BY <1>1, <1>2, <1>3, <1>4 DEF StoreOK
<1>6. StoreOK' /\ LocalsOK' /\ OthersAlone(p) /\ pc'[p] = "index" /\ tier'[p] = t /\ mints' \in 0..MaxMints
  BY <1>1, <1>2, <1>3, <1>5 DEF StoreOK, LocalsOK, OthersAlone, Place
<1>7. StoreInv'
  <2>1. CASE legacy # None
    BY <1>1, <1>3, <1>4, <1>5, <2>1 DEF StoreInv
  <2>2. CASE legacy = None
    BY <1>1, <1>4, <2>2 DEF StoreInv, noCiphertext
  <2>3. QED
    BY <2>1, <2>2
<1>8. ReliesOn(p)'
  BY <1>1, <1>2, <1>4, <1>6 DEF ReliesOn, Loaded, noCiphertext
<1>9. settingUp(p)
  BY <1>1 DEF settingUp, provisional
<1>10. QED
  BY <1>6, <1>7, <1>8, <1>9, SetupStep

\* The index is written back with one entry changed; nobody else has changed it.
LEMMA SaveIndexKeeps == ASSUME SealInv, NEW p \in Proc, saveIndex(p) PROVE SealInv'
<1>1. /\ pc[p] = "index" /\ pc' = [pc EXCEPT ![p] = "verify"]
      /\ index' = [idx[p] EXCEPT ![ref[p]] = tier[p]]
      /\ UNCHANGED <<label, legacy, secret, blob, want, ref, phrase, idx, tier, mints>>
  BY DEF saveIndex, go, set, locals, counters
<1>2. StoreOK /\ LocalsOK /\ mints \in 0..MaxMints /\ ReliesOn(p) /\ StoreInv
  BY DEF SealInv, IdentityTypeOK
<1>3. /\ label # None /\ ref[p] = label /\ label \in Proc /\ idx[p] = index /\ tier[p] \in Tier
      /\ phrase[p] \in Pass /\ (legacy = None => noCiphertext(blob)) /\ (legacy # None => phrase[p] = 0)
  BY <1>1, <1>2 DEF ReliesOn, StoreOK
<1>4. index' \in [Proc -> Tier \cup {None}] /\ index'[label] = tier[p]
  BY <1>1, <1>2, <1>3 DEF StoreOK
<1>5. StoreOK' /\ LocalsOK' /\ OthersAlone(p) /\ pc'[p] = "verify" /\ mints' \in 0..MaxMints
  BY <1>1, <1>2, <1>4 DEF StoreOK, LocalsOK, OthersAlone, Place
<1>6. StoreInv'
  BY <1>1, <1>2, <1>3 DEF StoreInv, noCiphertext
<1>7. ReliesOn(p)'
  BY <1>1, <1>3, <1>4, <1>5, NoneIsNone DEF ReliesOn, Loaded, noCiphertext
<1>8. settingUp(p)
  BY <1>1 DEF settingUp, provisional
<1>9. QED
  BY <1>5, <1>6, <1>7, <1>8, SetupStep

\* The value is read back from where the index says it is.
LEMMA ProvisionKeeps == ASSUME SealInv, NEW p \in Proc, provisionPassphrase(p) PROVE SealInv'
<1>1. /\ pc[p] = "verify" /\ vaultGetStrict(ref[p]) = phrase[p]
      /\ pc' = [pc EXCEPT ![p] = IF legacy = None THEN "blob" ELSE "shred"]
      /\ UNCHANGED <<store, want, ref, phrase, idx, tier, mints>>
  BY DEF provisionPassphrase, locals, counters
<1>2. UNCHANGED <<label, legacy, secret, index, blob>>
  BY <1>1 DEF store
<1>3. StoreOK /\ LocalsOK /\ mints \in 0..MaxMints /\ ReliesOn(p)
  BY DEF SealInv, IdentityTypeOK
<1>4. /\ label # None /\ ref[p] = label /\ index[label] # None /\ phrase[p] \in Pass /\ phrase[p] # None
      /\ (legacy # None => phrase[p] = 0)
  BY <1>1, <1>3, NoneIsNone DEF ReliesOn
<1>5. phrase[p] = Indexed
  BY <1>1, <1>3, <1>4, Strict
<1>6. legacy = None => Ready
  BY <1>4, <1>5 DEF Ready, settled
<1>7. LocalsOK' /\ OthersAlone(p) /\ pc'[p] = (IF legacy = None THEN "blob" ELSE "shred") /\ mints' \in 0..MaxMints
  BY <1>1, <1>3 DEF LocalsOK, OthersAlone, Place
<1>8. ReliesOn(p)'
  <2>1. Indexed' = Indexed /\ (Ready <=> Ready')
    BY <1>2 DEF Indexed, Ready, settled
  <2>2. QED
    BY <1>1, <1>2, <1>4, <1>5, <1>6, <1>7, <2>1 DEF ReliesOn, Loaded
<1>9. \A q \in Proc \ {p} : pc[q] = "off"
  BY <1>1 DEF SealInv, Alone, settingUp, provisional
<1>10. QED
  BY <1>1, <1>7, <1>8, <1>9, LocalStep

\* The read-back differs: the index is read, and deleting begins.
LEMMA FailsKeeps == ASSUME SealInv, NEW p \in Proc, ProvisionFails(p) PROVE SealInv'
<1>1. /\ pc[p] = "verify" /\ pc' = [pc EXCEPT ![p] = "delete"] /\ idx' = [idx EXCEPT ![p] = index]
      /\ UNCHANGED <<store, want, ref, phrase, tier, mints>>
  BY DEF ProvisionFails, go, set, counters
<1>2. UNCHANGED <<label, legacy, secret, index, blob>>
  BY <1>1 DEF store
<1>3. StoreOK /\ LocalsOK /\ mints \in 0..MaxMints /\ ReliesOn(p)
  BY DEF SealInv, IdentityTypeOK
<1>4. /\ label # None /\ ref[p] = label /\ index[label] # None /\ (legacy = None => noCiphertext(blob))
      /\ index \in [Proc -> Tier \cup {None}]
  BY <1>1, <1>3 DEF ReliesOn, StoreOK
<1>5. LocalsOK' /\ OthersAlone(p) /\ pc'[p] = "delete" /\ idx'[p] = index /\ mints' \in 0..MaxMints
  BY <1>1, <1>3, <1>4 DEF LocalsOK, OthersAlone, Place
<1>6. ReliesOn(p)'
  BY <1>1, <1>2, <1>4, <1>5 DEF ReliesOn, Loaded, noCiphertext
<1>7. \A q \in Proc \ {p} : pc[q] = "off"
  BY <1>1 DEF SealInv, Alone, settingUp, provisional
<1>8. QED
  BY <1>1, <1>5, <1>6, <1>7, LocalStep

\* What was stored is deleted: nothing has been sealed with it yet.
LEMMA DeleteKeeps ==
    ASSUME SealInv, NEW p \in Proc, keychainDelete(p) \/ fileDelete(p)
    PROVE  SealInv'
<1>1. /\ pc[p] \in {"delete", "deleteFile"} /\ UNCHANGED <<label, legacy, index, blob, want, ref, phrase, idx, tier, mints>>
      /\ \E x \in {"deleteFile", "unindex"} : pc' = [pc EXCEPT ![p] = x]
      /\ secret' = secret \/ \E t \in Tier : secret' = [secret EXCEPT ![t][ref[p]] = None]
  BY DEF keychainDelete, fileDelete, go, locals, counters, Tier
<1>2. StoreOK /\ LocalsOK /\ mints \in 0..MaxMints /\ ReliesOn(p) /\ StoreInv
  BY DEF SealInv, IdentityTypeOK
<1>3. /\ label # None /\ ref[p] = label /\ label \in Proc /\ (legacy = None => noCiphertext(blob))
      /\ index[label] # None /\ idx[p] = index
  BY <1>1, <1>2 DEF ReliesOn, StoreOK
<1>4. /\ secret' \in [Tier -> [Proc -> Pass \cup {None}]]
      /\ \A u \in Tier, q \in Proc : secret'[u][q] \in {secret[u][q], None}
  BY <1>1, <1>2, <1>3 DEF StoreOK
<1>5. /\ StoreOK' /\ LocalsOK' /\ OthersAlone(p) /\ pc'[p] \in {"deleteFile", "unindex"}
      /\ mints' \in 0..MaxMints
  BY <1>1, <1>2, <1>4 DEF StoreOK, LocalsOK, OthersAlone, Place
<1>6. StoreInv'
  <2>1. CASE legacy # None
    BY <1>1, <1>2, <1>4, <2>1 DEF StoreInv
  <2>2. CASE legacy = None
    BY <1>1, <1>3, <2>2 DEF StoreInv, noCiphertext
  <2>3. QED
    BY <2>1, <2>2
<1>7. ReliesOn(p)'
  BY <1>1, <1>3, <1>5 DEF ReliesOn, Loaded, noCiphertext
<1>8. settingUp(p)
  BY <1>1 DEF settingUp, provisional
<1>9. QED
  BY <1>5, <1>6, <1>7, <1>8, SetupStep

\* The ref leaves the index, and the load throws.
LEMMA UnindexKeeps == ASSUME SealInv, NEW p \in Proc, unindex(p) PROVE SealInv'
<1>1. /\ pc[p] = "unindex" /\ off(p) /\ UNCHANGED <<label, legacy, secret, blob, mints>>
      /\ index' = [idx[p] EXCEPT ![ref[p]] = None]
  BY DEF unindex, set, counters
<1>2. StoreOK /\ LocalsOK /\ mints \in 0..MaxMints /\ ReliesOn(p) /\ StoreInv
  BY DEF SealInv, IdentityTypeOK
<1>3. ref[p] = label /\ label \in Proc /\ idx[p] = index /\ (legacy = None => noCiphertext(blob))
  BY <1>1, <1>2 DEF ReliesOn, StoreOK
<1>4. index' \in [Proc -> Tier \cup {None}]
  BY <1>1, <1>2, <1>3 DEF StoreOK
<1>5. StoreOK' /\ mints' \in 0..MaxMints
  BY <1>1, <1>2, <1>4 DEF StoreOK
<1>6. StoreInv'
  BY <1>1, <1>2, <1>3 DEF StoreInv, noCiphertext
<1>7. settingUp(p)
  BY <1>1 DEF settingUp, provisional
<1>8. LocalsOK' /\ OthersAlone(p) /\ ReliesOn(p)'
  BY <1>1, <1>2, OffStep
<1>9. QED
  BY <1>5, <1>6, <1>7, <1>8, SetupStep

\* vault.key goes away: what it held is where the index says.
LEMMA ShredKeeps == ASSUME SealInv, NEW p \in Proc, shredFile(p) PROVE SealInv'
<1>1. StoreOK /\ LocalsOK /\ mints \in 0..MaxMints /\ ReliesOn(p) /\ StoreInv
  BY DEF SealInv, IdentityTypeOK
<1>2. pc[p] = "shred" /\ legacy' = None /\ UNCHANGED <<label, secret, index, blob, mints>>
  BY DEF shredFile, counters
<1>3. /\ label # None /\ legacy # None /\ index[label] # None /\ Indexed = 0 /\ phrase[p] = 0 /\ None # 0
  BY <1>1, <1>2, NoneIsNone DEF ReliesOn
<1>4. pc' = [pc EXCEPT ![p] = "blob"] /\ UNCHANGED <<want, ref, phrase, idx, tier>>
  BY <1>3 DEF shredFile, locals
<1>5. StoreOK' /\ LocalsOK' /\ OthersAlone(p) /\ pc'[p] = "blob" /\ mints' \in 0..MaxMints
  BY <1>1, <1>2, <1>4 DEF StoreOK, LocalsOK, OthersAlone, Place
<1>6. Ready' /\ Indexed' = 0
  BY <1>2, <1>3 DEF Ready, settled, Indexed
<1>7. StoreInv'
  BY <1>1, <1>2, <1>3, <1>6 DEF StoreInv
<1>8. ReliesOn(p)'
  BY <1>3, <1>4, <1>5, <1>6 DEF ReliesOn, Loaded
<1>9. settingUp(p)
  BY <1>2 DEF settingUp, provisional
<1>10. QED
  BY <1>5, <1>7, <1>8, <1>9, SetupStep

\* A blob is written with the passphrase the process has loaded: which is settled,
\* so that nobody is setting up another one.
LEMMA BlobStep ==
    ASSUME SealInv, NEW p \in Proc, pc[p] = "blob", NEW f \in File,
           UNCHANGED <<label, legacy, secret, index, mints>>,
           blob' = IF blob[f] = None THEN [blob EXCEPT ![f] = created(p)] ELSE blob,
           LocalsOK', OthersAlone(p), pc'[p] \in {"off", "look", "done", "up"},
           pc'[p] = "look" => ref'[p] = label
    PROVE  SealInv'
<1>1. StoreOK /\ LocalsOK /\ mints \in 0..MaxMints /\ ReliesOn(p) /\ StoreInv
  BY DEF SealInv, IdentityTypeOK
<1>2. Ready /\ settled /\ phrase[p] = Indexed /\ label # None /\ label \in Proc
  BY <1>1 DEF ReliesOn, Loaded, Ready, settled, StoreOK
<1>3. Ready' /\ settled' /\ Indexed' = Indexed
  BY <1>2 DEF Ready, settled, Indexed
<1>4. Indexed \in Pass
  <2>1. index[label] \in Tier
    BY <1>1, <1>2 DEF StoreOK, settled
  <2>2. QED
    BY <1>1, <1>2, <2>1 DEF StoreOK, Ready, Indexed
<1>5. created(p) \in SealedBlob /\ created(p).phrase = Indexed
  BY <1>2, <1>4, NoneIsNone DEF created, SealedBlob
<1>6. blob' \in [File -> SealedBlob \cup {None}] /\ \A g \in File : blob'[g] = blob[g] \/ blob'[g] = created(p)
  BY <1>1, <1>5 DEF StoreOK
<1>7. StoreInv'
  BY <1>1, <1>2, <1>3, <1>5, <1>6 DEF StoreInv, settled
<1>8. \A q \in Proc : ~settingUp(q)
  <2> SUFFICES ASSUME NEW q \in Proc, settingUp(q) PROVE FALSE
    OBVIOUS
  <2>1. q # p
    BY DEF settingUp, provisional
  <2>2. pc[p] = "off"
    BY <2>1 DEF SealInv, Alone
  <2>3. QED
    BY <2>2
<1>9. ASSUME NEW q \in Proc PROVE ReliesOn(q)' /\ ~settingUp(q)'
  <2>1. CASE q = p
    BY <1>2, <1>3, <2>1 DEF ReliesOn, settingUp, provisional, Loaded
  <2>2. CASE q # p
    <3>1. ReliesOn(q) /\ pc'[q] = pc[q] /\ ref'[q] = ref[q] /\ phrase'[q] = phrase[q]
      BY <2>2 DEF SealInv, OthersAlone
    <3>2. pc[q] \notin {"set", "index", "verify", "delete", "deleteFile", "unindex", "shred"}
      BY <1>8 DEF settingUp, provisional
    <3>3. QED
      BY <1>2, <1>3, <3>1, <3>2 DEF ReliesOn, settingUp, provisional
  <2>3. QED
    BY <2>1, <2>2
<1>10. IdentityTypeOK'
  BY <1>1, <1>6 DEF IdentityTypeOK, StoreOK
<1>11. QED
  BY <1>7, <1>9, <1>10 DEF SealInv, Alone

\* Both blobs are written with the passphrase the index points to.
LEMMA BlobKeeps ==
    ASSUME SealInv, NEW p \in Proc, loadOrCreateKeys(p) \/ loadOrCreateHaIdentity(p)
    PROVE  SealInv'
<1>1. StoreOK /\ LocalsOK /\ ReliesOn(p) /\ pc[p] = "blob"
  BY DEF SealInv, IdentityTypeOK, loadOrCreateKeys, loadOrCreateHaIdentity
<1>2. label # None
  BY <1>1 DEF ReliesOn, Loaded, Ready, settled
<1>3. UNCHANGED <<label, legacy, secret, index, mints>>
  BY DEF loadOrCreateKeys, loadOrCreateHaIdentity, counters
<1>4. PICK f \in File : blob' = IF blob[f] = None THEN [blob EXCEPT ![f] = created(p)] ELSE blob
  BY DEF loadOrCreateKeys, loadOrCreateHaIdentity, File
<1>5. LocalsOK' /\ OthersAlone(p) /\ pc'[p] \in {"off", "look", "done", "up"} /\ (pc'[p] = "look" => ref'[p] = label)
  <2>1. CASE off(p)
    BY <1>1, <2>1, OffStep
  <2>2. CASE loadOrCreateKeys(p) /\ ~off(p)
    <3>1. CASE p = Daemon
      <4>1. lookUpRef(p) /\ want' = [want EXCEPT ![p] = "ha"] /\ UNCHANGED <<phrase, idx, tier>>
        BY <2>2, <3>1 DEF loadOrCreateKeys, set
      <4>2. want' \in [Proc -> File]
        BY <1>1, <4>1 DEF LocalsOK, File
      <4>3. QED
        BY <1>2, <4>1, <4>2, LookUp
    <3>2. CASE p # Daemon
      <4>1. pc' = [pc EXCEPT ![p] = "done"] /\ UNCHANGED <<ref, want, phrase, idx, tier>>
        BY <2>2, <3>2 DEF loadOrCreateKeys
      <4>2. QED
        BY <1>1, <4>1 DEF LocalsOK, OthersAlone, Place
    <3>3. QED
      BY <3>1, <3>2
  <2>3. CASE loadOrCreateHaIdentity(p) /\ ~off(p)
    <3>1. pc' = [pc EXCEPT ![p] = "up"] /\ UNCHANGED <<want, ref, phrase, idx, tier>>
      BY <2>3 DEF loadOrCreateHaIdentity, locals
    <3>2. QED
      BY <1>1, <3>1 DEF LocalsOK, OthersAlone, Place
  <2>4. QED
    BY <2>1, <2>2, <2>3
<1>6. QED
  BY <1>1, <1>3, <1>4, <1>5, BlobStep

\* A load that cannot go on, an exit and a death.
LEMMA EndKeeps ==
    ASSUME SealInv, NEW p \in Proc, LoadThrows(p) \/ RefuseToMint(p) \/ Exit(p) \/ KeyCrash(p)
    PROVE  SealInv'
<1>1. off(p) /\ pc[p] # "off" /\ UNCHANGED <<store, mints>>
  BY DEF LoadThrows, RefuseToMint, Exit, KeyCrash, counters
<1>2. LocalsOK /\ mints \in 0..MaxMints
  BY DEF SealInv, IdentityTypeOK
<1>3. LocalsOK' /\ OthersAlone(p) /\ ReliesOn(p)' /\ ~settingUp(p)'
  BY <1>1, <1>2, OffStep
<1>4. QED
  BY <1>1, <1>2, <1>3, LocalStep

\* The daemon goes on to serve; the journal, the keychain and stuttering.
LEMMA ServeKeeps ==
    ASSUME SealInv, Emit \/ Journal \/ Lock \/ Unlock \/ UNCHANGED identityVars
    PROVE  SealInv'
<1>0. UNCHANGED <<store, locals, mints>>
  BY DEF Emit, buildStateSnapshot, saveStateSnapshot, advanceStateHead, SkipSnapshot, Journal, Lock, Unlock,
         identityVars, counters
<1>1. UNCHANGED <<store, want, ref, phrase, idx, tier, mints>>
  BY <1>0 DEF locals
<1>2. LocalsOK /\ mints \in 0..MaxMints /\ ReliesOn(Daemon) /\ Daemon \in Proc
  BY NoneIsNone DEF SealInv, IdentityTypeOK
<1>3. \/ pc' = pc
      \/ pc[Daemon] \in Loaded \ {"blob"} /\ \E x \in Loaded \ {"blob"} : pc' = [pc EXCEPT ![Daemon] = x]
  BY DEF Emit, buildStateSnapshot, saveStateSnapshot, advanceStateHead, SkipSnapshot, Journal, Lock, Unlock,
         identityVars, go, Loaded
<1>4. CASE pc' = pc
  BY <1>1, <1>4 DEF store, SealInv, IdentityTypeOK, StoreOK, LocalsOK, Alone, settingUp, provisional, settled, StoreInv,
                    Ready, Indexed, ReliesOn, noCiphertext
<1>5. CASE pc[Daemon] \in Loaded \ {"blob"} /\ \E x \in Loaded \ {"blob"} : pc' = [pc EXCEPT ![Daemon] = x]
  <2>1. LocalsOK' /\ OthersAlone(Daemon) /\ pc'[Daemon] \in Loaded \ {"blob"}
    BY <1>1, <1>2, <1>5 DEF LocalsOK, OthersAlone, Place, Loaded
  <2>2. Ready
    BY <1>2, <1>5 DEF ReliesOn
  <2>3. Ready'
    BY <1>1, <2>2 DEF store, Ready, settled, Indexed
  <2>4. ReliesOn(Daemon)' /\ ~settingUp(Daemon)'
    BY <2>1, <2>3 DEF ReliesOn, settingUp, provisional, Loaded
  <2>5. pc[Daemon] # "off"
    BY <1>5 DEF Loaded
  <2>6. QED
    BY <1>1, <1>2, <2>1, <2>4, <2>5, LocalStep
<1>6. QED
  BY <1>3, <1>4, <1>5

\* One step per action.
LEMMA SealStep == ASSUME SealInv, ~LoadsOverlap, [IdentityNext]_identityVars PROVE SealInv'
<1>1. ASSUME NEW p \in Proc, LoadStep(p) PROVE SealInv'
  BY <1>1, RefKeeps, LookKeeps, VaultSetKeeps, SaveIndexKeeps, ProvisionKeeps, FailsKeeps, DeleteKeeps, UnindexKeeps,
     ShredKeeps, BlobKeeps, EndKeeps DEF LoadStep
<1>2. ASSUME NEW p \in Proc, StartLoad(p) \/ KeyCrash(p) PROVE SealInv'
  BY <1>2, StartLoadKeeps, EndKeeps
<1>3. CASE Emit \/ Journal \/ Lock \/ Unlock \/ UNCHANGED identityVars
  BY <1>3, ServeKeeps
<1>4. QED
  BY <1>1, <1>2, <1>3 DEF IdentityNext

\* The index has the ref in use or nothing, and names a tier without a value
\* only while a process is at it, or after one died at it.
IndexInv ==
    \A r \in Proc : index[r] # None =>
        /\ r = label
        /\ secret[index[r]][r] # None \/ unfinished \/ \E p \in Proc : provisional(p)

\* A step that leaves the stores alone, of a process that is not at it.
LEMMA IndexAlone ==
    ASSUME IndexInv, UNCHANGED <<label, secret, index>>, unfinished => unfinished',
           \A q \in Proc : provisional(q) => provisional(q)' \/ unfinished'
    PROVE  IndexInv'
  BY DEF IndexInv

\* Setting up a passphrase: the index is written before the value is compared,
\* and emptied after the value is gone.
LEMMA SetupKeepsIndex ==
    ASSUME SealInv, IndexInv, NEW p \in Proc,
           \/ passphraseRef(p) \/ (\E kept \in BOOLEAN : vaultSet(p, kept)) \/ saveIndex(p)
           \/ provisionPassphrase(p) \/ ProvisionFails(p) \/ keychainDelete(p) \/ fileDelete(p) \/ unindex(p)
    PROVE  IndexInv'
<1>0. StoreOK /\ LocalsOK /\ ReliesOn(p) /\ pc \in [Proc -> Place] /\ None \notin Proc /\ None \notin Pass
  BY NoneIsNone DEF SealInv, IdentityTypeOK, LocalsOK
<1>1. CASE passphraseRef(p)
  <2>1. pc[p] = "ref" /\ UNCHANGED <<secret, index>> /\ label = None
    BY <1>0, <1>1 DEF passphraseRef, go, ReliesOn
  <2>2. \A q \in Proc : index[q] = None
    BY <1>0, <2>1 DEF IndexInv
  <2>3. QED
    BY <2>1, <2>2 DEF IndexInv
<1>2. CASE \E kept \in BOOLEAN : vaultSet(p, kept)
  <2>1. pc[p] = "set" /\ UNCHANGED <<label, index>>
    BY <1>2 DEF vaultSet, go
  <2>2. \A q \in Proc : index[q] = None
    BY <1>0, <2>1 DEF IndexInv, ReliesOn
  <2>3. QED
    BY <2>1, <2>2 DEF IndexInv
<1>3. CASE saveIndex(p)
  <2>1. /\ pc[p] = "index" /\ pc' = [pc EXCEPT ![p] = "verify"] /\ UNCHANGED <<label, secret>>
        /\ index' = [idx[p] EXCEPT ![ref[p]] = tier[p]]
    BY <1>3 DEF saveIndex, go, set
  <2>2. idx[p] = index /\ ref[p] = label /\ label # None
    BY <1>0, <2>1 DEF ReliesOn
  <2>3. \A q \in Proc : index'[q] # None => q = label
    BY <1>0, <2>1, <2>2 DEF IndexInv, StoreOK
  <2>4. provisional(p)'
    BY <1>0, <2>1 DEF provisional
  <2>5. QED
    BY <2>1, <2>3, <2>4 DEF IndexInv
<1>4. CASE provisionPassphrase(p)
  <2>1. pc[p] = "verify" /\ UNCHANGED <<label, secret, index>> /\ vaultGetStrict(ref[p]) = phrase[p]
    BY <1>4 DEF provisionPassphrase, store
  <2>2. ref[p] = label /\ label # None /\ index[label] # None /\ phrase[p] \in Pass
    BY <1>0, <2>1 DEF ReliesOn
  <2>3. secret[index[label]][label] # None
    BY <1>0, <2>1, <2>2, Strict DEF Indexed
  <2>4. QED
    BY <2>1, <2>3 DEF IndexInv
<1>5. CASE ProvisionFails(p) \/ keychainDelete(p) \/ fileDelete(p)
  <2>1. /\ UNCHANGED <<label, index>>
        /\ \E x \in {"delete", "deleteFile", "unindex"} : pc' = [pc EXCEPT ![p] = x]
    BY <1>5 DEF ProvisionFails, keychainDelete, fileDelete, go, store
  <2>2. provisional(p)'
    BY <1>0, <2>1 DEF provisional
  <2>3. QED
    BY <2>1, <2>2 DEF IndexInv
<1>6. CASE unindex(p)
  <2>1. /\ pc[p] = "unindex" /\ UNCHANGED <<label, secret>> /\ index' = [idx[p] EXCEPT ![ref[p]] = None]
    BY <1>6 DEF unindex, set
  <2>2. idx[p] = index /\ ref[p] = label /\ label \in Proc
    BY <1>0, <2>1 DEF ReliesOn, StoreOK
  <2>3. \A q \in Proc : index'[q] = None
    BY <1>0, <2>1, <2>2 DEF IndexInv, StoreOK
  <2>4. QED
    BY <2>3 DEF IndexInv
<1>7. QED
  BY <1>1, <1>2, <1>3, <1>4, <1>5, <1>6

\* Every other step leaves the index, and who dies at it is remembered.
LEMMA IndexStep == ASSUME SealInv, IndexInv, [IdentityNext]_identityVars PROVE IndexInv'
<1>0. LocalsOK /\ pc \in [Proc -> Place]
  BY DEF SealInv, IdentityTypeOK, LocalsOK
<1>1. ASSUME NEW p \in Proc, ~provisional(p), UNCHANGED <<label, secret, index, unfinished>>, OthersAlone(p)
      PROVE  IndexInv'
  <2>1. \A q \in Proc : provisional(q) => provisional(q)'
    BY <1>1 DEF OthersAlone, provisional
  <2>2. QED
    BY <1>1, <2>1, IndexAlone
<1>2. ASSUME NEW p \in Proc, LoadStep(p) \/ StartLoad(p) PROVE IndexInv'
  <2>1. CASE \/ passphraseRef(p) \/ (\E kept \in BOOLEAN : vaultSet(p, kept)) \/ saveIndex(p)
             \/ provisionPassphrase(p) \/ ProvisionFails(p) \/ keychainDelete(p) \/ fileDelete(p) \/ unindex(p)
    BY <2>1, SetupKeepsIndex
  <2>2. CASE LoadThrows(p) \/ RefuseToMint(p) \/ Exit(p)
    <3>1. off(p) /\ ~provisional(p) /\ UNCHANGED <<label, secret, index, unfinished>>
      BY <2>2 DEF LoadThrows, RefuseToMint, Exit, store, counters, provisional
    <3>2. QED
      BY <1>0, <1>1, <3>1, OffStep
  <2>3. CASE LoadMigrated(p) \/ AdoptLegacy(p) \/ MintPassphrase(p)
    <3>1. /\ pc[p] = "look" /\ UNCHANGED <<label, secret, index, unfinished>>
          /\ \E x \in Place : pc' = [pc EXCEPT ![p] = x]
      BY <2>3 DEF LoadMigrated, AdoptLegacy, MintPassphrase, store, counters, Place
    <3>2. \A q \in Proc : provisional(q) => provisional(q)'
      BY <1>0, <3>1 DEF provisional
    <3>3. QED
      BY <3>1, <3>2, IndexAlone
  <2>4. CASE shredFile(p)
    <3>1. pc[p] = "shred" /\ UNCHANGED <<label, secret, index, unfinished>>
      BY <2>4 DEF shredFile, counters
    <3>2. \A q \in Proc : q # p => pc'[q] = pc[q]
      BY <1>0, <2>4 DEF shredFile, off
    <3>3. \A q \in Proc : provisional(q) => provisional(q)'
      BY <3>1, <3>2 DEF provisional
    <3>4. QED
      BY <3>1, <3>3, IndexAlone
  <2>5. CASE loadOrCreateKeys(p) \/ loadOrCreateHaIdentity(p) \/ StartLoad(p)
    <3>1. pc[p] \in {"blob", "off"} /\ UNCHANGED <<label, secret, index, unfinished>>
      BY <2>5 DEF loadOrCreateKeys, loadOrCreateHaIdentity, StartLoad, store, counters
    <3>2. \A q \in Proc : q # p => pc'[q] = pc[q]
      BY <1>0, <2>5 DEF loadOrCreateKeys, loadOrCreateHaIdentity, StartLoad, off, lookUpRef
    <3>3. \A q \in Proc : provisional(q) => provisional(q)'
      BY <3>1, <3>2 DEF provisional
    <3>4. QED
      BY <3>1, <3>3, IndexAlone
  <2>6. QED
    BY <1>2, <2>1, <2>2, <2>3, <2>4, <2>5 DEF LoadStep
<1>3. ASSUME NEW p \in Proc, KeyCrash(p) PROVE IndexInv'
  <2>1. off(p) /\ UNCHANGED <<label, secret, index>> /\ unfinished' = (unfinished \/ provisional(p))
    BY <1>3 DEF KeyCrash, store
  <2>2. OthersAlone(p)
    BY <1>0, <2>1, OffStep
  <2>3. \A q \in Proc : provisional(q) => provisional(q)' \/ unfinished'
    BY <2>1, <2>2 DEF OthersAlone, provisional
  <2>4. QED
    BY <2>1, <2>3, IndexAlone
<1>4. CASE Emit \/ Journal \/ Lock \/ Unlock \/ UNCHANGED identityVars
  <2>1. UNCHANGED <<label, secret, index, unfinished>>
    BY <1>4 DEF Emit, buildStateSnapshot, saveStateSnapshot, advanceStateHead, SkipSnapshot, Journal, Lock, Unlock,
         identityVars, store, counters
  <2>2. \/ pc' = pc
        \/ pc[Daemon] \in {"up", "hash", "head"} /\ \E x \in Place : pc' = [pc EXCEPT ![Daemon] = x]
    BY <1>4 DEF Emit, buildStateSnapshot, saveStateSnapshot, advanceStateHead, SkipSnapshot, Journal, Lock, Unlock,
         identityVars, go, Place
  <2>3. \A q \in Proc : provisional(q) => provisional(q)'
    BY <1>0, <2>2 DEF provisional
  <2>4. QED
    BY <2>1, <2>3, IndexAlone
<1>5. QED
  BY <1>2, <1>3, <1>4 DEF IdentityNext

\* Every blob is opened by the next load, or its passphrase is in vault.key.
LEMMA SealedOpens == SealInv /\ IndexInv => Recoverable
<1> SUFFICES ASSUME SealInv, IndexInv, NEW f \in File, Sealed(f)
             PROVE  \/ blob[f].phrase \in Usable
                    \/ blob[f].phrase = legacy /\ (unfinished \/ \E p \in Proc : provisional(p))
  BY DEF Recoverable
<1>1. /\ StoreInv /\ StoreOK /\ legacy \in {0, None} /\ blob[f] # None /\ blob[f].phrase # Lost /\ None # 0
      /\ label \in Proc \cup {None} /\ index \in [Proc -> Tier \cup {None}]
  BY NoneIsNone DEF SealInv, IdentityTypeOK, StoreOK, Sealed
<1>2. CASE legacy # None
  <2>1. blob[f].phrase = 0 /\ legacy = 0
    BY <1>1, <1>2 DEF StoreInv
  <2>2. CASE label # None /\ index[label] # None
    <3>1. label \in Proc /\ index[label] \in Tier
      BY <1>1, <2>2
    <3>2. secret[index[label]][label] \in {None, 0}
      BY <1>1, <1>2, <3>1 DEF StoreInv
    <3>3. CASE secret[index[label]][label] = 0
      BY <2>1, <2>2, <3>3 DEF Usable
    <3>4. CASE secret[index[label]][label] = None
      BY <2>1, <2>2, <3>1, <3>4 DEF IndexInv
    <3>5. QED
      BY <3>2, <3>3, <3>4
  <2>3. CASE ~(label # None /\ index[label] # None)
    BY <2>1, <2>3 DEF Usable
  <2>4. QED
    BY <2>2, <2>3
<1>3. CASE legacy = None
  <2>1. label # None /\ index[label] # None /\ blob[f].phrase = secret[index[label]][label]
    BY <1>1, <1>3 DEF StoreInv, Ready, settled, Indexed
  <2>2. QED
    BY <2>1 DEF Usable
<1>4. QED
  BY <1>2, <1>3

\* The daemon has not begun a chain.
LEMMA ChainStart == IdentityInit => ChainInv
<1> SUFFICES ASSUME IdentityInit PROVE ChainInv
  OBVIOUS
<1>1. rows = 0 /\ captured = 0 /\ snaps = <<>> /\ heads = <<>> /\ pc[Daemon] = "off"
  BY NoneIsNone DEF IdentityInit
<1>2. QED
  BY <1>1 DEF ChainInv, HeadsFollowSnapshots

\* A step that adds nothing to the chain: it may write the identity that signs,
\* as long as nothing is signed.
LEMMA ChainAlone ==
    ASSUME ChainInv, UNCHANGED chain, blob'["ha"] = blob["ha"] \/ blob["ha"] = None,
           pc'[Daemon] = pc[Daemon] \/ pc'[Daemon] \notin {"hash", "head"},
           pc'[Daemon] \in {"up", "serving"} => blob'["ha"] # None
    PROVE  ChainInv'
<1>1. UNCHANGED <<snaps, heads, rows, captured>>
  BY DEF chain
<1> DEFINE E == [root : Nat, signer : SealedBlob]
<1>2. \A i \in DOMAIN heads : heads[i].signer # None /\ heads[i].signer = blob["ha"]
  <2>1. heads \in Seq(E) /\ \A e \in E : e.signer \in SealedBlob
    BY DEF ChainInv
  <2> HIDE DEF E
  <2>2. \A i \in DOMAIN heads : heads[i] \in E
    BY <2>1
  <2>3. \A i \in DOMAIN heads : heads[i].signer \in SealedBlob
    BY <2>1, <2>2
  <2>4. None \notin SealedBlob
    BY NoneIsNone
  <2>5. QED
    BY <2>3, <2>4 DEF ChainInv, HeadsFollowSnapshots
<1>3. \A i \in DOMAIN heads : heads[i].signer = blob'["ha"]
  BY <1>2
<1>4. QED
  BY <1>1, <1>3 DEF ChainInv, HeadsFollowSnapshots

\* Loading keys adds nothing to the chain.
LEMMA LoadsLeaveChain ==
    ASSUME SealInv, ChainInv, NEW p \in Proc, StartLoad(p) \/ LoadStep(p) \/ KeyCrash(p)
    PROVE  ChainInv'
<1>1. UNCHANGED chain
  BY DEF StartLoad, LoadStep, KeyCrash, passphraseRef, LoadMigrated, LoadThrows, AdoptLegacy, MintPassphrase,
         RefuseToMint, vaultSet, saveIndex, provisionPassphrase, ProvisionFails, keychainDelete, fileDelete,
         unindex, shredFile, loadOrCreateKeys, loadOrCreateHaIdentity, Exit
<1>2. LocalsOK /\ StoreOK /\ Daemon \in Proc
  BY NoneIsNone DEF SealInv, IdentityTypeOK
<1>3. CASE loadOrCreateHaIdentity(p)
  <2>1. blob'["ha"] = IF blob["ha"] = None THEN created(p) ELSE blob["ha"]
    BY <1>2, <1>3 DEF loadOrCreateHaIdentity, StoreOK, File
  <2>2. created(p) # None
    <3>1. ReliesOn(p) /\ pc[p] = "blob"
      BY <1>3 DEF SealInv, loadOrCreateHaIdentity
    <3>2. phrase[p] # None /\ phrase[p] \in Pass
      BY <1>2, <3>1 DEF ReliesOn, Ready, LocalsOK, Loaded
    <3>3. created(p) \in SealedBlob
      BY <3>2, NoneIsNone DEF created, SealedBlob
    <3>4. QED
      BY <3>3, NoneIsNone
  <2>3. pc'[Daemon] = pc[Daemon] \/ pc'[Daemon] \in {"off", "up"}
    BY <1>2, <1>3 DEF loadOrCreateHaIdentity, off, LocalsOK
  <2>4. blob'["ha"] # None
    BY <2>1, <2>2
  <2>5. QED
    BY <1>1, <2>1, <2>3, <2>4, ChainAlone
<1>4. CASE ~loadOrCreateHaIdentity(p)
  <2>1. blob'["ha"] = blob["ha"]
    BY <1>2, <1>4 DEF store, StoreOK, File, StartLoad, LoadStep, KeyCrash, passphraseRef, LoadMigrated,
       LoadThrows,
         AdoptLegacy, MintPassphrase, RefuseToMint, vaultSet, saveIndex, provisionPassphrase, ProvisionFails,
         keychainDelete, fileDelete, unindex, shredFile, loadOrCreateKeys, Exit
  <2>2. \E x \in {"ref", "look", "set", "index", "verify", "delete", "deleteFile", "unindex", "shred", "blob",
                   "done", "off"} : pc' = [pc EXCEPT ![p] = x]
    <3>1. CASE off(p)
      BY <3>1 DEF off
    <3>2. CASE StartLoad(p)
      BY <3>2 DEF StartLoad, lookUpRef
    <3>3. CASE loadOrCreateKeys(p) /\ ~off(p)
      BY <3>3 DEF loadOrCreateKeys, lookUpRef
    <3>4. CASE \/ passphraseRef(p) \/ LoadMigrated(p) \/ AdoptLegacy(p) \/ MintPassphrase(p)
               \/ (\E kept \in BOOLEAN : vaultSet(p, kept)) \/ saveIndex(p) \/ provisionPassphrase(p)
               \/ (shredFile(p) /\ ~off(p)) \/ ProvisionFails(p) \/ keychainDelete(p) \/ fileDelete(p)
      BY <3>4 DEF passphraseRef, LoadMigrated, AdoptLegacy, MintPassphrase, vaultSet, saveIndex,
                  provisionPassphrase, shredFile, ProvisionFails, keychainDelete, fileDelete, go
    <3>5. QED
      BY <1>4, <3>1, <3>2, <3>3, <3>4 DEF LoadStep, KeyCrash, LoadThrows, RefuseToMint, unindex, Exit
  <2>3. pc'[Daemon] = pc[Daemon] \/ pc'[Daemon] \notin {"up", "hash", "head", "serving"}
    BY <1>2, <2>2 DEF LocalsOK
  <2>4. QED
    BY <1>1, <2>1, <2>3, ChainAlone DEF ChainInv
<1>5. QED
  BY <1>3, <1>4

\* A start adds a snapshot of at least what the last one covered, and then a head
\* that names it.
LEMMA ServingExtendsChain ==
    ASSUME SealInv, ChainInv, Emit \/ Journal \/ Lock \/ Unlock \/ UNCHANGED identityVars
    PROVE  ChainInv'
<1>1. LocalsOK /\ StoreOK /\ Daemon \in Proc
  BY NoneIsNone DEF SealInv, IdentityTypeOK
<1>2. blob' = blob
  BY DEF Emit, buildStateSnapshot, saveStateSnapshot, advanceStateHead, SkipSnapshot, Journal, Lock, Unlock,
         identityVars, store
<1>3. CASE SkipSnapshot \/ Lock \/ Unlock \/ UNCHANGED identityVars
  <2>1. UNCHANGED chain /\ (pc'[Daemon] = pc[Daemon] \/ (pc[Daemon] = "up" /\ pc'[Daemon] = "serving"))
    BY <1>1, <1>3 DEF SkipSnapshot, Lock, Unlock, identityVars, go, LocalsOK
  <2>2. QED
    BY <1>2, <2>1, ChainAlone DEF ChainInv
<1>4. CASE Journal
  <2>1. rows' = rows + 1 /\ UNCHANGED <<snaps, heads, captured, pc>>
    BY <1>4 DEF Journal
  <2>2. QED
    BY <1>2, <2>1 DEF ChainInv, HeadsFollowSnapshots
<1>5. CASE buildStateSnapshot
  <2>1. captured' = rows /\ UNCHANGED <<snaps, heads, rows>> /\ pc[Daemon] = "up" /\ pc'[Daemon] = "hash"
    BY <1>1, <1>5 DEF buildStateSnapshot, go, LocalsOK
  <2>2. QED
    BY <1>2, <2>1 DEF ChainInv, HeadsFollowSnapshots
<1>6. CASE saveStateSnapshot
  <2>1. snaps' = Append(snaps, captured) /\ UNCHANGED <<heads, rows, captured>> /\ pc[Daemon] = "hash" /\ pc'[Daemon] = "head"
    BY <1>1, <1>6 DEF saveStateSnapshot, go, LocalsOK
  <2>2. snaps \in Seq(Nat) /\ captured \in Nat /\ Len(snaps) \in Nat /\ DOMAIN snaps = 1..Len(snaps)
    BY DEF ChainInv
  <2>3. /\ snaps' \in Seq(Nat) /\ Len(snaps') = Len(snaps) + 1 /\ DOMAIN snaps' = 1..(Len(snaps) + 1)
        /\ snaps'[Len(snaps) + 1] = captured /\ \A i \in 1..Len(snaps) : snaps'[i] = snaps[i]
    BY <2>1, <2>2
  <2>4. \A i \in DOMAIN snaps' : (i \in DOMAIN snaps /\ snaps'[i] = snaps[i]) \/ (i = Len(snaps) + 1 /\ snaps'[i] = captured)
    BY <2>2, <2>3, SMTT(30)
  <2>5. \A i, j \in DOMAIN snaps' : i < j => snaps'[i] <= snaps'[j]
    <3> SUFFICES ASSUME NEW i \in DOMAIN snaps', NEW j \in DOMAIN snaps', i < j PROVE snaps'[i] <= snaps'[j]
      OBVIOUS
    <3>1. i \in DOMAIN snaps /\ snaps'[i] = snaps[i]
      BY <2>2, <2>3, <2>4
    <3>2. QED
      BY <2>1, <2>2, <2>4, <3>1 DEF ChainInv, HeadsFollowSnapshots
  <2>6. \A i \in DOMAIN heads : heads[i].root \in DOMAIN snaps
    BY DEF ChainInv, HeadsFollowSnapshots
  <2>7. \A i \in DOMAIN heads : heads[i].root \in DOMAIN snaps' /\ heads[i].root < Len(snaps')
    BY <2>2, <2>3, <2>6
  <2>8. HeadsFollowSnapshots'
    BY <1>2, <2>1, <2>5, <2>7 DEF ChainInv, HeadsFollowSnapshots
  <2>9. \A i \in DOMAIN snaps' : snaps'[i] <= rows
    BY <2>4 DEF ChainInv
  <2>10. QED
    BY <1>2, <2>1, <2>2, <2>3, <2>7, <2>8, <2>9 DEF ChainInv
<1>7. CASE advanceStateHead
  <2> DEFINE h == headOf(blob["ha"])
             E == [root : Nat, signer : SealedBlob]
  <2>1. /\ heads' = Append(heads, h) /\ UNCHANGED <<snaps, rows, captured>>
        /\ pc[Daemon] = "head" /\ pc'[Daemon] = "serving"
    BY <1>1, <1>7 DEF advanceStateHead, go, LocalsOK
  <2>2. snaps \in Seq(Nat) /\ Len(snaps) \in Nat /\ DOMAIN snaps = 1..Len(snaps) /\ heads \in Seq(E)
    BY DEF ChainInv
  <2>3. h.root = Len(snaps) /\ h.signer = blob["ha"] /\ h \in E
    <3>1. blob["ha"] \in SealedBlob
      BY <1>1, <2>1 DEF ChainInv, StoreOK, File
    <3>2. QED
      BY <2>2, <3>1 DEF headOf
  <2>4. h.root \in DOMAIN snaps
    BY <2>1, <2>2, <2>3 DEF ChainInv
  <2> HIDE DEF h, E
  <2>5. /\ heads' \in Seq(E) /\ DOMAIN heads = 1..Len(heads) /\ Len(heads) \in Nat
        /\ DOMAIN heads' = 1..(Len(heads) + 1)
        /\ heads'[Len(heads) + 1] = h /\ \A i \in 1..Len(heads) : heads'[i] = heads[i]
    BY <2>1, <2>2, <2>3
  <2>6. \A i \in DOMAIN heads' : (i \in DOMAIN heads /\ heads'[i] = heads[i]) \/ (i = Len(heads) + 1 /\ heads'[i] = h)
    BY <2>5
  <2>7. \A i \in DOMAIN heads' : heads'[i].root \in DOMAIN snaps /\ heads'[i].signer = blob["ha"]
    BY <2>3, <2>4, <2>6 DEF ChainInv, HeadsFollowSnapshots
  <2>8. \A i, j \in DOMAIN heads' : i < j => heads'[i].root < heads'[j].root
    <3> SUFFICES ASSUME NEW i \in DOMAIN heads', NEW j \in DOMAIN heads', i < j
                  PROVE heads'[i].root < heads'[j].root
      OBVIOUS
    <3>1. i \in DOMAIN heads /\ heads'[i] = heads[i]
      BY <2>5, <2>6
    <3>2. CASE j \in DOMAIN heads /\ heads'[j] = heads[j]
      BY <3>1, <3>2 DEF ChainInv, HeadsFollowSnapshots
    <3>3. CASE heads'[j] = h
      BY <2>1, <2>3, <3>1, <3>3 DEF ChainInv
    <3>4. QED
      BY <2>6, <3>2, <3>3
  <2>9. HeadsFollowSnapshots'
    BY <1>2, <2>1, <2>7, <2>8 DEF ChainInv, HeadsFollowSnapshots
  <2>10. (heads \in Seq([root : Nat, signer : SealedBlob]))'
    BY <2>5 DEF E
  <2>11. QED
    BY <1>2, <2>1, <2>9, <2>10 DEF ChainInv
<1>8. QED
  BY <1>3, <1>4, <1>5, <1>6, <1>7 DEF Emit

\* For any number of processes, deaths, locks and lies of the keychain: a load
\* opens every blob, or its passphrase is still in vault.key and what the index
\* says was never compared; and the chain of heads follows the snapshots, as long
\* as no load begins while another one sets up the passphrase (keys.mjs,
\* state-snapshot.mjs).
THEOREM SealedStays == ~LoadsOverlap /\ IdentitySpec => []SealedIsRecoverable
<1>1. IdentityInit => SealInv /\ IndexInv /\ ChainInv
  BY SealStart, ChainStart DEF IdentityInit, IndexInv
<1>2. ~LoadsOverlap /\ SealInv /\ IndexInv /\ ChainInv /\ [IdentityNext]_identityVars =>
          SealInv' /\ IndexInv' /\ ChainInv'
  BY SealStep, IndexStep, LoadsLeaveChain, ServingExtendsChain DEF IdentityNext
<1>3. SealInv /\ IndexInv /\ ChainInv => SealedIsRecoverable
  BY SealedOpens DEF SealedIsRecoverable, ChainInv
<1>4. CASE ~LoadsOverlap
  BY <1>1, <1>2, <1>3, <1>4, PTL DEF IdentitySpec
<1>5. QED
  BY <1>4
-----------------------------------------------------------------------------
(* Streams. Both counters are the sizes of sets the daemon does not keep:  *)
(* the requests it holds open and the runs it executes. A ticket that is   *)
(* still valid has opened nothing.                                         *)

Executing == {r \in Run : work[r] = "running"}

StreamTypeOK ==
    /\ helmd \in {"up", "exiting", "idle", "down"}
    /\ tickets \in [Slot -> {"none", "valid", "expired"}]
    /\ sseConnections \in Nat /\ open \in SUBSET Slot /\ others \in Nat
    /\ work \in [Run -> {"new", "running", "ended"}] /\ runsInFlight \in Nat
    /\ uses \in [Slot -> Nat]

CountsRuns == IsFiniteSet(Executing) /\ runsInFlight = Cardinality(Executing)

CountsStreams == IsFiniteSet(open) /\ CountsOpenStreams

TicketsInv == \A s \in Slot : uses[s] <= 1 /\ (tickets[s] = "valid" => uses[s] = 0)

StreamInv == StreamTypeOK /\ CountsStreams /\ CountsRuns /\ TicketsInv

\* Nothing is counted when the daemon starts.
LEMMA StreamStart == StreamInit => StreamInv
<1> SUFFICES ASSUME StreamInit PROVE StreamInv
  OBVIOUS
<1>1. StreamTypeOK /\ TicketsInv
  BY DEF StreamInit, StreamTypeOK, TicketsInv
<1>2. open = {} /\ Executing = {} /\ sseConnections = 0 /\ others = 0 /\ runsInFlight = 0
  BY DEF StreamInit, Executing
<1>3. CountsStreams /\ CountsRuns
  BY <1>2, FS_EmptySet, StreamAssumption DEF CountsStreams, CountsOpenStreams, CountsRuns
<1>4. QED
  BY <1>1, <1>3 DEF StreamInv

\* What the counts are about does not change: neither do they.
LEMMA StreamsUntouched ==
    ASSUME StreamInv, StreamTypeOK', TicketsInv',
           UNCHANGED <<sseConnections, open, others, work, runsInFlight>>
    PROVE  StreamInv'
<1>1. Executing' = Executing
  BY DEF Executing
<1>2. QED
  BY <1>1 DEF StreamInv, CountsStreams, CountsOpenStreams, CountsRuns

\* One more run is executed.
LEMMA RunCounted ==
    ASSUME StreamInv, NEW r \in Run, work[r] = "new", work' = [work EXCEPT ![r] = "running"],
           runsInFlight' = runsInFlight + 1
    PROVE  CountsRuns'
<1>1. Executing' = Executing \union {r} /\ r \notin Executing
  BY DEF StreamInv, StreamTypeOK, Executing
<1>2. QED
  BY <1>1, FS_AddElement DEF StreamInv, CountsRuns

\* One run fewer is executed.
LEMMA RunSettled ==
    ASSUME StreamInv, NEW r \in Run, work[r] = "running", work' = [work EXCEPT ![r] = "ended"],
           runsInFlight' = runsInFlight - 1
    PROVE  CountsRuns' /\ runsInFlight' \in Nat
<1>1. Executing' = Executing \ {r} /\ r \in Executing
  BY DEF StreamInv, StreamTypeOK, Executing
<1>2. /\ IsFiniteSet(Executing') /\ Cardinality(Executing') = Cardinality(Executing) - 1
      /\ Cardinality(Executing') \in Nat
  BY <1>1, FS_RemoveElement, FS_CardinalityType DEF StreamInv, CountsRuns
<1>3. QED
  BY <1>2 DEF StreamInv, CountsRuns

\* One step of the page leaves what the daemon counts alone.
LEMMA PageKeepsCounts == ASSUME StreamInv, PageNext PROVE StreamInv'
<1>1. UNCHANGED <<helmd, tickets, sseConnections, open, others, work, runsInFlight, uses>>
  BY DEF PageNext, reconnect, setRunId, ticketArrives, ticketRefused, progress, daemonVars
<1>2. StreamTypeOK' /\ TicketsInv'
  BY <1>1 DEF StreamInv, StreamTypeOK, TicketsInv
<1>3. QED
  BY <1>1, <1>2, StreamsUntouched

\* Every step of a stream, a run, another client or the clock keeps the counts right.
LEMMA StreamStep == StreamInv /\ [StreamNext]_streamVars => StreamInv'
<1> SUFFICES ASSUME StreamInv, [StreamNext]_streamVars PROVE StreamInv'
  OBVIOUS
<1> USE DEF StreamInv
<1>1. CASE PageNext
  BY <1>1, PageKeepsCounts
<1>2. ASSUME NEW s \in Slot, handleEventsTicket(s) PROVE StreamInv'
  <2>1. StreamTypeOK' /\ TicketsInv'
    BY <1>2 DEF handleEventsTicket, StreamTypeOK, TicketsInv
  <2>2. QED
    BY <1>2, <2>1, StreamsUntouched DEF handleEventsTicket
<1>3. ASSUME NEW s \in Slot, handleEvents(s) PROVE StreamInv'
  <2>1. StreamTypeOK' /\ TicketsInv'
    BY <1>3 DEF handleEvents, redeemStreamTicket, StreamTypeOK, TicketsInv
  <2>2. /\ IsFiniteSet(open') /\ Cardinality(open') = Cardinality(open) + 1
        /\ Cardinality(open) \in Nat
    BY <1>3, FS_AddElement, FS_CardinalityType DEF handleEvents, CountsStreams
  <2>3. CountsStreams'
    BY <1>3, <2>2, StreamAssumption DEF handleEvents, CountsStreams, CountsOpenStreams, StreamTypeOK
  <2>4. Executing' = Executing /\ runsInFlight' = runsInFlight
    BY <1>3 DEF handleEvents, Executing
  <2>5. QED
    BY <2>1, <2>3, <2>4 DEF CountsRuns
<1>4. ASSUME NEW s \in Slot, refuses(s) PROVE StreamInv'
  <2>1. StreamTypeOK' /\ TicketsInv'
    BY <1>4 DEF refuses, redeemStreamTicket, StreamTypeOK, TicketsInv
  <2>2. QED
    BY <1>4, <2>1, StreamsUntouched DEF refuses
<1>5. ASSUME NEW s \in Slot, lost(s) \/ unreachable(s) \/ breaks(s) PROVE StreamInv'
  <2>1. UNCHANGED <<helmd, tickets, sseConnections, open, others, work, runsInFlight, uses>>
    BY <1>5 DEF lost, unreachable, breaks, daemonVars
  <2>2. StreamTypeOK' /\ TicketsInv'
    BY <2>1 DEF StreamTypeOK, TicketsInv
  <2>3. QED
    BY <2>1, <2>2, StreamsUntouched
<1>6. ASSUME NEW s \in Slot, hangUp(s) PROVE StreamInv'
  <2>1. /\ IsFiniteSet(open') /\ Cardinality(open') = Cardinality(open) - 1
        /\ Cardinality(open') \in Nat /\ Cardinality(open) \in Nat
    BY <1>6, FS_RemoveElement, FS_CardinalityType DEF hangUp, CountsStreams
  <2>2. CountsStreams' /\ sseConnections' \in Nat
    BY <1>6, <2>1, StreamAssumption DEF hangUp, CountsStreams, CountsOpenStreams, StreamTypeOK
  <2>3. StreamTypeOK' /\ TicketsInv'
    BY <1>6, <2>2 DEF hangUp, StreamTypeOK, TicketsInv
  <2>4. Executing' = Executing /\ runsInFlight' = runsInFlight
    BY <1>6 DEF hangUp, Executing
  <2>5. QED
    BY <2>2, <2>3, <2>4 DEF CountsRuns
<1>7. ASSUME NEW r \in Run, startWorkflowRun(r) PROVE StreamInv'
  <2>1. StreamTypeOK' /\ TicketsInv' /\ CountsStreams'
    BY <1>7 DEF startWorkflowRun, StreamTypeOK, TicketsInv, CountsStreams, CountsOpenStreams
  <2>2. CountsRuns'
    BY <1>7, RunCounted DEF startWorkflowRun
  <2>3. QED
    BY <2>1, <2>2
<1>8. ASSUME NEW r \in Run, runSettles(r) PROVE StreamInv'
  <2>1. CountsRuns' /\ runsInFlight' \in Nat
    BY <1>8, RunSettled DEF runSettles
  <2>2. StreamTypeOK' /\ TicketsInv' /\ CountsStreams'
    BY <1>8, <2>1 DEF runSettles, StreamTypeOK, TicketsInv, CountsStreams, CountsOpenStreams
  <2>3. QED
    BY <2>1, <2>2
<1>9. CASE otherOpens \/ otherCloses
  <2>1. Cardinality(open) \in Nat
    BY FS_CardinalityType DEF CountsStreams
  <2>2. CountsStreams' /\ sseConnections' \in Nat /\ others' \in Nat
    BY <1>9, <2>1, StreamAssumption
       DEF otherOpens, otherCloses, CountsStreams, CountsOpenStreams, StreamTypeOK
  <2>3. StreamTypeOK' /\ TicketsInv'
    BY <1>9, <2>2 DEF otherOpens, otherCloses, StreamTypeOK, TicketsInv
  <2>4. Executing' = Executing /\ runsInFlight' = runsInFlight
    BY <1>9 DEF otherOpens, otherCloses, Executing
  <2>5. QED
    BY <2>2, <2>3, <2>4 DEF CountsRuns
<1>10. CASE onIdle \/ handleShutdown \/ starts_again
  <2>1. StreamTypeOK' /\ TicketsInv'
    BY <1>10 DEF onIdle, handleShutdown, starts_again, StreamTypeOK, TicketsInv
  <2>2. QED
    BY <1>10, <2>1, StreamsUntouched DEF onIdle, handleShutdown, starts_again
<1>11. CASE exits
  <2>1. StreamTypeOK' /\ TicketsInv'
    BY <1>11 DEF exits, StreamTypeOK, TicketsInv
  <2>2. open' = {} /\ Executing' = {} /\ sseConnections' = 0 /\ others' = 0 /\ runsInFlight' = 0
    BY <1>11 DEF exits, Executing, StreamTypeOK
  <2>3. CountsStreams' /\ CountsRuns'
    BY <2>2, FS_EmptySet, StreamAssumption DEF CountsStreams, CountsOpenStreams, CountsRuns
  <2>4. QED
    BY <2>1, <2>3
<1>12. ASSUME NEW s \in Slot, expires(s) PROVE StreamInv'
  <2>1. StreamTypeOK' /\ TicketsInv'
    BY <1>12 DEF expires, StreamTypeOK, TicketsInv
  <2>2. QED
    BY <1>12, <2>1, StreamsUntouched DEF expires
<1>13. CASE UNCHANGED streamVars
  <2>1. StreamTypeOK' /\ TicketsInv'
    BY <1>13 DEF streamVars, daemonVars, StreamTypeOK, TicketsInv
  <2>2. QED
    BY <1>13, <2>1, StreamsUntouched DEF streamVars, daemonVars
<1>14. QED
  BY <1>1, <1>2, <1>3, <1>4, <1>5, <1>6, <1>7, <1>8, <1>9, <1>10, <1>11, <1>12, <1>13
     DEF StreamNext, HelmdNext

\* The counter that admits streams and holds the daemon up is the number of
\* streams there are, and no ticket opens two (handleEvents, server.mjs;
\* redeemStreamTicket, token.mjs).
THEOREM StreamsCounted == StreamSpec => []StreamsAreCounted
<1>1. StreamInv => StreamsAreCounted
  BY DEF StreamInv, CountsStreams, TicketsInv, StreamsAreCounted, TicketOpensOnce
<1>2. QED
  BY <1>1, StreamStart, StreamStep, PTL DEF StreamSpec

\* While an idle exit is pending, what would be cut off was begun since.
LateInv == helmd = "idle" => Held \subseteq late

\* At the decision nothing is held: two counters at zero are two empty sets.
LEMMA NothingHeld == ASSUME StreamInv, ~isSuppressed PROVE Held = {}
<1>1. sseConnections = 0 /\ runsInFlight = 0
  BY DEF isSuppressed, StreamInv, StreamTypeOK
<1>2. Cardinality(open) = 0 /\ others = 0
  BY <1>1, FS_CardinalityType DEF StreamInv, CountsStreams, CountsOpenStreams, StreamTypeOK
<1>3. open = {} /\ Executing = {}
  BY <1>1, <1>2, FS_EmptySet DEF StreamInv, CountsStreams, CountsRuns
<1>4. QED
  BY <1>2, <1>3 DEF Held, Executing

\* What is held can only shrink, or grow by what begins.
LEMMA HeldGrows ==
    ASSUME LateInv, helmd' = "idle" => helmd = "idle", late \subseteq late',
           \A x \in Held' : x \in Held \/ (helmd = "idle" => x \in late')
    PROVE  LateInv'
BY DEF LateInv

\* Whatever is served in the 50 ms before an idle exit is counted among the late.
LEMMA LateStep == StreamInv /\ LateInv /\ [StreamNext]_streamVars => LateInv'
<1> SUFFICES ASSUME StreamInv, LateInv, [StreamNext]_streamVars PROVE LateInv'
  OBVIOUS
<1> USE DEF Held
<1>1. CASE PageNext
  BY <1>1, HeldGrows DEF PageNext, reconnect, setRunId, ticketArrives, ticketRefused, progress, daemonVars
<1>2. ASSUME NEW s \in Slot, \/ handleEventsTicket(s) \/ refuses(s) \/ lost(s) \/ unreachable(s)
                             \/ expires(s) \/ breaks(s)
      PROVE  LateInv'
  BY <1>2, HeldGrows DEF handleEventsTicket, refuses, lost, unreachable, expires, breaks, daemonVars
<1>3. ASSUME NEW s \in Slot, handleEvents(s) PROVE LateInv'
  BY <1>3, HeldGrows DEF handleEvents, begins
<1>4. ASSUME NEW s \in Slot, hangUp(s) PROVE LateInv'
  BY <1>4, HeldGrows DEF hangUp
<1>5. ASSUME NEW r \in Run, startWorkflowRun(r) PROVE LateInv'
  <2>1. Held' \subseteq Held \union {r}
    BY <1>5 DEF startWorkflowRun, StreamInv, StreamTypeOK
  <2>2. helmd' = helmd /\ late \subseteq late' /\ (helmd = "idle" => r \in late')
    BY <1>5 DEF startWorkflowRun, begins
  <2>3. QED
    BY <2>1, <2>2, HeldGrows
<1>6. ASSUME NEW r \in Run, runSettles(r) PROVE LateInv'
  <2>1. Held' \subseteq Held
    BY <1>6 DEF runSettles, StreamInv, StreamTypeOK
  <2>2. helmd' = helmd /\ late' = late
    BY <1>6 DEF runSettles
  <2>3. QED
    BY <2>1, <2>2, HeldGrows
<1>7. CASE otherOpens
  BY <1>7, HeldGrows DEF otherOpens, begins
<1>8. CASE otherCloses
  BY <1>8, HeldGrows DEF otherCloses, StreamInv, StreamTypeOK
<1>9. CASE onIdle
  <2>1. Held' = Held /\ Held = {}
    BY <1>9, NothingHeld DEF onIdle
  <2>2. QED
    BY <2>1 DEF LateInv
<1>10. CASE handleShutdown \/ exits \/ starts_again
  BY <1>10 DEF handleShutdown, exits, starts_again, LateInv
<1>11. CASE UNCHANGED streamVars
  BY <1>11 DEF streamVars, daemonVars, LateInv
<1>12. QED
  BY <1>1, <1>2, <1>3, <1>4, <1>5, <1>6, <1>7, <1>8, <1>9, <1>10, <1>11 DEF StreamNext, HelmdNext

\* An exit of the idle timer cuts off nothing that was begun before its
\* decision (isSuppressed and onIdle, index.mjs).
THEOREM IdleStops == StreamSpec => IdleCutsOnlyTheLate
<1>1. StreamInit => LateInv
  BY DEF StreamInit, LateInv
<1>2. LateInv => [helmd = "idle" /\ helmd' = "down" => Held \subseteq late]_streamVars
  BY DEF LateInv
<1>3. QED
  BY <1>1, <1>2, StreamStart, StreamStep, LateStep, PTL DEF StreamSpec, IdleCutsOnlyTheLate
=============================================================================
