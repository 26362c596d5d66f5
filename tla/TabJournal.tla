----------------------------- MODULE TabJournal ------------------------------
(***************************************************************************)
(* ui/lib/browser-journal.mjs, browser-journal-client.mjs and              *)
(* journal-worker.mjs: the browser's own journal, a file of checksummed    *)
(* frames that the tab holding a Web Lock writes through a worker. A tab   *)
(* may be killed in the middle of a write, hidden and shown again from the *)
(* back/forward cache, and may send several appends at once, also before   *)
(* its worker has read the file. Offsets are counted in frames.            *)
(***************************************************************************)
EXTENDS Naturals, Sequences, FiniteSets

CONSTANTS Page,         \* tabs of the origin
          Vacant,
          MaxEntries,   \* bound: entries ever appended
          MaxKills      \* bound: tabs killed

ASSUME TabAssumption == Vacant \notin Page /\ MaxEntries \in Nat /\ MaxKills \in Nat

VARIABLES file,     \* the frames: an entry's number, or 0 for a torn one
          lock,     \* the tab holding the writer lock, or Vacant
          handle,   \* the tab whose worker holds the file's access handle
          page,     \* per tab: "gone", "electing", "writer", "reader", "hidden"
          role,     \* per tab: writerRole
          worker,   \* per tab: "none", "init", "opening", "opened", "ready", "failed", "closing"
          buffer,   \* what the worker that holds the handle read when it opened
          validEnd, \* per tab: frames its worker counts as valid
          encoding,     \* per tab: entries whose frame is being encoded
          made, kills,
          acked,    \* entries whose append was answered
          early,    \* history: the worker that holds the handle wrote before it had read
          spoiled   \* history: entries it then wrote over or wrote

tabVars == <<file, lock, handle, page, role, worker, buffer, validEnd, encoding, made, kills, acked, early, spoiled>>
readVars == <<buffer, early, spoiled>>

TabInit ==
    /\ file = <<>> /\ lock = Vacant /\ handle = Vacant
    /\ page = [t \in Page |-> "gone"] /\ role = [t \in Page |-> "reader"]
    /\ worker = [t \in Page |-> "none"] /\ validEnd = [t \in Page |-> 0]
    /\ encoding = [t \in Page |-> {}] /\ made = 0 /\ kills = 0 /\ acked = {}
    /\ buffer = <<>> /\ early = FALSE /\ spoiled = {}
-----------------------------------------------------------------------------
\* a page load: boot, startBrowserJournal
opens(t) ==
    /\ page[t] = "gone"
    /\ page' = [page EXCEPT ![t] = "electing"] /\ role' = [role EXCEPT ![t] = "reader"]
    /\ UNCHANGED <<file, lock, handle, worker, validEnd, encoding, made, kills, acked, readVars>>

\* electWriterRole with ifAvailable; the writer starts its worker
electWriterRole(t) ==
    /\ page[t] = "electing"
    /\ IF lock = Vacant
       THEN /\ lock' = t /\ page' = [page EXCEPT ![t] = "writer"]
            /\ role' = [role EXCEPT ![t] = "writer"] /\ worker' = [worker EXCEPT ![t] = "init"]
       ELSE /\ page' = [page EXCEPT ![t] = "reader"] /\ UNCHANGED <<lock, role, worker>>
    /\ UNCHANGED <<file, handle, validEnd, encoding, made, kills, acked, readVars>>

\* Mistaken form: a torn frame counts.
ScanAll(f) == Len(f)

\* the frames before the first one that does not check
scanRecords(f) ==
    CHOOSE n \in 0..Len(f) : /\ \A i \in 1..n : f[i] # 0
                             /\ n = Len(f) \/ f[n + 1] = 0

\* "init": createSyncAccessHandle fails while another worker holds it. From
\* here on there is a journal, with validEnd at 0; open reads the file and
\* awaits a digest for every frame.
openHandle(t) ==
    /\ worker[t] = "init"
    /\ IF handle = Vacant
       THEN /\ handle' = t /\ worker' = [worker EXCEPT ![t] = "opening"]
            /\ buffer' = file /\ early' = FALSE /\ validEnd' = [validEnd EXCEPT ![t] = 0]
       ELSE worker' = [worker EXCEPT ![t] = "failed"] /\ UNCHANGED <<handle, buffer, early, validEnd>>
    /\ UNCHANGED <<file, lock, page, role, encoding, made, kills, acked, spoiled>>

\* open goes on: what is behind the last good frame of what was read is cut off
scanned(t) ==
    /\ worker[t] = "opening" /\ worker' = [worker EXCEPT ![t] = "opened"]
    /\ LET end == scanRecords(buffer) IN
       /\ file' = IF end < Len(buffer) THEN SubSeq(file, 1, end) ELSE file
       /\ validEnd' = [validEnd EXCEPT ![t] = end]
    /\ UNCHANGED <<lock, handle, page, role, encoding, made, kills, acked, readVars>>

\* the answer arrives; from here on the tab listens for pagehide
initAnswered(t) ==
    /\ worker[t] = "opened" /\ page[t] # "hidden" /\ worker' = [worker EXCEPT ![t] = "ready"]
    /\ UNCHANGED <<file, lock, handle, page, role, validEnd, encoding, made, kills, acked, readVars>>

Writes(t) == worker[t] \in {"opening", "opened", "ready", "closing"}

\* append: refused by a reader, and by a worker without a journal; its frame is then being encoded
append(t) ==
    /\ page[t] = "writer" /\ role[t] = "writer" /\ made < MaxEntries
    /\ worker[t] \in {"opening", "opened", "ready"}
    /\ made' = made + 1 /\ encoding' = [encoding EXCEPT ![t] = @ \union {made + 1}]
    /\ UNCHANGED <<file, lock, handle, page, role, worker, validEnd, kills, acked, readVars>>

\* at: where BrowserJournal.append writes the frame
at(t) == validEnd[t] + 1
placed(t, e) == [i \in 1..(IF at(t) > Len(file) THEN at(t) ELSE Len(file)) |->
                    IF i = at(t) THEN e ELSE IF i \in DOMAIN file THEN file[i] ELSE 0]

writtenEarly(t) == early \/ worker[t] = "opening"
\* A frame over one of another length leaves no frame behind it.
overwritten(t, e) == [i \in 1..(IF at(t) >= Len(file) THEN at(t) + 1 ELSE Len(file)) |->
                         IF i = at(t) THEN e ELSE IF i = at(t) + 1 \/ i \notin DOMAIN file THEN 0 ELSE file[i]]

\* write and flush in one turn of the worker, then the answer
writes(t, e) ==
    /\ e \in encoding[t] /\ Writes(t)
    /\ \/ file' = placed(t, e)
       \/ writtenEarly(t) /\ at(t) \in DOMAIN file /\ file' = overwritten(t, e)
    /\ validEnd' = [validEnd EXCEPT ![t] = @ + 1]
    /\ encoding' = [encoding EXCEPT ![t] = @ \ {e}] /\ acked' = acked \union {e}
    /\ early' = writtenEarly(t)
    /\ spoiled' = IF writtenEarly(t) THEN spoiled \union acked \union {e} ELSE spoiled
    /\ UNCHANGED <<lock, handle, page, role, worker, made, kills, buffer>>

dies(t) ==
    /\ page' = [page EXCEPT ![t] = "gone"] /\ role' = [role EXCEPT ![t] = "reader"]
    /\ worker' = [worker EXCEPT ![t] = "none"] /\ encoding' = [encoding EXCEPT ![t] = {}]
    /\ validEnd' = [validEnd EXCEPT ![t] = 0]
    /\ lock' = (IF lock = t THEN Vacant ELSE lock)
    /\ handle' = (IF handle = t THEN Vacant ELSE handle)

\* killed: the browser frees the lock and the handle
killed(t) ==
    /\ page[t] # "gone" /\ kills < MaxKills /\ kills' = kills + 1
    /\ dies(t) /\ UNCHANGED <<file, made, acked, readVars>>

\* killed in the middle of a write: part of a frame is in the file
torn(t) ==
    /\ kills < MaxKills /\ kills' = kills + 1
    /\ encoding[t] # {} /\ Writes(t) /\ file' = placed(t, 0)
    /\ spoiled' = IF writtenEarly(t) THEN spoiled \union acked ELSE spoiled
    /\ dies(t) /\ UNCHANGED <<made, acked, buffer, early>>

\* pagehide, once it is listened for: the worker is told to close, and the lock released at once
pagehide(t) ==
    /\ page[t] \in {"electing", "writer", "reader"}
    /\ page' = [page EXCEPT ![t] = "hidden"]
    /\ IF worker[t] = "ready"
       THEN /\ lock' = (IF lock = t THEN Vacant ELSE lock)
            /\ worker' = [worker EXCEPT ![t] = "closing"]
       ELSE UNCHANGED <<lock, worker>>
    /\ UNCHANGED <<file, handle, role, validEnd, encoding, made, kills, acked, readVars>>

\* "close" reaches the worker; an append it has not written yet then
\* throws, its journal gone
workerCloses(t) ==
    /\ worker[t] = "closing"
    /\ worker' = [worker EXCEPT ![t] = "failed"] /\ encoding' = [encoding EXCEPT ![t] = {}]
    /\ handle' = (IF handle = t THEN Vacant ELSE handle)
    /\ UNCHANGED <<file, lock, page, role, validEnd, made, kills, acked, readVars>>

\* pageshow from the back/forward cache: nothing of boot runs again
restored(t) ==
    /\ page[t] = "hidden" /\ kills < MaxKills /\ kills' = kills + 1
    /\ page' = [page EXCEPT ![t] = role[t]]
    /\ UNCHANGED <<file, lock, handle, role, worker, validEnd, encoding, made, acked, readVars>>

\* the hidden page is dropped from the cache
discarded(t) == page[t] = "hidden" /\ dies(t) /\ UNCHANGED <<file, made, kills, acked, readVars>>

TabNext ==
    \E t \in Page : \/ opens(t) \/ electWriterRole(t)
                    \/ openHandle(t) \/ scanned(t) \/ initAnswered(t) \/ append(t)
                    \/ \E e \in encoding[t] : writes(t, e)
                    \/ killed(t) \/ torn(t) \/ pagehide(t) \/ workerCloses(t)
                    \/ restored(t) \/ discarded(t)

TabSpec == TabInit /\ [][TabNext]_tabVars
-----------------------------------------------------------------------------
Recoverable(f, e) == \E i \in 1..Len(f) : f[i] = e /\ \A j \in 1..i : f[j] # 0

\* An append that was answered is found by whoever opens the file next, in
\* whatever order tabs were killed, hidden or restored (open and append,
\* browser-journal.mjs). What is lost is lost in one way: a worker writes
\* before it has read the file, over frames that were answered, and what it
\* writes from then on stands among their remains.
AckedIsRecovered == \A e \in acked \ spoiled : Recoverable(file, e)

-----------------------------------------------------------------------------
(* What comments of the code say and the code does not do: see the README. *)
\* There is no append before the init (onmessage, journal-worker.mjs), so
\* nothing that was answered is lost.
AckedIsKept == \A e \in acked : Recoverable(file, e)

\* A tab on the screen that counts itself the writer holds the lock: after
\* the back/forward cache a fresh election has run (_wireLifecycle,
\* browser-journal-client.mjs).
WriterHoldsLock == \A t \in Page : page[t] = "writer" => lock = t
===============================================================================
