---------------------------- MODULE AppendOnlyLog ----------------------------
(***************************************************************************)
(* What hub/journal.mjs promises its callers: one log shared by all the    *)
(* streams, to which an entry is added at the end, whole, and which never  *)
(* loses, changes or reorders an entry, whatever fails half-way.           *)
(***************************************************************************)
EXTENDS Naturals, Sequences

CONSTANTS Streams,   \* stream ids: "run:<id>", "egress:<connector>", ...
          Digests    \* digests of the journaled entries

VARIABLE log

Entry == [stream : Streams, digest : Digests]

Init == log = <<>>

AddEntry == \E e \in Entry : log' = Append(log, e)

Spec == Init /\ [][AddEntry]_log
=============================================================================
