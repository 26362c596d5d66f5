------------------------------ MODULE MCRecords ------------------------------
(***************************************************************************)
(* The parts that keep, sign, pin, hand out and verify records, in one     *)
(* run. They share no state: matters refer to rows by hash, a lineage or a *)
(* bundle is verified from the file alone, and the browser's journal is    *)
(* the browser's. So a behaviour is one of one part. (What the daemon's    *)
(* journal means to boots and runs is in Boot and RunEngine, and a kernel  *)
(* that a pack pins is not what a journal row is about.)                   *)
(***************************************************************************)
EXTENDS Journal, Matters, Lineage, Evidence, TabJournal, Packs

VARIABLE part
vars == <<jvars, matterVars, lineageVars, evidenceVars, tabVars, packsVars, part>>

Init == /\ part \in {"journal", "matters", "lineage", "evidence", "tabs", "packs"}
        /\ InitJournal /\ MatterInit /\ LineageInit /\ EvidenceInit /\ TabInit /\ PacksInit
        \* a part at rest has one initial state
        /\ part # "lineage" => keyEvents[1].commits = CHOOSE k \in KeyPair : TRUE

Next == /\ UNCHANGED part
        /\ \/ part = "journal" /\ AppendEntry /\ UNCHANGED <<matterVars, lineageVars, evidenceVars, tabVars, packsVars>>
           \/ part = "matters" /\ MatterNext /\ UNCHANGED <<jvars, lineageVars, evidenceVars, tabVars, packsVars>>
           \/ part = "lineage" /\ LineageNext /\ UNCHANGED <<jvars, matterVars, evidenceVars, tabVars, packsVars>>
           \/ part = "evidence" /\ EvidenceNext /\ UNCHANGED <<jvars, matterVars, lineageVars, tabVars, packsVars>>
           \/ part = "tabs" /\ TabNext /\ UNCHANGED <<jvars, matterVars, lineageVars, evidenceVars, packsVars>>
           \/ part = "packs" /\ PacksNext /\ UNCHANGED <<jvars, matterVars, lineageVars, evidenceVars, tabVars>>

Spec == Init /\ [][Next]_vars
=============================================================================
