------------------------------ MODULE MCDaemon -------------------------------
(***************************************************************************)
(* What the daemon does from its start to its exit, in one run: it loads   *)
(* its keys, verifies its journal, and serves streams until it is idle.    *)
(* The three share no state that their properties are about, so a          *)
(* behaviour is one of one part.                                           *)
(***************************************************************************)
EXTENDS Boot, Identity, Stream

VARIABLE part
daemonLife == <<vars, identityVars, streamVars, part>>

DaemonInit ==
        /\ part \in {"boot", "identity", "stream"}
        /\ Init /\ IdentityInit /\ StreamInit
        \* a part at rest has one initial state
        /\ part # "identity" => label = None /\ legacy = None /\ blob["keys"] = None

DaemonNext ==
        /\ UNCHANGED part
        /\ \/ part = "boot" /\ Next /\ UNCHANGED <<identityVars, streamVars>>
           \/ part = "identity" /\ IdentityNext /\ UNCHANGED <<vars, streamVars>>
           \/ part = "stream" /\ StreamNext /\ UNCHANGED <<vars, identityVars>>

\* Somebody starts helmd again, the keychain comes back, a process that loads
\* keys goes on; deaths and locks are not fair.
IdentityFairness ==
    /\ WF_identityVars(part = "identity" /\ Unlock)
    /\ \A p \in Proc : /\ WF_identityVars(part = "identity" /\ StartLoad(p))
                       /\ WF_identityVars(part = "identity" /\ LoadStep(p))

\* Timers fire, answers and events arrive, other tabs are closed one day; that
\* a run settles is the business of run_settles.
StreamFairness ==
    /\ WF_streamVars(part = "stream" /\ reconnect) /\ WF_streamVars(part = "stream" /\ otherCloses)
    /\ \A s \in Slot :
          /\ WF_streamVars(part = "stream" /\ ticketArrives(s))
          /\ WF_streamVars(part = "stream" /\ ticketRefused(s))
          /\ WF_streamVars(part = "stream" /\ handleEventsTicket(s))
          /\ WF_streamVars(part = "stream" /\ progress(s))
          /\ WF_streamVars(part = "stream" /\ (handleEvents(s) \/ refuses(s) \/ unreachable(s)))
          /\ WF_streamVars(part = "stream" /\ lost(s)) /\ WF_streamVars(part = "stream" /\ hangUp(s))

DaemonSpec == DaemonInit /\ [][DaemonNext]_daemonLife /\ IdentityFairness /\ StreamFairness
=============================================================================
