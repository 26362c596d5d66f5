---------------------------- MODULE MCConnections ----------------------------
(***************************************************************************)
(* The four parts that deal with somebody outside, in one run. They share  *)
(* no state: dispatch.mjs gives a connector an empty vault slice, the      *)
(* browser has a vault of its own, and the relay is asked for a digest     *)
(* only. So a behaviour is one of one part.                                *)
(***************************************************************************)
EXTENDS OAuth, Egress, BrowserVault, AnchorQueue

VARIABLE part
vars == <<oauthVars, egressVars, browserVars, anchorVars, part>>

Init == /\ part \in {"oauth", "egress", "browser", "anchors"}
        /\ OAuthInit /\ EgressInit /\ BrowserInit /\ AnchorInit
        \* a part at rest has one initial state
        /\ part # "anchors" => head = 0

Next == /\ UNCHANGED part
        /\ \/ part = "oauth" /\ OAuthNext /\ UNCHANGED <<egressVars, browserVars, anchorVars>>
           \/ part = "egress" /\ EgressNext /\ UNCHANGED <<oauthVars, browserVars, anchorVars>>
           \/ part = "browser" /\ BrowserNext /\ UNCHANGED <<oauthVars, egressVars, anchorVars>>
           \/ part = "anchors" /\ AnchorNext /\ UNCHANGED <<oauthVars, egressVars, browserVars>>

\* Timers and time limits of requests pass; nothing else is certain.
OAuthFairness ==
    \A f \in Flow : /\ WF_oauthVars(part = "oauth" /\ expireFlow(f))
                    /\ WF_oauthVars(part = "oauth" /\ exchangeFails(f))

\* The event loop runs what is ready, a request to the relay is aborted after
\* its timeout, and time passes.
AnchorFairness ==
    /\ WF_anchorVars(part = "anchors" /\ PassStep)
    /\ WF_anchorVars(part = "anchors" /\ Tick)

Spec == Init /\ [][Next]_vars /\ OAuthFairness /\ AnchorFairness
=============================================================================
