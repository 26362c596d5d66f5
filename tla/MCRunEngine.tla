----------------------------- MODULE MCRunEngine -----------------------------
(* Manifests for model checking RunEngine.                                 *)
EXTENDS RunEngine, TLC

\* a fetch, the node it feeds, and a node gated on that node's artifact
BoundFeeds == <<{}, {1}, {}>>

\* nothing bound
PlainFeeds == <<{}, {}, {}>>

CallSymmetry == Permutations(Calls)
=============================================================================
