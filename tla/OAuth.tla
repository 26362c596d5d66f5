-------------------------------- MODULE OAuth --------------------------------
(***************************************************************************)
(* hub/oauth-pkce.mjs and hub/migration-import.mjs over hub/vault.mjs: the *)
(* loopback authorization flows, the registry connections.json, and the    *)
(* import of a browser's vault, which all store secrets under refs of the  *)
(* vault's two tiers.                                                      *)
(*                                                                         *)
(* The daemon is one thread: a handler runs without interruption up to an  *)
(* await, which is where an action ends. What a handler writes before the  *)
(* process dies is a prefix of its writes (the parameter died).            *)
(***************************************************************************)
EXTENDS Naturals, FiniteSets

CONSTANTS Flow,      \* flow ids; a completed flow's connection has its id
          Bundle,    \* migration bundles of one source_origin, by root digest
          Origin,    \* the vault ref migrated-vault:<source_origin>
          None,
          MaxDeaths, \* bound: deaths of the daemon
          MaxLocks   \* bound: times the keychain becomes unreachable

ASSUME OAuthAssumption ==
    /\ Origin \notin Flow /\ None \notin Flow \cup Bundle
    /\ None \notin {"active", "revoked", "native", "file"}
    /\ MaxDeaths \in Nat /\ MaxLocks \in Nat

Ref == Flow \cup {Origin}

VARIABLES flow,    \* the Map of flows: status of each, "none" when unknown
          timer,   \* flows whose FLOW_TTL_MS timer is set
          conns,   \* connections.json: connection -> status
          vault,   \* the tiers native and file and vault-index.json
          revoking,\* revokeConnection calls that await the provider: the
                   \* list each has read
          markers, \* roots with a migration_import row in the journal
          locked, deaths, locks

oauthVars == <<flow, timer, conns, vault, revoking, markers, locked, deaths, locks>>

OAuthInit ==
    /\ flow = [f \in Flow |-> "none"] /\ timer = {}
    /\ conns = [f \in Flow |-> None]
    /\ vault = [native |-> [r \in Ref |-> None], file |-> [r \in Ref |-> None],
                index |-> [r \in Ref |-> None]]
    /\ revoking = [f \in Flow |-> None]
    /\ markers = {} /\ locked = FALSE /\ deaths = 0 /\ locks = 0
-----------------------------------------------------------------------------
(* vault.mjs.                                                              *)

vaultSet(v, r, x) ==
    IF locked THEN [v EXCEPT !.file[r] = x, !.index[r] = "file"]
              ELSE [v EXCEPT !.native[r] = x, !.index[r] = "native"]

\* the indexed tier, or else the file tier
vaultGet(v, r) ==
    IF v.index[r] = "native" /\ ~locked /\ v.native[r] # None THEN v.native[r] ELSE v.file[r]

\* Mistaken form: only the tier the index names is cleared.
DeleteIndexed(v, r) ==
    IF v.index[r] = "native" THEN [v EXCEPT !.native[r] = IF locked THEN @ ELSE None]
                             ELSE [v EXCEPT !.index[r] = None]

\* a keychain that cannot be reached keeps the secret; the program's exit
\* status is not looked at
vaultDelete(v, r) ==
    [native |-> [v.native EXCEPT ![r] = IF v.index[r] = "native" /\ ~locked THEN None ELSE @],
     file |-> [v.file EXCEPT ![r] = None],
     index |-> [v.index EXCEPT ![r] = None]]
-----------------------------------------------------------------------------
\* What a death of the process leaves: files and tables.
forget(died) ==
    IF died
    THEN /\ deaths < MaxDeaths /\ deaths' = deaths + 1
         /\ flow' = [f \in Flow |-> "none"] /\ timer' = {}
         /\ revoking' = [f \in Flow |-> None]
    ELSE UNCHANGED <<deaths, flow, timer, revoking>>

startFlow(f) ==
    /\ flow[f] = "none" /\ conns[f] = None /\ vault.index[f] = None
    /\ flow' = [flow EXCEPT ![f] = "pending"] /\ timer' = timer \cup {f}
    /\ UNCHANGED <<conns, vault, revoking, markers, locked, deaths, locks>>

expireFlow(f) ==
    /\ f \in timer /\ flow[f] = "pending"
    /\ flow' = [flow EXCEPT ![f] = "expired"] /\ timer' = timer \ {f}
    /\ UNCHANGED <<conns, vault, revoking, markers, locked, deaths, locks>>

\* the redirect back: an error, a foreign state or no code ends the flow; a
\* code is exchanged, and neither the listener nor the timer is there anymore
handleCallback(f) ==
    /\ f \in timer /\ flow[f] = "pending"
    /\ timer' = timer \ {f}
    /\ \E outcome \in {"error", "exchanging"} : flow' = [flow EXCEPT ![f] = outcome]
    /\ UNCHANGED <<conns, vault, revoking, markers, locked, deaths, locks>>

\* Mistaken form: the request to the token endpoint has no time limit.
ExchangeUnbounded(f) == FALSE /\ UNCHANGED oauthVars

exchangeFails(f) ==
    /\ flow[f] = "exchanging"
    /\ flow' = [flow EXCEPT ![f] = "error"]
    /\ UNCHANGED <<timer, conns, vault, revoking, markers, locked, deaths, locks>>

completeFlow(f, died) ==
    /\ flow[f] = "exchanging"
    /\ vault' = vaultSet(vault, f, f)
    /\ IF died THEN UNCHANGED conns /\ forget(TRUE)
       ELSE /\ conns' = [conns EXCEPT ![f] = "active"]
            /\ flow' = [flow EXCEPT ![f] = "complete"]
            /\ UNCHANGED <<timer, revoking, deaths>>
    /\ UNCHANGED <<markers, locked, locks>>

\* a provider with a revocation endpoint is asked first, with the list
\* already read
revokeConnection(f) ==
    /\ conns[f] # None /\ revoking[f] = None
    /\ revoking' = [revoking EXCEPT ![f] = conns]
    /\ UNCHANGED <<flow, timer, conns, vault, markers, locked, deaths, locks>>

\* the provider answered, failed or timed out: all the same
revokeLocally(f, died) ==
    /\ revoking[f] # None
    /\ vault' = vaultDelete(vault, f)
    /\ IF died THEN UNCHANGED conns /\ forget(TRUE)
       ELSE /\ conns' = [revoking[f] EXCEPT ![f] = "revoked"]
            /\ revoking' = [revoking EXCEPT ![f] = None]
            /\ UNCHANGED <<flow, timer, deaths>>
    /\ UNCHANGED <<markers, locked, locks>>
-----------------------------------------------------------------------------
(* importMigrationBundle, for a bundle whose entries match its manifest    *)
(* (MigratedIsWhole in Evidence.tla): one synchronous handler.            *)

\* Mistaken form: the marker is journalled before the material is stored.
ImportMarkerFirst(b, overwrite, died) ==
    /\ b \notin markers
    /\ overwrite \/ vaultGet(vault, Origin) = None
    /\ markers' = markers \cup {b}
    /\ vault' = IF died THEN vault ELSE vaultSet(vault, Origin, b)
    /\ forget(died)
    /\ UNCHANGED <<conns, locked, locks>>

\* nothing happens to a bundle already marked, nor, without overwrite, when
\* the ref holds something
importMigrationBundle(b, overwrite, died) ==
    /\ b \notin markers
    /\ overwrite \/ vaultGet(vault, Origin) = None
    /\ vault' = vaultSet(vault, Origin, b)
    /\ markers' = IF died THEN markers ELSE markers \cup {b}
    /\ forget(died)
    /\ UNCHANGED <<conns, locked, locks>>
-----------------------------------------------------------------------------
Die == /\ forget(TRUE)
       /\ UNCHANGED <<conns, vault, markers, locked, locks>>

LockKeychain == /\ ~locked /\ locks < MaxLocks
                /\ locked' = TRUE /\ locks' = locks + 1
                /\ UNCHANGED <<flow, timer, conns, vault, revoking, markers, deaths>>

UnlockKeychain == /\ locked /\ locked' = FALSE
                  /\ UNCHANGED <<flow, timer, conns, vault, revoking, markers, deaths, locks>>

OAuthNext ==
    \/ \E f \in Flow : startFlow(f) \/ expireFlow(f) \/ handleCallback(f) \/ exchangeFails(f)
                       \/ revokeConnection(f)
    \/ \E f \in Flow, died \in BOOLEAN : completeFlow(f, died) \/ revokeLocally(f, died)
    \/ \E b \in Bundle, overwrite, died \in BOOLEAN : importMigrationBundle(b, overwrite, died)
    \/ Die \/ LockKeychain \/ UnlockKeychain

OAuthSpec == OAuthInit /\ [][OAuthNext]_oauthVars
-----------------------------------------------------------------------------
\* A connection shown as revoked has no token that the vault would still
\* give out, now or when the keychain comes back, wherever it was stored and
\* whatever other flows, revocations and deaths came in between.
RevokedIsUnusable ==
    \A f \in Flow : conns[f] = "revoked" => vault.index[f] = None /\ vault.file[f] = None

\* A flow the view polls does not stay pending: it ends, or the daemon that
\* knew of it does.
FlowSettles ==
    \A f \in Flow : flow[f] \in {"pending", "exchanging"} ~> flow[f] \notin {"pending", "exchanging"}

\* A migration_import row stands for material that is in the vault under the
\* ref it names, also when the import died half way.
MarkerHasMaterial ==
    markers # {} =>
        /\ vault.index[Origin] # None
        /\ (IF vault.index[Origin] = "native" THEN vault.native ELSE vault.file)[Origin] \in Bundle

\* The registry, the journal's markers and the vault agree about what can be
\* used, across revocations, imports, a locked keychain and deaths.
VaultMatchesRegistry == RevokedIsUnusable /\ MarkerHasMaterial
-----------------------------------------------------------------------------
(* What comments of the code say and the code does not do: see the README. *)

\* Tokens live in the vault for connections of the registry only.
TokensAreListed ==
    deaths = 0 => \A f \in Flow : vault.index[f] # None => conns[f] # None

\* A revocation is not undone.
RevocationIsFinal == [][\A f \in Flow : conns[f] = "revoked" => conns'[f] = "revoked"]_oauthVars

\* An import without overwrite replaces no material.
NoSilentOverwrite ==
    [][\A b \in Bundle, died \in BOOLEAN :
         importMigrationBundle(b, FALSE, died) => vault.index[Origin] = None]_oauthVars
=============================================================================
