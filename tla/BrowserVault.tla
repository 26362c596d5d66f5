---------------------------- MODULE BrowserVault -----------------------------
(***************************************************************************)
(* ui/views/connect.mjs, ui/oauth-callback.mjs, ui/lib/oauth-browser.mjs,  *)
(* ui/lib/vault.mjs and ui/lib/vault-token-store.mjs: connections made in  *)
(* the browser alone. Tabs of one origin share the vault record            *)
(* (localStorage) and the encrypted tokens (IndexedDB); a pending flow and *)
(* the relayed callback are the tab's own (sessionStorage). What a page    *)
(* started goes on beside its buttons: an OAuth flow that is completed as  *)
(* the view is rendered, and a token pasted and pasted again, each awaits  *)
(* the provider and the derivation of a key.                               *)
(***************************************************************************)
EXTENDS Naturals, FiniteSets

CONSTANTS Tab, Provider, Unset,
          Github,        \* the provider whose token is pasted
          Work,          \* bound: connections under way at a time, over all tabs
          MaxBegun       \* bound: connections begun, over all tabs

ASSUME BrowserAssumption ==
    Github \in Provider /\ Unset \notin Nat /\ Unset \notin Tab /\ MaxBegun \in Nat

VARIABLES record,   \* the wrapped DEK: its number, 0 when there is none
          tokens,   \* per provider: the DEK its token is encrypted with
          pending,  \* per tab and provider: the state of the flow, or Unset
          relay,    \* per tab: the callback's [state, code], or Unset
          page,     \* per tab: the view, the provider it left for, or back from it
          work,     \* the connections under way: tab, provider and key in use
          begun, deks,
          spent,    \* codes sent to a token endpoint, with the provider asked
          raced     \* DEKs saved while another enrolment was under way

browserVars == <<record, tokens, pending, relay, page, work, begun, deks, spent, raced>>
keys == <<record, tokens, deks, raced>>
Home == [phase |-> "view", provider |-> Unset, code |-> Unset]
Done == [phase |-> "none", tab |-> Unset, provider |-> Unset, dek |-> 0]

BrowserInit ==
    /\ record = 0 /\ tokens = [p \in Provider |-> Unset]
    /\ pending = [t \in Tab |-> [p \in Provider |-> Unset]]
    /\ relay = [t \in Tab |-> Unset] /\ page = [t \in Tab |-> Home]
    /\ work = [w \in Work |-> Done]
    /\ begun = 0 /\ deks = 0 /\ spent = {} /\ raced = {}

\* a page that leaves runs on until the new one is there
runs(t) == page[t].phase # "back"
workAt(w, phase) == work[w].phase = phase
moves(w, phase) == work' = [work EXCEPT ![w].phase = phase]
setsOff(w, t, p, phase) == /\ workAt(w, "none")
                           /\ work' = [work EXCEPT ![w] = [phase |-> phase, tab |-> t, provider |-> p, dek |-> 0]]
\* with the page goes all that it had under way
unloads(t) == work' = [w \in Work |-> IF work[w].tab = t THEN Done ELSE work[w]]

drop(t, gone) ==
    pending' = [pending EXCEPT ![t] = [q \in Provider |-> IF q \in gone THEN Unset ELSE @[q]]]
-----------------------------------------------------------------------------
\* the verifier and the state replace those of an earlier flow; the tab
\* leaves for the provider
startBrowserFlow(t, p) ==
    /\ runs(t) /\ p # Github /\ begun < MaxBegun
    /\ begun' = begun + 1
    /\ pending' = [pending EXCEPT ![t][p] = begun + 1]
    /\ page' = [page EXCEPT ![t] = [phase |-> "away", provider |-> p, code |-> begun + 1]]
    /\ UNCHANGED <<keys, relay, work, spent>>

\* oauth-callback.html: the code of the flow that was started, or an error
relayAndRedirect(t) ==
    /\ page[t].phase = "away"
    /\ relay' = [relay EXCEPT ![t] = [state |-> page[t].code, by |-> page[t].provider]]
    /\ page' = [page EXCEPT ![t] = [Home EXCEPT !.phase = "back"]]
    /\ unloads(t)
    /\ UNCHANGED <<keys, pending, begun, spent>>

\* the person comes back without an answer, with an error, or reloads
comeBack(t) ==
    /\ runs(t)
    /\ page' = [page EXCEPT ![t] = Home] /\ unloads(t)
    /\ UNCHANGED <<keys, pending, relay, begun, spent>>

matches(t, p) == pending[t][p] = relay[t].state

\* consumeRelayedResult, then each provider in turn: a pending flow with
\* another state is dropped on the way to the one that matches. The view is
\* shown and its buttons work
completePending(t, p, w) ==
    /\ page[t].phase = "back" /\ relay[t] # Unset /\ matches(t, p)
    /\ relay' = [relay EXCEPT ![t] = Unset]
    /\ \E earlier \in SUBSET (Provider \ {p}) : drop(t, earlier)
    /\ spent' = spent \cup {[code |-> relay[t].state, of |-> relay[t].by, to |-> p]}
    /\ page' = [page EXCEPT ![t] = Home] /\ setsOff(w, t, p, "exchange")
    /\ UNCHANGED <<keys, begun>>

\* no flow matches: all are dropped and the view says nothing
completeNone(t) ==
    /\ page[t].phase = "back" /\ \A p \in Provider : ~matches(t, p)
    /\ relay' = [relay EXCEPT ![t] = Unset] /\ page' = [page EXCEPT ![t] = Home]
    /\ drop(t, Provider)
    /\ UNCHANGED <<keys, work, begun, spent>>

\* a connection that fails: of an OAuth flow, the providers left are tried,
\* to no avail
givesUp(w) ==
    /\ \E gone \in SUBSET (IF work[w].provider = Github THEN {} ELSE Provider) : drop(work[w].tab, gone)
    /\ work' = [work EXCEPT ![w] = Done]

\* the token endpoint answers, and whatever flow is pending is cleared
completeBrowserFlow(w) ==
    /\ workAt(w, "exchange")
    /\ \/ drop(work[w].tab, {work[w].provider}) /\ moves(w, "vault")
       \/ givesUp(w)
    /\ UNCHANGED <<keys, relay, page, begun, spent>>

\* a token of the right form that GitHub accepts; the button stays in use
submitGithubPat(t, w) ==
    /\ runs(t) /\ begun < MaxBegun /\ setsOff(w, t, Github, "vault")
    /\ begun' = begun + 1
    /\ UNCHANGED <<keys, pending, relay, page, spent>>
-----------------------------------------------------------------------------
\* ensureVaultDek: unlock the record, or enroll a new one when none was read;
\* a wrong or no passphrase ends it
ensureVaultDek(w) ==
    /\ workAt(w, "vault")
    /\ \/ record # 0 /\ work' = [work EXCEPT ![w].phase = "store", ![w].dek = record]
          /\ UNCHANGED pending
       \/ record = 0 /\ moves(w, "enroll") /\ UNCHANGED pending
       \/ givesUp(w)
    /\ UNCHANGED <<keys, relay, page, begun, spent>>

enrolling(w) == workAt(w, "enroll")

\* Mistaken form: the record is not saved.
EnrollUnsaved(w) ==
    /\ enrolling(w)
    /\ deks' = deks + 1
    /\ work' = [work EXCEPT ![w].phase = "store", ![w].dek = deks + 1]
    /\ UNCHANGED <<record, tokens, pending, relay, page, begun, spent, raced>>

\* enrollPassphrase derives a key; then saveVaultRecord, whatever is saved by now
enrollPassphrase(w) ==
    /\ enrolling(w)
    /\ deks' = deks + 1 /\ record' = deks + 1
    /\ raced' = raced \cup {d \in {deks + 1} : \E v \in Work \ {w} : enrolling(v)}
    /\ work' = [work EXCEPT ![w].phase = "store", ![w].dek = deks + 1]
    /\ UNCHANGED <<tokens, pending, relay, page, begun, spent>>

setToken(w) ==
    /\ workAt(w, "store")
    /\ tokens' = [tokens EXCEPT ![work[w].provider] = work[w].dek]
    /\ work' = [work EXCEPT ![w] = Done]
    /\ UNCHANGED <<record, pending, relay, page, begun, deks, spent, raced>>
-----------------------------------------------------------------------------
BrowserNext ==
    \/ \E t \in Tab : \/ \E p \in Provider : \/ startBrowserFlow(t, p)
                                            \/ \E w \in Work : completePending(t, p, w)
                      \/ relayAndRedirect(t) \/ comeBack(t) \/ completeNone(t)
                      \/ \E w \in Work : submitGithubPat(t, w)
    \/ \E w \in Work : \/ completeBrowserFlow(w) \/ ensureVaultDek(w)
                       \/ enrollPassphrase(w) \/ setToken(w)

BrowserSpec == BrowserInit /\ [][BrowserNext]_browserVars
-----------------------------------------------------------------------------
\* A token in the store opens with the key of the record that is saved, unless
\* the record was enrolled while another enrolment was under way, in the same
\* tab or in another; and a code went to the provider that issued it and to it
\* alone.
StoredTokensOpen ==
    /\ \A p \in Provider : tokens[p] # Unset => tokens[p] = record \/ tokens[p] \in raced
    /\ \A s \in spent : s.of = s.to

\* "unlocks the existing passphrase-vault record, or enrolls a brand-new one on
\* first use": so whatever was stored opens with the record (connect.mjs:51-52).
EveryTokenOpens == \A p \in Provider : tokens[p] # Unset => tokens[p] = record
=============================================================================
