------------------------------- MODULE Egress --------------------------------
(***************************************************************************)
(* hub/connector.mjs, hub/connectors/dispatch.mjs, http-send.mjs,          *)
(* google-drive-fetch.mjs, smtp-send.mjs and ui/lib/connector-browser.mjs: *)
(* the calls that connectors make to the outside. A call checks its        *)
(* contract, resolves the host name, pins the address it has vetted for    *)
(* every lookup of the process until it has connected, and journals what   *)
(* it decided, hop by hop. Calls interleave at every await.                *)
(***************************************************************************)
EXTENDS Naturals, Sequences, FiniteSets

CONSTANTS Call,
          Host, AllowedHost,   \* all hosts, and those of the contract
          Addr, DeniedAddr,    \* addresses, and the private ones
          Nothing,
          MaxRedirects         \* 5 in the code

ASSUME EgressAssumption ==
    /\ AllowedHost \subseteq Host /\ DeniedAddr \subseteq Addr /\ Nothing \notin Addr
    /\ IsFiniteSet(Call) /\ MaxRedirects \in Nat

VARIABLES call,    \* per call: kind, phase, host of the current hop, hops made,
                   \* the address vetted, and for smtp the channel
          pins,    \* pinnedResolutions: host -> address and references
          rows,    \* per call: the rows recordEgress appended
          reached  \* per call: host and address of every connection made

egressVars == <<call, pins, rows, reached>>

Kind == {"http.send", "smtp.send", "browser"}
NoCall == [kind |-> Nothing, phase |-> "idle", host |-> Nothing, hops |-> 0, ip |-> Nothing,
           secure |-> "none"]
NoPin == [ip |-> Nothing, refs |-> 0]

EgressInit ==
    /\ call = [c \in Call |-> NoCall]
    /\ pins = [h \in Host |-> NoPin]
    /\ rows = [c \in Call |-> <<>>] /\ reached = [c \in Call |-> <<>>]

at(c, phase) == call[c].phase = phase
to(c, phase) == call' = [call EXCEPT ![c].phase = phase]
recordEgress(c, decision) ==
    rows' = [rows EXCEPT ![c] = Append(@, [host |-> call[c].host, decision |-> decision])]
-----------------------------------------------------------------------------
\* runConnectorStep: an unknown connector, a contract that is not the one
\* the manifest pins, or parameters that are missing or hold a line break end
\* the step; so does google-drive.fetch, which init({}) gives no token.
dispatchRefuses(c) ==
    /\ at(c, "idle") /\ to(c, "refused")
    /\ UNCHANGED <<pins, rows, reached>>

\* init, buildPayload, send
dispatch(c, kind, host) ==
    /\ at(c, "idle")
    /\ call' = [call EXCEPT ![c] = [NoCall EXCEPT !.kind = kind, !.phase = "check", !.host = host]]
    /\ UNCHANGED <<pins, rows, reached>>

assertEgressAllowed(h) == h \in AllowedHost

Blocked(c) ==
    /\ at(c, "check") /\ ~assertEgressAllowed(call[c].host)
    /\ recordEgress(c, "blocked") /\ to(c, "blocked")
    /\ UNCHANGED <<pins, reached>>

Allowed(c) ==
    /\ at(c, "check") /\ assertEgressAllowed(call[c].host)
    /\ to(c, IF call[c].kind = "browser" THEN "fetch" ELSE "resolve")
    /\ UNCHANGED <<pins, rows, reached>>

\* resolveVettedIp: no address, or one that is denied among them
ResolvedDenied(c) ==
    /\ at(c, "resolve")
    /\ recordEgress(c, "blocked") /\ to(c, "blocked")
    /\ UNCHANGED <<pins, reached>>

\* a pin in use is moved to the newer answer, for all who hold it
pinHostResolution(h, ip) == [pins EXCEPT ![h] = [ip |-> ip, refs |-> @.refs + 1]]

\* Mistaken form: the first to finish takes the pin of the others away.
UnpinAll(h) == [pins EXCEPT ![h] = NoPin]

unpin(h) == [pins EXCEPT ![h] = IF @.refs = 1 THEN NoPin ELSE [ip |-> @.ip, refs |-> @.refs - 1]]

resolveVettedIp(c, ip) ==
    /\ at(c, "resolve") /\ ip \in Addr \ DeniedAddr
    /\ pins' = pinHostResolution(call[c].host, ip)
    /\ call' = [call EXCEPT ![c].phase = "fetch", ![c].ip = ip]
    /\ UNCHANGED <<rows, reached>>

\* dns.lookup while connecting: the pin, or else whatever the resolver says now
pinnedDnsLookup(h) == IF pins[h].refs > 0 THEN {pins[h].ip} ELSE Addr

\* the lookups of a browser are its own
connect(c, ip) ==
    /\ at(c, "fetch")
    /\ ip \in IF call[c].kind = "browser" THEN Addr ELSE pinnedDnsLookup(call[c].host)
    /\ reached' = [reached EXCEPT ![c] = Append(@, [host |-> call[c].host, ip |-> ip])]
    /\ IF call[c].kind = "smtp.send"
       THEN /\ pins' = unpin(call[c].host)
            /\ \E secure \in {"none", "starttls", "tls"} :
                 call' = [call EXCEPT ![c].phase = "greeting", ![c].secure = secure]
       ELSE to(c, "wait") /\ UNCHANGED pins
    /\ UNCHANGED rows

release(c) == IF call[c].kind = "browser" THEN pins ELSE unpin(call[c].host)

\* no connection, a lost one or EGRESS_TIMEOUT_MS; nothing is journalled
FetchFails(c) ==
    /\ call[c].phase \in {"fetch", "wait"}
    /\ pins' = release(c) /\ to(c, "failed")
    /\ UNCHANGED <<rows, reached>>

\* Mistaken form: only the last answer is journalled.
RedirectSilently(c, h) ==
    /\ at(c, "wait")
    /\ pins' = release(c)
    /\ call' = [call EXCEPT ![c].hops = @ + 1, ![c].host = h,
                            ![c].phase = IF call[c].hops = MaxRedirects THEN "failed" ELSE "check"]
    /\ UNCHANGED <<rows, reached>>

\* a 3xx with a location
redirect(c, h) ==
    /\ at(c, "wait")
    /\ pins' = release(c)
    /\ recordEgress(c, "allowed")
    /\ call' = [call EXCEPT ![c].hops = @ + 1, ![c].host = h,
                            ![c].phase = IF call[c].hops = MaxRedirects THEN "failed" ELSE "check"]
    /\ UNCHANGED reached

\* a browser does not show where an opaque redirect leads
opaqueRedirect(c) ==
    /\ at(c, "wait") /\ call[c].kind = "browser"
    /\ recordEgress(c, "blocked") /\ to(c, "failed")
    /\ UNCHANGED <<pins, reached>>

answer(c) ==
    /\ at(c, "wait")
    /\ pins' = release(c)
    /\ recordEgress(c, "allowed") /\ to(c, "done")
    /\ UNCHANGED reached
-----------------------------------------------------------------------------
(* runDialogue of smtp-send.mjs: any reply may be another than the one     *)
(* expected, or not come.                                                  *)

starttls(c) ==
    /\ at(c, "greeting") /\ call[c].secure = "starttls"
    /\ call' = [call EXCEPT ![c].secure = "tls"]
    /\ UNCHANGED <<pins, rows, reached>>

\* AUTH LOGIN with the credential of the vault slice, over TLS only
authLogin(c) ==
    /\ at(c, "greeting") /\ call[c].secure = "tls" /\ to(c, "mail")
    /\ UNCHANGED <<pins, rows, reached>>

\* MAIL, RCPT and DATA, after AUTH or without a credential
mailData(c) ==
    /\ call[c].phase \in {"greeting", "mail"} /\ call[c].secure # "starttls"
    /\ to(c, "accepted")
    /\ UNCHANGED <<pins, rows, reached>>

sent(c) ==
    /\ at(c, "accepted")
    /\ recordEgress(c, "allowed") /\ to(c, "done")
    /\ UNCHANGED <<pins, reached>>

dialogueFails(c) ==
    /\ call[c].phase \in {"greeting", "mail"}
    /\ to(c, "failed")
    /\ UNCHANGED <<pins, rows, reached>>
-----------------------------------------------------------------------------
EgressNext ==
    \E c \in Call :
        \/ dispatchRefuses(c)
        \/ \E kind \in Kind, h \in Host : dispatch(c, kind, h)
        \/ Blocked(c) \/ Allowed(c) \/ ResolvedDenied(c)
        \/ \E ip \in Addr : resolveVettedIp(c, ip) \/ connect(c, ip)
        \/ FetchFails(c) \/ opaqueRedirect(c) \/ answer(c)
        \/ \E h \in Host : redirect(c, h)
        \/ starttls(c) \/ authLogin(c) \/ mailData(c) \/ sent(c) \/ dialogueFails(c)

EgressSpec == EgressInit /\ [][EgressNext]_egressVars
-----------------------------------------------------------------------------
\* No connection leaves the contract, and none of the daemon's goes to an
\* address that was not vetted, although every call resolves, pins, connects
\* and unpins in steps between those of others to the same host.
EgressIsVetted ==
    \A c \in Call : \A i \in DOMAIN reached[c] :
        /\ reached[c][i].host \in AllowedHost
        /\ call[c].kind # "browser" => reached[c][i].ip \notin DeniedAddr

Recorded(said, made, n) ==
    \A i \in 1..n : said[i] = [host |-> made[i].host, decision |-> "allowed"]

\* What a connector returns was journalled: one row per connection, in order,
\* each with the host really reached. A call the contract or the resolver
\* stopped ends with the row that says so, and never connected there.
AnswerHasTranscript ==
    \A c \in Call :
        LET n == Len(reached[c])
        IN /\ call[c].phase = "done" => Len(rows[c]) = n /\ Recorded(rows[c], reached[c], n)
           /\ call[c].phase = "blocked" =>
                /\ Len(rows[c]) = n + 1 /\ Recorded(rows[c], reached[c], n)
                /\ rows[c][n + 1] = [host |-> call[c].host, decision |-> "blocked"]

\* What a connector reaches was vetted, and what it answers from is on record.
EgressIsAccountable == EgressIsVetted /\ AnswerHasTranscript
-----------------------------------------------------------------------------
(* What comments of the code say and the code does not do: see the README. *)

\* Every connection is journalled.
EveryConnectionJournalled ==
    \A c \in Call : call[c].phase \in {"done", "blocked", "failed"} => Len(rows[c]) >= Len(reached[c])

\* The lookup of a connection is the one its own call vetted.
ConnectsToItsOwnAnswer ==
    \A c \in Call : reached[c] # <<>> /\ call[c].phase = "wait" /\ call[c].kind # "browser"
                    => reached[c][Len(reached[c])].ip = call[c].ip
=============================================================================
