-------------------------------- MODULE Shell --------------------------------
(***************************************************************************)
(* What a browser tab shows of the daemon: call and fetchWithFallback of   *)
(* ui/api.mjs with the cache in localStorage that all tabs share, the      *)
(* shell's render, probe and status light of ui/app.mjs, and the blocked   *)
(* states of ui/lib/blocked-state.mjs. One route stands for every view's   *)
(* route: they differ in their markup. Calls of one tab overlap, because   *)
(* nothing cancels a view that is being rendered when another one is.      *)
(***************************************************************************)
EXTENDS Naturals, FiniteSets

CONSTANTS BrowserTab, Slots,  \* bound: calls under way at a time
          Blank, Null,        \* no answer, and the null that stands for a body that broke off
          MaxChanges          \* bound: changes of data, and of install, and outages

ASSUME ShellAssumption == MaxChanges \in Nat /\ {Blank, Null} \cap Nat = {} /\ Blank # Null

VARIABLES helmd,   \* [up, install, data, route]: the process, whose token, what the route answers
          cache,   \* localStorage: the last data answered on the path
          bearer,  \* sessionStorage of each tab: the install it is paired with
          calls,   \* fetches under way: [tab, kind, bearer, status, data, since]; status Blank: no answer yet
          view,    \* #view-content of each tab: [state, data, since]
          light,   \* the status dot of each tab
          served,  \* history: every data an admitted call came back with
          broken   \* history: the tabs one of whose answers broke off in its body

shellVars == <<helmd, cache, bearer, calls, view, light, served, broken>>

NoCall == [tab |-> Blank, kind |-> Blank, bearer |-> Blank, status |-> Blank, data |-> Blank,
           since |-> Blank]
Empty == [state |-> "checking", data |-> Blank, since |-> Blank]

ShellInit ==
    /\ helmd = [up |-> TRUE, install |-> 0, data |-> 0, route |-> TRUE]
    /\ cache = Blank /\ served = {} /\ broken = {}
    /\ bearer = [t \in BrowserTab |-> Blank] /\ calls = [c \in Slots |-> NoCall]
    /\ view = [t \in BrowserTab |-> Empty] /\ light = [t \in BrowserTab |-> "dormant"]
-----------------------------------------------------------------------------
(* A call. since is what the daemon had to say when it was made.           *)
request(tab, kind, b) ==
    [tab |-> tab, kind |-> kind, bearer |-> b, status |-> Blank, data |-> Blank,
     since |-> helmd.data]

statusOf(q) ==
    CASE q.bearer = Blank \/ q.bearer # helmd.install -> 401
      [] q.kind = "view" /\ ~helmd.route -> 404
      [] OTHER -> 200

\* the daemon writes its answer
answers(c) ==
    LET q == calls[c] IN
    /\ q.tab # Blank /\ q.status = Blank /\ helmd.up
    /\ calls' = [calls EXCEPT ![c].status = statusOf(q),
                              ![c].data = IF statusOf(q) = 200 THEN helmd.data ELSE Blank]
    /\ served' = IF statusOf(q) = 200 THEN served \union {helmd.data} ELSE served
    /\ UNCHANGED <<helmd, cache, bearer, view, light, broken>>

\* nobody listens, or AbortController's timer fires before the headers are there:
\* fetch rejects, and the answer is lost to the page
aborts(c) ==
    /\ calls[c].tab # Blank /\ calls[c].status # 0 /\ calls[c].data # Null
    /\ calls' = [calls EXCEPT ![c].status = 0, ![c].data = Blank]
    /\ UNCHANGED <<helmd, cache, bearer, view, light, served, broken>>
\* the timer fires, or helmd dies, after the headers: safeJson swallows what res.json()
\* throws, and call returns ok with data null (nothing here reads the other bodies)
breaksOff(c) ==
    /\ calls[c].kind = "view" /\ calls[c].status = 200 /\ calls[c].data # Null
    /\ calls' = [calls EXCEPT ![c].data = Null]
    /\ served' = served \union {Null} /\ broken' = broken \union {calls[c].tab}
    /\ UNCHANGED <<helmd, cache, bearer, view, light>>
-----------------------------------------------------------------------------
(* What the page makes of it.                                              *)
\* Mistaken form: what is in the cache is shown as if it had just come.
FallbackAsLive(q) ==
    CASE q.status = 200 -> [state |-> "live", data |-> q.data, since |-> q.since]
      [] q.status # 200 /\ cache # Blank -> [state |-> "live", data |-> cache, since |-> q.since]
      [] q.status = 404 /\ cache = Blank -> [state |-> "unavailable", data |-> Blank, since |-> Blank]
      [] OTHER -> [state |-> "missing", data |-> Blank, since |-> Blank]

\* the cache comes before the status: a 401 or a 404 shows the last data too
fetchWithFallback(q) ==
    CASE q.status = 200 -> [state |-> "live", data |-> q.data, since |-> q.since]
      [] q.status # 200 /\ cache # Blank -> [state |-> "stale", data |-> cache, since |-> Blank]
      [] q.status = 404 /\ cache = Blank -> [state |-> "unavailable", data |-> Blank, since |-> Blank]
      [] OTHER -> [state |-> "missing", data |-> Blank, since |-> Blank]

\* blocked-state.mjs: no third kind, a lost call reads "Reconnect this tab"
classifyBlockedState(v) ==
    CASE v.state = "unavailable" -> [v EXCEPT !.state = "too-old"]
      [] v.state = "missing" -> [v EXCEPT !.state = "not-paired"]
      [] OTHER -> v

\* a view's fetch ends: whatever the tab is at by now, its content becomes
\* this view's; the status light is asked for with the token the render began with
viewRenders(c) ==
    LET q == calls[c] IN
    /\ q.kind = "view" /\ q.status # Blank
    /\ cache' = IF q.status = 200 THEN q.data ELSE cache
    /\ view' = [view EXCEPT ![q.tab] = classifyBlockedState(fetchWithFallback(q))]
    /\ calls' = [calls EXCEPT ![c] = request(q.tab, "health", q.bearer)]
    /\ UNCHANGED <<helmd, bearer, light, served, broken>>

refreshConnectivity(c) ==
    LET q == calls[c] IN
    /\ q.kind = "health" /\ q.status # Blank
    /\ light' = [light EXCEPT ![q.tab] = CASE q.status = 200 -> "live"
                                           [] q.status = 401 -> "pairing required"
                                           [] OTHER -> "unreachable"]
    /\ calls' = [calls EXCEPT ![c] = NoCall]
    /\ UNCHANGED <<helmd, cache, bearer, view, served, broken>>

\* the 10 s interval asks again, with the token of the moment
asksHealth(c, tab) ==
    /\ bearer[tab] # Blank /\ calls[c] = NoCall
    /\ calls' = [calls EXCEPT ![c] = request(tab, "health", bearer[tab])]
    /\ UNCHANGED <<helmd, cache, bearer, view, light, served, broken>>

\* the probe behind the pairing form: any answer means that something
\* listens, and the slot may be gone by now
probeHelmdReachable(c) ==
    LET q == calls[c] IN
    /\ q.kind = "probe" /\ q.status # Blank
    /\ view' = IF view[q.tab].state \in {"checking", "running", "stopped"}
                 THEN [view EXCEPT ![q.tab].state = IF q.status # 0 THEN "running" ELSE "stopped"]
                 ELSE view
    /\ calls' = [calls EXCEPT ![c] = NoCall]
    /\ UNCHANGED <<helmd, cache, bearer, light, served, broken>>

\* render(): a tab with a token asks for its view and shows the old content
\* meanwhile, one without mounts the pairing form and probes
render(c, tab, b) ==
    /\ calls[c] = NoCall
    /\ IF b # Blank
         THEN /\ calls' = [calls EXCEPT ![c] = request(tab, "view", b)]
              /\ UNCHANGED <<view, light>>
         ELSE /\ calls' = [calls EXCEPT ![c] = request(tab, "probe", Blank)]
              /\ view' = [view EXCEPT ![tab] = Empty]
              /\ light' = [light EXCEPT ![tab] = "dormant"]

navigates(c, tab) ==
    /\ render(c, tab, bearer[tab])
    /\ UNCHANGED <<helmd, cache, bearer, served, broken>>

\* the pairing link of boot() or the form of pair-form.mjs
pairs(c, tab) ==
    /\ bearer' = [bearer EXCEPT ![tab] = helmd.install]
    /\ render(c, tab, helmd.install)
    /\ UNCHANGED <<helmd, cache, served, broken>>

\* the Unpair button: the token goes, the cache stays
unpairs(c, tab) ==
    /\ bearer[tab] # Blank /\ bearer' = [bearer EXCEPT ![tab] = Blank]
    /\ render(c, tab, Blank)
    /\ UNCHANGED <<helmd, cache, served, broken>>
-----------------------------------------------------------------------------
(* A tab of another window, and the daemon, meanwhile.                     *)
\* its fetch ends, with what the daemon said at some moment before, or broken off
otherTabCaches(d) ==
    /\ cache' = d /\ served' = served \union {d}
    /\ UNCHANGED <<helmd, bearer, calls, view, light, broken>>

becomes(h) ==
    /\ helmd' = h
    /\ UNCHANGED <<calls, cache, bearer, view, light, served, broken>>

dataChanges == helmd.data < MaxChanges /\ becomes([helmd EXCEPT !.data = @ + 1])
goesDown == helmd.up /\ becomes([helmd EXCEPT !.up = FALSE])
comesUp == ~helmd.up /\ becomes([helmd EXCEPT !.up = TRUE])
\* the state directory is gone: another token, data that no tab has seen
reinstalled ==
    /\ ~helmd.up /\ helmd.install < MaxChanges /\ helmd.data < MaxChanges
    /\ becomes([helmd EXCEPT !.install = @ + 1, !.data = @ + 1, !.up = TRUE])
\* another version is started, with or without the route
otherVersion ==
    /\ ~helmd.up /\ becomes([helmd EXCEPT !.route = ~@, !.up = TRUE])

ShellNext ==
    \/ \E c \in Slots :
          \/ answers(c) \/ aborts(c) \/ breaksOff(c)
          \/ viewRenders(c) \/ refreshConnectivity(c) \/ probeHelmdReachable(c)
          \/ \E tab \in BrowserTab : navigates(c, tab) \/ pairs(c, tab) \/ unpairs(c, tab)
                                     \/ asksHealth(c, tab)
    \/ \E d \in (0..helmd.data) \union {Null} : otherTabCaches(d)
    \/ dataChanges \/ goesDown \/ comesUp \/ reinstalled \/ otherVersion

ShellSpec == ShellInit /\ [][ShellNext]_shellVars
-----------------------------------------------------------------------------
\* What is shown as live is nothing older than what the daemon held when the tab
\* asked, or null where an answer to this tab broke off in its body; what is shown
\* as stale is something that came back before, to this tab or another. Whatever the
\* order of answers, aborts, restarts and other tabs' writes to the cache, no view
\* takes one for the other.
NeverInvents ==
    \A t \in BrowserTab :
        /\ view[t].state = "live" => \/ view[t].data \in view[t].since .. helmd.data
                                     \/ view[t].data = Null /\ t \in broken
        /\ view[t].state = "stale" => view[t].data \in served

\* Refuted: the page "never silently invents state the daemon never asserted" (the head
\* of ui/api.mjs). The daemon has never answered null.
ShowsWhatWasAsserted ==
    \A t \in BrowserTab : view[t].state \in {"live", "stale"} => view[t].data # Null

\* Refuted: a tab that was unpaired shows nothing of the daemon. A view whose
\* fetch was under way is rendered over the pairing form.
UnpairedIsBlank ==
    \A t \in BrowserTab : bearer[t] = Blank => view[t].state \notin {"live", "stale"}
=============================================================================
