-------------------------- MODULE ConnectionProofs --------------------------
(***************************************************************************)
(* Connectors, OAuth connections, the tokens a browser keeps and the queue *)
(* of timestamps, for any number of calls, flows, tabs, starts and faults. *)
(***************************************************************************)
EXTENDS Egress, OAuth, BrowserVault, AnchorQueue, FunctionTheorems, SequenceTheorems, FiniteSetTheorems, TLAPS

-----------------------------------------------------------------------------
(* Where connectors connect and what they leave on record, for any number  *)
(* of calls, hosts, addresses and redirects. What makes it hold is that a  *)
(* pin counts the calls between vetting and the end of the request: a call *)
(* that is about to connect holds one, so the lookup of its host is never  *)
(* left to the resolver, and every address a pin is moved to was vetted.   *)

Phase == {"idle", "refused", "check", "resolve", "fetch", "wait", "greeting", "mail", "accepted",
          "done", "blocked", "failed"}
CallRecord == [kind : Kind \union {Nothing}, phase : Phase, host : Host \union {Nothing}, hops : Nat,
               ip : Addr \union {Nothing}, secure : {"none", "starttls", "tls"}]
Row == [host : Host \union {Nothing}, decision : {"allowed", "blocked"}]
Hop == [host : Host, ip : Addr]

Vetted(r, made) ==
    \A i \in 1..Len(made) : /\ made[i].host \in AllowedHost
                            /\ r.kind # "browser" => made[i].ip \notin DeniedAddr

\* One call: what it is at, what it has journalled and where it has been.
CallInv(r, said, made) ==
    /\ r \in CallRecord /\ said \in Seq(Row) /\ made \in Seq(Hop)
    /\ r.phase = "idle" => said = <<>> /\ made = <<>>
    /\ r.phase \notin {"idle", "refused"} => r.kind \in Kind /\ r.host \in Host
    /\ r.phase \in {"resolve", "fetch", "wait", "greeting", "mail", "accepted"} => r.host \in AllowedHost
    /\ r.phase = "resolve" => r.kind # "browser"
    /\ r.phase \in {"check", "resolve", "fetch", "done"} =>
          Len(said) = Len(made) /\ Recorded(said, made, Len(made))
    /\ r.phase \in {"wait", "greeting", "mail", "accepted"} =>
          /\ Len(made) = Len(said) + 1 /\ Recorded(said, made, Len(said))
          /\ made[Len(made)].host = r.host
    /\ r.phase = "blocked" =>
          /\ Len(said) = Len(made) + 1 /\ Recorded(said, made, Len(made))
          /\ said[Len(made) + 1] = [host |-> r.host, decision |-> "blocked"]
    /\ Vetted(r, made)

Holds(r, h) == r.host = h /\ r.kind # "browser" /\ r.phase \in {"fetch", "wait"}
Holders(h) == {c \in Call : Holds(call[c], h)}

Functions ==
    /\ call \in [Call -> CallRecord] /\ rows \in [Call -> Seq(Row)] /\ reached \in [Call -> Seq(Hop)]
    /\ pins \in [Host -> [ip : Addr \union {Nothing}, refs : Nat]]

PinsInv ==
    \A h \in Host : /\ pins[h].refs = Cardinality(Holders(h))
                    /\ pins[h].refs > 0 => pins[h].ip \in Addr \ DeniedAddr

EgressInv ==
    /\ Functions
    /\ \A c \in Call : CallInv(call[c], rows[c], reached[c])
    /\ PinsInv

\* A step of one call leaves the others as they are.
LEMMA OneCall ==
    ASSUME EgressInv, NEW c \in Call, NEW r, NEW said, NEW made,
           call' = [call EXCEPT ![c] = r], rows' = [rows EXCEPT ![c] = said],
           reached' = [reached EXCEPT ![c] = made], CallInv(r, said, made)
    PROVE  /\ \A d \in Call : CallInv(call[d], rows[d], reached[d])'
           /\ call' \in [Call -> CallRecord] /\ rows' \in [Call -> Seq(Row)]
           /\ reached' \in [Call -> Seq(Hop)]
<1>1. r \in CallRecord /\ said \in Seq(Row) /\ made \in Seq(Hop)
  BY DEF CallInv
<1>2. call \in [Call -> CallRecord] /\ rows \in [Call -> Seq(Row)] /\ reached \in [Call -> Seq(Hop)]
  BY DEF EgressInv, Functions
<1>3. ASSUME NEW d \in Call PROVE CallInv(call[d], rows[d], reached[d])'
  <2>1. CASE d = c
    <3>1. call'[d] = r /\ rows'[d] = said /\ reached'[d] = made
      BY <1>2, <2>1
    <3>2. CallInv(call'[d], rows'[d], reached'[d])
      BY <3>1
    <3>3. QED
      BY <3>2 DEF CallInv, Vetted, Recorded
  <2>2. CASE d # c
    <3>1. call'[d] = call[d] /\ rows'[d] = rows[d] /\ reached'[d] = reached[d]
      BY <1>2, <2>2
    <3>2. CallInv(call[d], rows[d], reached[d])
      BY DEF EgressInv
    <3>3. CallInv(call'[d], rows'[d], reached'[d])
      BY <3>1, <3>2
    <3>4. QED
      BY <3>3 DEF CallInv, Vetted, Recorded
  <2>3. QED
    BY <2>1, <2>2
<1>4. QED
  BY <1>1, <1>2, <1>3

\* The holders of a pin are finitely many.
LEMMA HoldersFinite == ASSUME NEW h PROVE IsFiniteSet(Holders(h))
  BY EgressAssumption, FS_Subset DEF Holders

\* A call that holds the same pins as before leaves the counts right.
LEMMA PinsKept ==
    ASSUME EgressInv, NEW c \in Call, NEW r, call' = [call EXCEPT ![c] = r], pins' = pins,
           \A h \in Host : Holds(r, h) <=> Holds(call[c], h)
    PROVE  PinsInv'
<1>1. ASSUME NEW h \in Host PROVE Holders(h)' = Holders(h)
  <2>1. ASSUME NEW d \in Call PROVE Holds(call'[d], h) <=> Holds(call[d], h)
    BY DEF EgressInv, Functions
  <2>2. QED
    BY <2>1 DEF Holders, Holds
<1>2. QED
  BY <1>1 DEF EgressInv, PinsInv

\* A call that pins a host is one holder more, and the address is the one it vetted.
LEMMA PinTaken ==
    ASSUME EgressInv, NEW c \in Call, NEW r, NEW h \in Host, NEW ip \in Addr \ DeniedAddr,
           call' = [call EXCEPT ![c] = r], pins' = pinHostResolution(h, ip),
           \A g \in Host : ~Holds(call[c], g), \A g \in Host : Holds(r, g) <=> g = h
    PROVE  PinsInv' /\ pins' \in [Host -> [ip : Addr \union {Nothing}, refs : Nat]]
<1>1. pins \in [Host -> [ip : Addr \union {Nothing}, refs : Nat]] /\ call \in [Call -> CallRecord]
  BY DEF EgressInv, Functions
<1>2. /\ pins' \in [Host -> [ip : Addr \union {Nothing}, refs : Nat]]
      /\ pins'[h].ip = ip /\ pins'[h].refs = pins[h].refs + 1
      /\ \A g \in Host : g # h => pins'[g] = pins[g]
  BY <1>1 DEF pinHostResolution
<1>3. Holders(h)' = Holders(h) \union {c} /\ c \notin Holders(h)
  BY <1>1 DEF Holders, Holds
<1>4. \A g \in Host : g # h => Holders(g)' = Holders(g)
  BY <1>1 DEF Holders, Holds
<1>5. Cardinality(Holders(h)') = Cardinality(Holders(h)) + 1
  BY <1>3, HoldersFinite, FS_AddElement
<1>6. QED
  BY <1>2, <1>4, <1>5 DEF EgressInv, PinsInv

\* A call that gives its pin up is one holder less; the last one takes the pin along.
LEMMA PinGiven ==
    ASSUME EgressInv, NEW c \in Call, NEW r, NEW h \in Host,
           call' = [call EXCEPT ![c] = r], pins' = unpin(h),
           Holds(call[c], h), \A g \in Host : ~Holds(r, g)
    PROVE  PinsInv' /\ pins' \in [Host -> [ip : Addr \union {Nothing}, refs : Nat]]
<1>1. pins \in [Host -> [ip : Addr \union {Nothing}, refs : Nat]] /\ call \in [Call -> CallRecord]
  BY DEF EgressInv, Functions
<1>2. Holders(h)' = Holders(h) \ {c} /\ c \in Holders(h)
  BY <1>1 DEF Holders, Holds
<1>3. \A g \in Host : g # h => Holders(g)' = Holders(g)
  BY <1>1 DEF Holders, Holds
<1>4. Cardinality(Holders(h)') = Cardinality(Holders(h)) - 1 /\ Cardinality(Holders(h)) \in Nat \ {0}
  BY <1>2, HoldersFinite, FS_RemoveElement, FS_CardinalityType, FS_EmptySet
<1>5. pins[h].refs = Cardinality(Holders(h)) /\ pins[h].ip \in Addr \ DeniedAddr
  BY <1>4 DEF EgressInv, PinsInv
<1>6. /\ pins' \in [Host -> [ip : Addr \union {Nothing}, refs : Nat]]
      /\ pins'[h].refs = pins[h].refs - 1
      /\ pins'[h].refs > 0 => pins'[h].ip = pins[h].ip
      /\ \A g \in Host : g # h => pins'[g] = pins[g]
  <2>1. CASE pins[h].refs = 1
    BY <1>1, <2>1 DEF unpin, NoPin
  <2>2. CASE pins[h].refs # 1
    <3>1. pins[h].refs - 1 \in Nat
      BY <1>4, <1>5
    <3>2. [ip |-> pins[h].ip, refs |-> pins[h].refs - 1] \in [ip : Addr \union {Nothing}, refs : Nat]
      BY <1>1, <3>1
    <3>3. pins' = [pins EXCEPT ![h] = [ip |-> pins[h].ip, refs |-> pins[h].refs - 1]]
      BY <1>1, <2>2 DEF unpin
    <3>4. QED
      BY <1>1, <3>2, <3>3
  <2>3. QED
    BY <2>1, <2>2
<1>7. QED
  BY <1>3, <1>4, <1>5, <1>6 DEF EgressInv, PinsInv

\* A step that only moves a call on: what it has said and made stays.
LEMMA Moves ==
    ASSUME EgressInv, NEW c \in Call, NEW r, call' = [call EXCEPT ![c] = r],
           CallInv(r, rows[c], reached[c]), UNCHANGED <<pins, rows, reached>>,
           \A h \in Host : Holds(r, h) <=> Holds(call[c], h)
    PROVE  EgressInv'
<1>1. rows' = [rows EXCEPT ![c] = rows[c]] /\ reached' = [reached EXCEPT ![c] = reached[c]]
  BY DEF EgressInv, Functions
<1>2. PinsInv'
  BY PinsKept
<1>3. /\ \A d \in Call : CallInv(call[d], rows[d], reached[d])'
      /\ call' \in [Call -> CallRecord] /\ rows' \in [Call -> Seq(Row)]
      /\ reached' \in [Call -> Seq(Hop)]
  BY <1>1, OneCall
<1>4. QED
  BY <1>2, <1>3 DEF EgressInv, Functions

\* What is known of a call when it takes a step.
LEMMA TheCall ==
    ASSUME EgressInv, NEW c \in Call
    PROVE  /\ CallInv(call[c], rows[c], reached[c]) /\ call[c] \in CallRecord
           /\ rows[c] \in Seq(Row) /\ reached[c] \in Seq(Hop)
           /\ \A p \in Phase : [call[c] EXCEPT !.phase = p] \in CallRecord
           /\ \A p : /\ to(c, p) <=> call' = [call EXCEPT ![c] = [call[c] EXCEPT !.phase = p]]
<1>1. CallInv(call[c], rows[c], reached[c]) /\ call[c] \in CallRecord
      /\ rows[c] \in Seq(Row) /\ reached[c] \in Seq(Hop)
  BY DEF EgressInv, Functions
<1>2. \A p \in Phase : [call[c] EXCEPT !.phase = p] \in CallRecord
  BY <1>1 DEF CallRecord
<1>3. \A p : to(c, p) <=> call' = [call EXCEPT ![c] = [call[c] EXCEPT !.phase = p]]
  BY DEF to, EgressInv, Functions
<1>4. QED
  BY <1>1, <1>2, <1>3

\* What is known of it after the step, when only its phase changes.
LEMMA TheNext ==
    ASSUME EgressInv, NEW c \in Call, NEW p \in Phase
    PROVE  LET r == [call[c] EXCEPT !.phase = p]
           IN /\ r \in CallRecord /\ r.phase = p
              /\ r.kind = call[c].kind /\ r.host = call[c].host
<1>1. call[c] \in CallRecord
  BY DEF EgressInv, Functions
<1>2. QED
  BY <1>1 DEF CallRecord

\* A row that is appended is the last one, and the others stay.
LEMMA Appended ==
    ASSUME NEW S, NEW s \in Seq(S), NEW x \in S
    PROVE  /\ Append(s, x) \in Seq(S) /\ Len(Append(s, x)) = Len(s) + 1
           /\ Append(s, x)[Len(s) + 1] = x /\ \A i \in 1..Len(s) : Append(s, x)[i] = s[i]
           /\ Len(s) \in Nat
  OBVIOUS

\* Before any call nothing is pinned.
LEMMA EgressStart == EgressInit => EgressInv
<1> SUFFICES ASSUME EgressInit PROVE EgressInv
  OBVIOUS
<1>1. NoCall \in CallRecord /\ NoCall.phase = "idle"
  BY DEF NoCall, CallRecord, Phase
<1>2. Functions
  BY <1>1 DEF EgressInit, Functions, NoPin
<1>3. ASSUME NEW c \in Call PROVE CallInv(call[c], rows[c], reached[c])
  <2>1. call[c] = NoCall /\ rows[c] = <<>> /\ reached[c] = <<>>
    BY DEF EgressInit
  <2>2. QED
    BY <1>1, <2>1 DEF CallInv, Vetted
<1>4. ASSUME NEW h \in Host PROVE Holders(h) = {}
  BY <1>1 DEF EgressInit, Holders, Holds
<1>5. PinsInv
  <2>1. Cardinality({}) = 0
    BY FS_EmptySet
  <2>2. \A h \in Host : pins[h].refs = 0
    BY DEF EgressInit, NoPin
  <2>3. QED
    BY <1>4, <2>1, <2>2 DEF PinsInv
<1>6. QED
  BY <1>2, <1>3, <1>5 DEF EgressInv

\* A call that ends a request gives its pin up, if it is the daemon's.
LEMMA Released ==
    ASSUME EgressInv, NEW c \in Call, NEW r, call' = [call EXCEPT ![c] = r],
           call[c].phase \in {"fetch", "wait"}, pins' = release(c), \A h \in Host : ~Holds(r, h)
    PROVE  PinsInv' /\ pins' \in [Host -> [ip : Addr \union {Nothing}, refs : Nat]]
<1>1. call[c].host \in Host
  BY TheCall DEF CallInv
<1>2. CASE call[c].kind = "browser"
  <2>1. pins' = pins
    BY <1>2 DEF release
  <2>2. \A h \in Host : Holds(r, h) <=> Holds(call[c], h)
    BY <1>2 DEF Holds
  <2>3. QED
    BY <2>1, <2>2, PinsKept DEF EgressInv, Functions
<1>3. CASE call[c].kind # "browser"
  <2>1. pins' = unpin(call[c].host) /\ Holds(call[c], call[c].host)
    BY <1>3 DEF release, Holds
  <2>2. QED
    BY <1>1, <2>1, PinGiven
<1>4. QED
  BY <1>2, <1>3

\* A connection that ended well is journalled: the transcript is complete again.
LEMMA Answering ==
    ASSUME EgressInv, NEW c \in Call, NEW p \in {"wait", "accepted"}, at(c, p), NEW r \in CallRecord,
           r.phase \in {"done", "check", "failed"}, r.kind = call[c].kind, r.host \in Host,
           call' = [call EXCEPT ![c] = r], recordEgress(c, "allowed"), reached' = reached
    PROVE  /\ \A d \in Call : CallInv(call[d], rows[d], reached[d])'
           /\ call' \in [Call -> CallRecord] /\ rows' \in [Call -> Seq(Row)]
           /\ reached' \in [Call -> Seq(Hop)]
<1> DEFINE row == [host |-> call[c].host, decision |-> "allowed"]
           said == rows[c]
           made == reached[c]
<1>1. /\ call[c] \in CallRecord /\ said \in Seq(Row) /\ made \in Seq(Hop)
      /\ Len(made) = Len(said) + 1 /\ Recorded(said, made, Len(said)) /\ made[Len(made)].host = call[c].host
      /\ call[c].kind \in Kind /\ Vetted(call[c], made)
  BY TheCall DEF CallInv, at
<1>2. row \in Row
  BY <1>1 DEF Row, CallRecord
<1>3. rows' = [rows EXCEPT ![c] = Append(said, row)] /\ reached' = [reached EXCEPT ![c] = made]
  BY DEF recordEgress, EgressInv, Functions
<1> HIDE DEF row, said, made
<1>4. /\ Append(said, row) \in Seq(Row) /\ Len(Append(said, row)) = Len(said) + 1
      /\ Append(said, row)[Len(said) + 1] = row /\ \A i \in 1..Len(said) : Append(said, row)[i] = said[i]
      /\ Len(said) \in Nat
  BY <1>1, <1>2, Appended
<1>5. Recorded(Append(said, row), made, Len(made))
  <2>1. ASSUME NEW i \in 1..Len(made)
        PROVE  Append(said, row)[i] = [host |-> made[i].host, decision |-> "allowed"]
    <3>1. CASE i \in 1..Len(said)
      BY <1>1, <1>4, <3>1 DEF Recorded
    <3>2. CASE i = Len(said) + 1
      BY <1>1, <1>4, <3>2 DEF row
    <3>3. QED
      BY <1>1, <1>4, <3>1, <3>2
  <2>2. QED
    BY <2>1 DEF Recorded
<1>6. CallInv(r, Append(said, row), made)
  BY <1>1, <1>4, <1>5 DEF CallInv, Vetted
<1>7. QED
  BY <1>3, <1>6, OneCall

\* A call that is stopped says so, and made no connection for it.
LEMMA Stopping ==
    ASSUME EgressInv, NEW c \in Call, NEW p \in {"check", "resolve"}, at(c, p),
           recordEgress(c, "blocked"), to(c, "blocked"), UNCHANGED <<pins, reached>>
    PROVE  EgressInv'
<1> DEFINE row == [host |-> call[c].host, decision |-> "blocked"]
           said == rows[c]
           made == reached[c]
           r == [call[c] EXCEPT !.phase = "blocked"]
<1>1. /\ call[c] \in CallRecord /\ said \in Seq(Row) /\ made \in Seq(Hop)
      /\ Len(said) = Len(made) /\ Recorded(said, made, Len(made))
      /\ call[c].kind \in Kind /\ call[c].host \in Host /\ Vetted(call[c], made)
  BY TheCall DEF CallInv, at
<1>2. row \in Row
  BY <1>1 DEF Row, CallRecord
<1>3. /\ rows' = [rows EXCEPT ![c] = Append(said, row)] /\ reached' = [reached EXCEPT ![c] = made]
      /\ call' = [call EXCEPT ![c] = r]
  BY TheCall DEF recordEgress, EgressInv, Functions
<1>4. r \in CallRecord /\ r.phase = "blocked" /\ r.kind = call[c].kind /\ r.host = call[c].host
  BY TheNext DEF Phase
<1>a. \A h \in Host : Holds(r, h) <=> Holds(call[c], h)
  BY <1>4 DEF Holds, at
<1> HIDE DEF row, said, made, r
<1>5. /\ Append(said, row) \in Seq(Row) /\ Len(Append(said, row)) = Len(said) + 1
      /\ Append(said, row)[Len(said) + 1] = row /\ \A i \in 1..Len(said) : Append(said, row)[i] = said[i]
      /\ Len(said) \in Nat
  BY <1>1, <1>2, Appended
<1>6. Recorded(Append(said, row), made, Len(made))
  BY <1>1, <1>5 DEF Recorded
<1>7. CallInv(r, Append(said, row), made)
  BY <1>1, <1>4, <1>5, <1>6 DEF CallInv, Vetted, row
<1>8. /\ \A d \in Call : CallInv(call[d], rows[d], reached[d])'
      /\ call' \in [Call -> CallRecord] /\ rows' \in [Call -> Seq(Row)]
      /\ reached' \in [Call -> Seq(Hop)]
  BY <1>3, <1>7, OneCall
<1>9. PinsInv'
  BY <1>3, <1>a, PinsKept
<1>10. QED
  BY <1>8, <1>9 DEF EgressInv, Functions

\* A call that goes on to a phase with the same duties, and pins no more and
\* no less than before.
LEMMA GoesOn ==
    ASSUME EgressInv, NEW c \in Call, NEW p \in Phase, to(c, p), UNCHANGED <<pins, rows, reached>>,
           \/ at(c, "idle") /\ p = "refused"
           \/ at(c, "check") /\ p \in {"resolve", "fetch"} /\ call[c].host \in AllowedHost
              /\ (p = "fetch" <=> call[c].kind = "browser")
           \/ call[c].phase \in {"greeting", "mail"} /\ p \in {"mail", "accepted", "failed"}
    PROVE  EgressInv'
<1> DEFINE r == [call[c] EXCEPT !.phase = p]
<1>1. CallInv(call[c], rows[c], reached[c]) /\ call' = [call EXCEPT ![c] = r]
  BY TheCall
<1>2. r \in CallRecord /\ r.phase = p /\ r.kind = call[c].kind /\ r.host = call[c].host
  BY TheNext
<1> HIDE DEF r
<1>3. CallInv(r, rows[c], reached[c])
  BY <1>1, <1>2 DEF CallInv, Vetted, at
<1>4. \A h \in Host : Holds(r, h) <=> Holds(call[c], h)
  BY <1>2 DEF Holds, at
<1>5. QED
  BY <1>1, <1>3, <1>4, Moves

\* A connection: the address is that of the pin the call holds, so it was vetted.
LEMMA Connecting ==
    ASSUME EgressInv, NEW c \in Call, NEW ip \in Addr, connect(c, ip)
    PROVE  EgressInv'
<1> DEFINE hop == [host |-> call[c].host, ip |-> ip]
           said == rows[c]
           made == reached[c]
<1>1. /\ call[c] \in CallRecord /\ said \in Seq(Row) /\ made \in Seq(Hop)
      /\ Len(said) = Len(made) /\ Recorded(said, made, Len(made))
      /\ call[c].kind \in Kind /\ call[c].host \in Host /\ call[c].host \in AllowedHost
      /\ Vetted(call[c], made) /\ call[c].phase = "fetch"
  BY TheCall DEF CallInv, at, connect
<1>2. hop \in Hop
  BY <1>1 DEF Hop
<1>3. rows' = [rows EXCEPT ![c] = said] /\ reached' = [reached EXCEPT ![c] = Append(made, hop)]
  BY DEF connect, EgressInv, Functions
<1>4. call[c].kind # "browser" => ip \notin DeniedAddr
  <2> SUFFICES ASSUME call[c].kind # "browser" PROVE ip \notin DeniedAddr
    OBVIOUS
  <2>1. c \in Holders(call[c].host)
    BY <1>1 DEF Holders, Holds
  <2>2. Cardinality(Holders(call[c].host)) \in Nat \ {0}
    BY <2>1, HoldersFinite, FS_CardinalityType, FS_EmptySet
  <2>3. pins[call[c].host].refs > 0 /\ pins[call[c].host].ip \in Addr \ DeniedAddr
    BY <1>1, <2>2 DEF EgressInv, PinsInv
  <2>4. QED
    BY <2>3 DEF connect, pinnedDnsLookup
<1>5. PICK r \in CallRecord :
         /\ call' = [call EXCEPT ![c] = r] /\ r.kind = call[c].kind /\ r.host = call[c].host
         /\ \/ r.phase = "greeting" /\ call[c].kind = "smtp.send" /\ pins' = unpin(call[c].host)
            \/ r.phase = "wait" /\ call[c].kind # "smtp.send" /\ pins' = pins
  <2>1. CASE call[c].kind = "smtp.send"
    <3>1. PICK secure \in {"none", "starttls", "tls"} :
             call' = [call EXCEPT ![c].phase = "greeting", ![c].secure = secure]
      BY <2>1 DEF connect
    <3> DEFINE q == [call[c] EXCEPT !.phase = "greeting", !.secure = secure]
    <3>2. call' = [call EXCEPT ![c] = q]
      BY <3>1 DEF EgressInv, Functions
    <3>3. q \in CallRecord /\ q.kind = call[c].kind /\ q.host = call[c].host /\ q.phase = "greeting"
      BY <1>1 DEF CallRecord, Phase
    <3>4. pins' = unpin(call[c].host)
      BY <2>1 DEF connect
    <3> HIDE DEF q
    <3>5. QED
      BY <2>1, <3>2, <3>3, <3>4
  <2>2. CASE call[c].kind # "smtp.send"
    <3> DEFINE q == [call[c] EXCEPT !.phase = "wait"]
    <3>1. call' = [call EXCEPT ![c] = q] /\ pins' = pins
      BY <2>2, TheCall DEF connect
    <3>2. q \in CallRecord /\ q.kind = call[c].kind /\ q.host = call[c].host /\ q.phase = "wait"
      BY TheNext DEF Phase
    <3> HIDE DEF q
    <3>3. QED
      BY <2>2, <3>1, <3>2
  <2>3. QED
    BY <2>1, <2>2
<1> HIDE DEF said, made
<1>6. /\ Append(made, hop) \in Seq(Hop) /\ Len(Append(made, hop)) = Len(made) + 1
      /\ Append(made, hop)[Len(made) + 1] = hop /\ \A i \in 1..Len(made) : Append(made, hop)[i] = made[i]
      /\ Len(made) \in Nat
  BY <1>1, <1>2, Appended
<1>7. CallInv(r, said, Append(made, hop))
  <2>1. Recorded(said, Append(made, hop), Len(said))
    BY <1>1, <1>6 DEF Recorded
  <2>2. Vetted(r, Append(made, hop))
    <3>1. ASSUME NEW i \in 1..Len(Append(made, hop))
          PROVE  /\ Append(made, hop)[i].host \in AllowedHost
                 /\ r.kind # "browser" => Append(made, hop)[i].ip \notin DeniedAddr
      <4>1. CASE i \in 1..Len(made)
        BY <1>1, <1>5, <1>6, <4>1 DEF Vetted
      <4>2. CASE i = Len(made) + 1
        BY <1>1, <1>4, <1>5, <1>6, <4>2
      <4>3. QED
        BY <1>6, <4>1, <4>2
    <3>2. QED
      BY <3>1 DEF Vetted
  <2>3. Append(made, hop)[Len(Append(made, hop))].host = r.host
    BY <1>5, <1>6
  <2>4. QED
    BY <1>1, <1>5, <1>6, <2>1, <2>2, <2>3 DEF CallInv
<1>8. /\ \A d \in Call : CallInv(call[d], rows[d], reached[d])'
      /\ call' \in [Call -> CallRecord] /\ rows' \in [Call -> Seq(Row)]
      /\ reached' \in [Call -> Seq(Hop)]
  BY <1>3, <1>5, <1>7, OneCall
<1>9. PinsInv' /\ pins' \in [Host -> [ip : Addr \union {Nothing}, refs : Nat]]
  <2>1. CASE r.phase = "greeting" /\ call[c].kind = "smtp.send" /\ pins' = unpin(call[c].host)
    <3>1. Holds(call[c], call[c].host) /\ \A g \in Host : ~Holds(r, g)
      BY <1>1, <2>1 DEF Holds
    <3>2. QED
      BY <1>1, <1>5, <2>1, <3>1, PinGiven
  <2>2. CASE r.phase = "wait" /\ pins' = pins
    <3>1. \A h \in Host : Holds(r, h) <=> Holds(call[c], h)
      BY <1>1, <1>5, <2>2 DEF Holds
    <3>2. QED
      BY <1>5, <2>2, <3>1, PinsKept DEF EgressInv, Functions
  <2>3. QED
    BY <1>5, <2>1, <2>2
<1>10. QED
  BY <1>8, <1>9 DEF EgressInv, Functions

\* An opaque redirect ends a browser's call with a row, and no pin was held.
LEMMA Opaque ==
    ASSUME EgressInv, NEW c \in Call, opaqueRedirect(c)
    PROVE  EgressInv'
<1> DEFINE row == [host |-> call[c].host, decision |-> "blocked"]
           r == [call[c] EXCEPT !.phase = "failed"]
<1>1. /\ CallInv(call[c], rows[c], reached[c]) /\ call[c] \in CallRecord /\ rows[c] \in Seq(Row)
      /\ call[c].phase = "wait" /\ call[c].kind = "browser"
  BY TheCall DEF opaqueRedirect, at
<1>2. /\ rows' = [rows EXCEPT ![c] = Append(rows[c], row)] /\ reached' = [reached EXCEPT ![c] = reached[c]]
      /\ call' = [call EXCEPT ![c] = r] /\ pins' = pins
  BY TheCall DEF opaqueRedirect, recordEgress, EgressInv, Functions
<1>3. r \in CallRecord /\ r.phase = "failed" /\ r.kind = call[c].kind /\ r.host = call[c].host
  BY TheNext DEF Phase
<1>4. row \in Row
  BY <1>1 DEF Row, CallRecord
<1> HIDE DEF row, r
<1>5. Append(rows[c], row) \in Seq(Row)
  BY <1>1, <1>4, Appended
<1>6. CallInv(r, Append(rows[c], row), reached[c])
  BY <1>1, <1>3, <1>5 DEF CallInv, Vetted
<1>7. \A h \in Host : Holds(r, h) <=> Holds(call[c], h)
  BY <1>1, <1>3 DEF Holds
<1>8. PinsInv'
  BY <1>2, <1>7, PinsKept
<1>9. /\ \A d \in Call : CallInv(call[d], rows[d], reached[d])'
      /\ call' \in [Call -> CallRecord] /\ rows' \in [Call -> Seq(Row)]
      /\ reached' \in [Call -> Seq(Hop)]
  BY <1>2, <1>6, OneCall
<1>10. QED
  BY <1>2, <1>8, <1>9 DEF EgressInv, Functions

\* What a call that vetted an address pins, and what it leaves alone.
LEMMA Vetting ==
    ASSUME EgressInv, NEW c \in Call, NEW ip \in Addr, resolveVettedIp(c, ip)
    PROVE  EgressInv'
<1> DEFINE r == [call[c] EXCEPT !.phase = "fetch", !.ip = ip]
<1>1. /\ CallInv(call[c], rows[c], reached[c]) /\ call[c] \in CallRecord
      /\ call[c].phase = "resolve" /\ ip \in Addr \ DeniedAddr
      /\ pins' = pinHostResolution(call[c].host, ip)
  BY TheCall DEF resolveVettedIp, at
<1>2. /\ rows' = [rows EXCEPT ![c] = rows[c]] /\ reached' = [reached EXCEPT ![c] = reached[c]]
      /\ call' = [call EXCEPT ![c] = r]
  BY DEF resolveVettedIp, EgressInv, Functions
<1>3. r \in CallRecord /\ r.phase = "fetch" /\ r.kind = call[c].kind /\ r.host = call[c].host
  BY <1>1 DEF CallRecord, Phase
<1> HIDE DEF r
<1>4. CallInv(r, rows[c], reached[c])
  BY <1>1, <1>3 DEF CallInv, Vetted
<1>5. call[c].host \in Host /\ call[c].kind # "browser"
  BY <1>1 DEF CallInv
<1>6. (\A g \in Host : ~Holds(call[c], g)) /\ \A g \in Host : Holds(r, g) <=> g = call[c].host
  BY <1>1, <1>3, <1>5 DEF Holds
<1>7. PinsInv' /\ pins' \in [Host -> [ip : Addr \union {Nothing}, refs : Nat]]
  BY <1>1, <1>2, <1>5, <1>6, PinTaken
<1>8. /\ \A d \in Call : CallInv(call[d], rows[d], reached[d])'
      /\ call' \in [Call -> CallRecord] /\ rows' \in [Call -> Seq(Row)]
      /\ reached' \in [Call -> Seq(Hop)]
  BY <1>2, <1>4, OneCall
<1>9. QED
  BY <1>7, <1>8 DEF EgressInv, Functions

\* A request that ends without an answer.
LEMMA Failing ==
    ASSUME EgressInv, NEW c \in Call, FetchFails(c)
    PROVE  EgressInv'
<1> DEFINE r == [call[c] EXCEPT !.phase = "failed"]
<1>1. /\ CallInv(call[c], rows[c], reached[c]) /\ call[c].phase \in {"fetch", "wait"}
      /\ pins' = release(c)
  BY TheCall DEF FetchFails
<1>2. /\ rows' = [rows EXCEPT ![c] = rows[c]] /\ reached' = [reached EXCEPT ![c] = reached[c]]
      /\ call' = [call EXCEPT ![c] = r]
  BY TheCall DEF FetchFails, EgressInv, Functions
<1>3. r \in CallRecord /\ r.phase = "failed" /\ r.kind = call[c].kind /\ r.host = call[c].host
  BY TheNext DEF Phase
<1> HIDE DEF r
<1>4. CallInv(r, rows[c], reached[c])
  BY <1>1, <1>3 DEF CallInv, Vetted
<1>5. PinsInv' /\ pins' \in [Host -> [ip : Addr \union {Nothing}, refs : Nat]]
  BY <1>1, <1>2, <1>3, Released DEF Holds
<1>6. /\ \A d \in Call : CallInv(call[d], rows[d], reached[d])'
      /\ call' \in [Call -> CallRecord] /\ rows' \in [Call -> Seq(Row)]
      /\ reached' \in [Call -> Seq(Hop)]
  BY <1>2, <1>4, OneCall
<1>7. QED
  BY <1>5, <1>6 DEF EgressInv, Functions

\* An answer that is followed: the next hop starts at the check of its host.
LEMMA Following ==
    ASSUME EgressInv, NEW c \in Call, NEW h \in Host, redirect(c, h)
    PROVE  EgressInv'
<1> DEFINE p == IF call[c].hops = MaxRedirects THEN "failed" ELSE "check"
           r == [call[c] EXCEPT !.hops = @ + 1, !.host = h, !.phase = p]
<1>1. call[c] \in CallRecord /\ at(c, "wait") /\ call[c].phase = "wait"
  BY TheCall DEF redirect, at
<1>2. /\ call' = [call EXCEPT ![c] = r] /\ recordEgress(c, "allowed")
      /\ reached' = reached /\ pins' = release(c)
  BY DEF redirect, EgressInv, Functions
<1>a. p \in {"check", "failed"}
  OBVIOUS
<1> HIDE DEF p
<1>3. r \in CallRecord /\ r.phase = p /\ r.kind = call[c].kind /\ r.host = h
  <2>1. p \in Phase /\ call[c].hops + 1 \in Nat
    BY <1>1, <1>a DEF CallRecord, Phase
  <2>2. QED
    BY <1>1, <2>1 DEF CallRecord
<1> HIDE DEF r
<1>4. r.phase \in {"done", "check", "failed"}
  BY <1>3, <1>a
<1>5. /\ \A d \in Call : CallInv(call[d], rows[d], reached[d])'
      /\ call' \in [Call -> CallRecord] /\ rows' \in [Call -> Seq(Row)]
      /\ reached' \in [Call -> Seq(Hop)]
  BY <1>1, <1>2, <1>3, <1>4, Answering
<1>6. PinsInv' /\ pins' \in [Host -> [ip : Addr \union {Nothing}, refs : Nat]]
  BY <1>1, <1>2, <1>4, Released DEF Holds
<1>7. QED
  BY <1>5, <1>6 DEF EgressInv, Functions

\* The last answer, of a request or of the dialogue with a mail server.
LEMMA Ending ==
    ASSUME EgressInv, NEW c \in Call, answer(c) \/ sent(c)
    PROVE  EgressInv'
<1> DEFINE r == [call[c] EXCEPT !.phase = "done"]
<1>1. call[c] \in CallRecord /\ CallInv(call[c], rows[c], reached[c])
  BY TheCall
<1>2. call' = [call EXCEPT ![c] = r] /\ recordEgress(c, "allowed") /\ reached' = reached
  BY TheCall DEF answer, sent
<1>3. r \in CallRecord /\ r.phase = "done" /\ r.kind = call[c].kind /\ r.host = call[c].host
  BY TheNext DEF Phase
<1> HIDE DEF r
<1>4. PICK p \in {"wait", "accepted"} : at(c, p)
  BY DEF answer, sent
<1>5. r.host \in Host
  BY <1>1, <1>3, <1>4 DEF CallInv, at
<1>6. /\ \A d \in Call : CallInv(call[d], rows[d], reached[d])'
      /\ call' \in [Call -> CallRecord] /\ rows' \in [Call -> Seq(Row)]
      /\ reached' \in [Call -> Seq(Hop)]
  BY <1>2, <1>3, <1>4, <1>5, Answering
<1>7. PinsInv' /\ pins' \in [Host -> [ip : Addr \union {Nothing}, refs : Nat]]
  <2>1. \A g \in Host : ~Holds(r, g)
    BY <1>3 DEF Holds
  <2>2. CASE answer(c)
    BY <1>2, <2>1, <2>2, Released DEF answer, at
  <2>3. CASE sent(c)
    <3>1. pins' = pins /\ \A g \in Host : ~Holds(call[c], g)
      BY <2>3 DEF sent, at, Holds
    <3>2. QED
      BY <1>2, <2>1, <3>1, PinsKept DEF EgressInv, Functions
  <2>4. QED
    BY <2>2, <2>3
<1>8. QED
  BY <1>6, <1>7 DEF EgressInv, Functions

\* A call that is taken up: nothing said, nowhere been.
LEMMA Dispatching ==
    ASSUME EgressInv, NEW c \in Call, NEW kind \in Kind, NEW h \in Host, dispatch(c, kind, h)
    PROVE  EgressInv'
<1> DEFINE r == [NoCall EXCEPT !.kind = kind, !.phase = "check", !.host = h]
<1>1. call' = [call EXCEPT ![c] = r] /\ UNCHANGED <<pins, rows, reached>>
  BY DEF dispatch
<1>2. r \in CallRecord /\ r.phase = "check" /\ r.kind = kind /\ r.host = h
  BY DEF NoCall, CallRecord, Phase
<1>3. call[c].phase = "idle" /\ rows[c] = <<>> /\ reached[c] = <<>>
  BY TheCall DEF dispatch, at, CallInv
<1> HIDE DEF r
<1>4. CallInv(r, rows[c], reached[c])
  BY <1>2, <1>3 DEF CallInv, Vetted, Recorded
<1>5. \A g \in Host : Holds(r, g) <=> Holds(call[c], g)
  BY <1>2, <1>3 DEF Holds
<1>6. QED
  BY <1>1, <1>4, <1>5, Moves

\* The channel of a dialogue becomes a secure one.
LEMMA Securing ==
    ASSUME EgressInv, NEW c \in Call, starttls(c)
    PROVE  EgressInv'
<1> DEFINE r == [call[c] EXCEPT !.secure = "tls"]
<1>1. /\ CallInv(call[c], rows[c], reached[c]) /\ call[c] \in CallRecord
      /\ call[c].phase = "greeting" /\ UNCHANGED <<pins, rows, reached>>
  BY TheCall DEF starttls, at
<1>2. call' = [call EXCEPT ![c] = r]
  BY DEF starttls, EgressInv, Functions
<1>3. r \in CallRecord /\ r.phase = call[c].phase /\ r.kind = call[c].kind /\ r.host = call[c].host
  BY <1>1 DEF CallRecord
<1> HIDE DEF r
<1>4. CallInv(r, rows[c], reached[c])
  BY <1>1, <1>3 DEF CallInv, Vetted
<1>5. \A g \in Host : Holds(r, g) <=> Holds(call[c], g)
  BY <1>3 DEF Holds
<1>6. QED
  BY <1>1, <1>2, <1>4, <1>5, Moves

\* Every step of every call keeps the pins counted and the records complete.
LEMMA EgressStep == EgressInv /\ [EgressNext]_egressVars => EgressInv'
<1> SUFFICES ASSUME EgressInv, [EgressNext]_egressVars PROVE EgressInv'
  OBVIOUS
<1>1. CASE UNCHANGED egressVars
  BY <1>1 DEF egressVars, EgressInv, Functions, PinsInv, Holders, Holds, CallInv, Vetted, Recorded
<1>2. ASSUME NEW c \in Call, dispatchRefuses(c) PROVE EgressInv'
  BY <1>2, GoesOn DEF dispatchRefuses, Phase
<1>3. ASSUME NEW c \in Call, Blocked(c) PROVE EgressInv'
  BY <1>3, Stopping DEF Blocked
<1>4. ASSUME NEW c \in Call, Allowed(c) PROVE EgressInv'
  <2>1. CASE call[c].kind = "browser"
    <3>1. to(c, "fetch") /\ at(c, "check") /\ call[c].host \in AllowedHost /\ UNCHANGED <<pins, rows, reached>>
      BY <1>4, <2>1 DEF Allowed, assertEgressAllowed
    <3>2. QED
      BY <2>1, <3>1, GoesOn DEF Phase
  <2>2. CASE call[c].kind # "browser"
    <3>1. to(c, "resolve") /\ at(c, "check") /\ call[c].host \in AllowedHost /\ UNCHANGED <<pins, rows, reached>>
      BY <1>4, <2>2 DEF Allowed, assertEgressAllowed
    <3>2. QED
      BY <2>2, <3>1, GoesOn DEF Phase
  <2>3. QED
    BY <2>1, <2>2
<1>5. ASSUME NEW c \in Call, ResolvedDenied(c) PROVE EgressInv'
  BY <1>5, Stopping DEF ResolvedDenied
<1>6. ASSUME NEW c \in Call, authLogin(c) PROVE EgressInv'
  BY <1>6, GoesOn DEF authLogin, at, Phase
<1>7. ASSUME NEW c \in Call, mailData(c) PROVE EgressInv'
  BY <1>7, GoesOn DEF mailData, Phase
<1>8. ASSUME NEW c \in Call, dialogueFails(c) PROVE EgressInv'
  BY <1>8, GoesOn DEF dialogueFails, Phase
<1>9. QED
  BY <1>1, <1>2, <1>3, <1>4, <1>5, <1>6, <1>7, <1>8, Dispatching, Vetting, Connecting, Failing, Opaque,
     Following, Ending, Securing DEF EgressNext

\* For any number of interleaved calls, hosts, addresses and redirects: no
\* connector leaves its contract, the daemon's connect to vetted addresses
\* only, and what they return is journalled hop by hop (resolveVettedIp,
\* pinHostResolution and recordEgress).
THEOREM EgressAccountable == EgressSpec => []EgressIsAccountable
<1>1. EgressInv => EgressIsAccountable
  <2> SUFFICES ASSUME EgressInv PROVE EgressIsAccountable
    OBVIOUS
  <2>1. EgressIsVetted
    <3> SUFFICES ASSUME NEW c \in Call, NEW i \in DOMAIN reached[c]
                 PROVE  /\ reached[c][i].host \in AllowedHost
                        /\ call[c].kind # "browser" => reached[c][i].ip \notin DeniedAddr
      BY DEF EgressIsVetted
    <3>1. reached[c] \in Seq(Hop) /\ Vetted(call[c], reached[c])
      BY TheCall DEF CallInv
    <3>2. i \in 1..Len(reached[c])
      BY <3>1
    <3>3. QED
      BY <3>1, <3>2 DEF Vetted
  <2>2. AnswerHasTranscript
    BY TheCall DEF AnswerHasTranscript, CallInv
  <2>3. QED
    BY <2>1, <2>2 DEF EgressIsAccountable
<1>2. QED
  BY <1>1, EgressStart, EgressStep, PTL DEF EgressSpec
-----------------------------------------------------------------------------
(* Connections. A revocation that waits for its provider holds the list it *)
(* has read and writes it back, so a list is as dangerous as the registry: *)
(* what is true of conns must be true of every list held. A flow that is   *)
(* not complete is absent from all of them or present in all of them.      *)

FlowStatus == {"none", "pending", "expired", "error", "exchanging", "complete"}
ConnList == [Flow -> {None, "active", "revoked"}]
VaultRecord == [native : [Ref -> Flow \cup Bundle \cup {None}],
                file : [Ref -> Flow \cup Bundle \cup {None}],
                index : [Ref -> {None, "native", "file"}]]

OAuthTypeOK ==
    /\ flow \in [Flow -> FlowStatus] /\ conns \in ConnList /\ vault \in VaultRecord
    /\ revoking \in [Flow -> ConnList \cup {None}] /\ markers \in SUBSET Bundle

Unusable(list, v) == \A f \in Flow : list[f] = "revoked" => v.index[f] = None /\ v.file[f] = None

\* A list that a revocation of g holds.
HeldList(g) ==
    revoking[g] # None =>
        /\ revoking[g] \in ConnList /\ revoking[g][g] # None
        /\ Unusable(revoking[g], vault)
        /\ \A f \in Flow : flow[f] # "complete" => (revoking[g][f] = None <=> conns[f] = None)

UnderWay == \A f \in Flow : flow[f] \in {"pending", "exchanging"} => conns[f] = None

OAuthInv ==
    /\ OAuthTypeOK /\ UnderWay
    /\ Unusable(conns, vault)
    /\ \A g \in Flow : HeldList(g)
    /\ MarkerHasMaterial

\* Storing touches one ref.
LEMMA VaultSets ==
    ASSUME vault \in VaultRecord, NEW r \in Ref, NEW x \in Flow \cup Bundle
    PROVE  LET w == vaultSet(vault, r, x) IN
           /\ w \in VaultRecord /\ w.index[r] # None
           /\ (IF w.index[r] = "native" THEN w.native ELSE w.file)[r] = x
           /\ \A q \in Ref : q # r => /\ w.index[q] = vault.index[q] /\ w.file[q] = vault.file[q]
                                      /\ w.native[q] = vault.native[q]
  BY OAuthAssumption DEF VaultRecord, vaultSet

\* Deleting clears the file and the index of one ref.
LEMMA VaultDeletes ==
    ASSUME vault \in VaultRecord, NEW r \in Ref
    PROVE  LET w == vaultDelete(vault, r) IN
           /\ w \in VaultRecord /\ w.index[r] = None /\ w.file[r] = None
           /\ \A q \in Ref : q # r => /\ w.index[q] = vault.index[q] /\ w.file[q] = vault.file[q]
                                      /\ w.native[q] = vault.native[q]
  BY DEF VaultRecord, vaultDelete

\* Nothing is connected, stored or imported at first.
LEMMA OAuthStart == OAuthInit => OAuthInv
  BY OAuthAssumption
     DEF OAuthInit, OAuthInv, OAuthTypeOK, UnderWay, Unusable, HeldList, MarkerHasMaterial, FlowStatus,
         ConnList, VaultRecord, Ref

\* A step of a flow that touches neither the registry, nor the vault, nor a list.
LEMMA FlowMoves ==
    ASSUME OAuthInv, NEW f \in Flow, NEW status \in FlowStatus \ {"complete"}, flow[f] # "complete",
           flow' = [flow EXCEPT ![f] = status], status \in {"pending", "exchanging"} => conns[f] = None,
           UNCHANGED <<conns, vault, revoking, markers>>
    PROVE  OAuthInv'
<1>1. flow \in [Flow -> FlowStatus]
  BY DEF OAuthInv, OAuthTypeOK
<1>2. OAuthTypeOK' /\ UnderWay' /\ Unusable(conns, vault)' /\ MarkerHasMaterial'
  BY <1>1 DEF OAuthInv, OAuthTypeOK, UnderWay, Unusable, MarkerHasMaterial
<1>3. \A g \in Flow : HeldList(g)'
  BY <1>1 DEF OAuthInv, HeldList, Unusable
<1>4. QED
  BY <1>2, <1>3 DEF OAuthInv

\* After a death no list is held and no flow is known; the rest is as it was
\* or as the half of a handler left it.
LEMMA Forgotten ==
    ASSUME OAuthInv, forget(TRUE), vault' \in VaultRecord, Unusable(conns, vault'), conns' = conns,
           markers' \in SUBSET Bundle, MarkerHasMaterial'
    PROVE  OAuthInv'
<1>1. flow' = [f \in Flow |-> "none"] /\ revoking' = [f \in Flow |-> None]
  BY DEF forget
<1>2. OAuthTypeOK' /\ UnderWay'
  BY <1>1 DEF OAuthInv, OAuthTypeOK, UnderWay, FlowStatus
<1>3. Unusable(conns, vault)' /\ \A g \in Flow : HeldList(g)'
  BY <1>1 DEF Unusable, HeldList
<1>4. QED
  BY <1>2, <1>3 DEF OAuthInv

\* A token stored for a flow that no list shows makes no revoked connection usable.
LEMMA TokenStored ==
    ASSUME OAuthInv, NEW f \in Flow, flow[f] = "exchanging", vault' = vaultSet(vault, f, f)
    PROVE  /\ vault' \in VaultRecord /\ Unusable(conns, vault') /\ conns[f] = None
           /\ \A g \in Flow : revoking[g] # None =>
                  Unusable(revoking[g], vault') /\ revoking[g][f] = None /\ g # f
           /\ markers' = markers => MarkerHasMaterial'
<1>1. conns[f] = None /\ \A g \in Flow : revoking[g] # None => revoking[g][f] = None
  BY DEF OAuthInv, UnderWay, HeldList
<1>2. \A g \in Flow : revoking[g] # None => g # f
  BY <1>1 DEF OAuthInv, HeldList
<1>3. /\ vault' \in VaultRecord
      /\ \A q \in Ref : q # f => /\ vault'.index[q] = vault.index[q] /\ vault'.file[q] = vault.file[q]
                                 /\ vault'.native[q] = vault.native[q]
  BY VaultSets DEF OAuthInv, OAuthTypeOK, Ref
<1>4. \A g \in Flow : g \in Ref /\ g # Origin
  BY OAuthAssumption DEF Ref
<1>5. Unusable(conns, vault') /\ \A g \in Flow : revoking[g] # None => Unusable(revoking[g], vault')
  BY <1>1, <1>3, <1>4, OAuthAssumption DEF OAuthInv, HeldList, Unusable
<1>6. markers' = markers => MarkerHasMaterial'
  BY <1>3, <1>4 DEF OAuthInv, MarkerHasMaterial, Ref
<1>7. QED
  BY <1>1, <1>2, <1>3, <1>5, <1>6

\* A deleted token makes nothing usable, and the material of an import is not touched.
LEMMA TokenDeleted ==
    ASSUME OAuthInv, NEW f \in Flow, vault' = vaultDelete(vault, f)
    PROVE  /\ vault' \in VaultRecord /\ vault'.index[f] = None /\ vault'.file[f] = None
           /\ \A list \in ConnList : Unusable(list, vault) => Unusable(list, vault')
           /\ markers' = markers => MarkerHasMaterial'
<1>1. /\ vault' \in VaultRecord /\ vault'.index[f] = None /\ vault'.file[f] = None
      /\ \A q \in Ref : q # f => /\ vault'.index[q] = vault.index[q] /\ vault'.file[q] = vault.file[q]
                                 /\ vault'.native[q] = vault.native[q]
  BY VaultDeletes DEF OAuthInv, OAuthTypeOK, Ref
<1>2. \A g \in Flow : g \in Ref /\ g # Origin
  BY OAuthAssumption DEF Ref
<1>3. \A list \in ConnList : Unusable(list, vault) => Unusable(list, vault')
  BY <1>1, <1>2 DEF Unusable
<1>4. markers' = markers => MarkerHasMaterial'
  BY <1>1, <1>2 DEF OAuthInv, MarkerHasMaterial, Ref
<1>5. QED
  BY <1>1, <1>3, <1>4

\* The registry or a list is written back: what it says of a flow that is not
\* complete is what every other list says.
LEMMA RevokedLocally ==
    ASSUME OAuthInv, NEW f \in Flow, NEW died \in BOOLEAN, revokeLocally(f, died)
    PROVE  OAuthInv'
<1>1. /\ vault' = vaultDelete(vault, f) /\ markers' = markers /\ revoking[f] # None
  BY DEF revokeLocally
<1>2. /\ vault' \in VaultRecord /\ vault'.index[f] = None /\ vault'.file[f] = None
      /\ \A list \in ConnList : Unusable(list, vault) => Unusable(list, vault')
      /\ MarkerHasMaterial'
  BY <1>1, TokenDeleted
<1>3. CASE died
  <2>1. forget(TRUE) /\ conns' = conns
    BY <1>3 DEF revokeLocally
  <2>2. QED
    BY <1>1, <1>2, <2>1, Forgotten DEF OAuthInv, OAuthTypeOK
<1>4. CASE ~died
  <2>1. /\ conns' = [revoking[f] EXCEPT ![f] = "revoked"]
        /\ revoking' = [revoking EXCEPT ![f] = None] /\ flow' = flow
    BY <1>4 DEF revokeLocally
  <2>2. /\ revoking[f] \in ConnList /\ revoking[f][f] # None /\ Unusable(revoking[f], vault)
        /\ \A h \in Flow : flow[h] # "complete" => (revoking[f][h] = None <=> conns[h] = None)
    BY <1>1 DEF OAuthInv, HeldList
  <2>3. conns' \in ConnList /\ conns'[f] = "revoked" /\ \A h \in Flow : h # f => conns'[h] = revoking[f][h]
    BY <2>1, <2>2 DEF ConnList
  <2>4. Unusable(conns, vault)'
    BY <1>2, <2>2, <2>3 DEF Unusable
  <2>5. \A h \in Flow : flow[h] # "complete" => (conns'[h] = None <=> conns[h] = None)
    BY <2>2, <2>3, OAuthAssumption
  <2>6. UnderWay'
    BY <2>1, <2>5 DEF OAuthInv, UnderWay
  <2>7. OAuthTypeOK'
    BY <1>1, <1>2, <2>1, <2>3 DEF OAuthInv, OAuthTypeOK
  <2>8. ASSUME NEW g \in Flow PROVE HeldList(g)'
    <3>1. revoking'[g] # None => revoking'[g] = revoking[g] /\ revoking[g] # None
      BY <2>1 DEF OAuthInv, OAuthTypeOK
    <3>2. revoking[g] # None => HeldList(g) /\ revoking[g] \in ConnList
      BY DEF OAuthInv, HeldList
    <3>3. revoking[g] # None => Unusable(revoking[g], vault')
      BY <1>2, <3>2 DEF HeldList
    <3>4. QED
      BY <2>1, <2>5, <3>1, <3>2, <3>3 DEF HeldList, Unusable
  <2>9. QED
    BY <1>2, <2>4, <2>6, <2>7, <2>8 DEF OAuthInv
<1>5. QED
  BY <1>3, <1>4

\* The flow completes: it is the newest entry of the registry, and no list has it.
LEMMA Completed ==
    ASSUME OAuthInv, NEW f \in Flow, NEW died \in BOOLEAN, completeFlow(f, died)
    PROVE  OAuthInv'
<1>1. flow[f] = "exchanging" /\ vault' = vaultSet(vault, f, f) /\ markers' = markers
  BY DEF completeFlow
<1>2. /\ vault' \in VaultRecord /\ Unusable(conns, vault') /\ conns[f] = None
      /\ \A g \in Flow : revoking[g] # None =>
             Unusable(revoking[g], vault') /\ revoking[g][f] = None /\ g # f
      /\ MarkerHasMaterial'
  BY <1>1, TokenStored
<1>3. CASE died
  <2>1. forget(TRUE) /\ conns' = conns
    BY <1>3 DEF completeFlow
  <2>2. QED
    BY <1>1, <1>2, <2>1, Forgotten DEF OAuthInv, OAuthTypeOK
<1>4. CASE ~died
  <2>1. /\ conns' = [conns EXCEPT ![f] = "active"] /\ flow' = [flow EXCEPT ![f] = "complete"]
        /\ revoking' = revoking
    BY <1>4 DEF completeFlow
  <2>2. OAuthTypeOK' /\ UnderWay'
    BY <1>1, <1>2, <2>1 DEF OAuthInv, OAuthTypeOK, UnderWay, ConnList, FlowStatus
  <2>3. Unusable(conns, vault)'
    BY <1>2, <2>1 DEF OAuthInv, OAuthTypeOK, ConnList, Unusable
  <2>4. ASSUME NEW g \in Flow PROVE HeldList(g)'
    BY <1>2, <2>1 DEF OAuthInv, OAuthTypeOK, ConnList, HeldList, Unusable
  <2>5. QED
    BY <1>2, <2>2, <2>3, <2>4 DEF OAuthInv
<1>5. QED
  BY <1>3, <1>4

\* An import writes the ref of its origin and no other.
LEMMA Imported ==
    ASSUME OAuthInv, NEW b \in Bundle, NEW overwrite \in BOOLEAN, NEW died \in BOOLEAN,
           importMigrationBundle(b, overwrite, died)
    PROVE  OAuthInv'
<1>1. /\ vault' = vaultSet(vault, Origin, b) /\ conns' = conns /\ forget(died)
      /\ markers' = IF died THEN markers ELSE markers \cup {b}
  BY DEF importMigrationBundle
<1>0. Origin \in Ref /\ b \in Flow \cup Bundle /\ vault \in VaultRecord
  BY DEF Ref, OAuthInv, OAuthTypeOK
<1>2. /\ vault' \in VaultRecord /\ vault'.index[Origin] # None
      /\ (IF vault'.index[Origin] = "native" THEN vault'.native ELSE vault'.file)[Origin] = b
      /\ \A q \in Ref : q # Origin => vault'.index[q] = vault.index[q] /\ vault'.file[q] = vault.file[q]
  BY <1>0, <1>1, VaultSets
<1>3. MarkerHasMaterial' /\ markers' \in SUBSET Bundle
  BY <1>1, <1>2 DEF MarkerHasMaterial, OAuthInv, OAuthTypeOK
<1>4. \A g \in Flow : g \in Ref /\ g # Origin
  BY OAuthAssumption DEF Ref
<1>5. \A list \in ConnList : Unusable(list, vault) => Unusable(list, vault')
  BY <1>2, <1>4 DEF Unusable
<1>6. Unusable(conns, vault')
  BY <1>5 DEF OAuthInv, OAuthTypeOK
<1>7. CASE died
  BY <1>1, <1>2, <1>3, <1>6, <1>7, Forgotten
<1>8. CASE ~died
  <2>1. flow' = flow /\ revoking' = revoking
    BY <1>1, <1>8 DEF forget
  <2>2. OAuthTypeOK' /\ UnderWay' /\ Unusable(conns, vault)'
    BY <1>1, <1>2, <1>3, <1>6, <2>1 DEF OAuthInv, OAuthTypeOK, UnderWay, Unusable
  <2>3. ASSUME NEW g \in Flow PROVE HeldList(g)'
    <3>1. revoking[g] # None => HeldList(g) /\ revoking[g] \in ConnList /\ Unusable(revoking[g], vault')
      BY <1>5 DEF OAuthInv, HeldList
    <3>2. QED
      BY <1>1, <2>1, <3>1 DEF HeldList, Unusable
  <2>4. QED
    BY <1>3, <2>2, <2>3 DEF OAuthInv
<1>9. QED
  BY <1>7, <1>8

\* Every step keeps the registry and every list held in agreement with the vault.
LEMMA OAuthStep == OAuthInv /\ [OAuthNext]_oauthVars => OAuthInv'
<1> SUFFICES ASSUME OAuthInv, [OAuthNext]_oauthVars PROVE OAuthInv'
  OBVIOUS
<1>1. ASSUME NEW f \in Flow, startFlow(f) PROVE OAuthInv'
  BY <1>1, FlowMoves DEF startFlow, FlowStatus
<1>2. ASSUME NEW f \in Flow, expireFlow(f) PROVE OAuthInv'
  BY <1>2, FlowMoves DEF expireFlow, FlowStatus
<1>3. ASSUME NEW f \in Flow, handleCallback(f) PROVE OAuthInv'
  <2>1. flow[f] = "pending" /\ conns[f] = None /\ UNCHANGED <<conns, vault, revoking, markers>>
    BY <1>3 DEF handleCallback, OAuthInv, UnderWay
  <2>2. PICK outcome \in {"error", "exchanging"} : flow' = [flow EXCEPT ![f] = outcome]
    BY <1>3 DEF handleCallback
  <2>3. QED
    BY <2>1, <2>2, FlowMoves DEF FlowStatus
<1>4. ASSUME NEW f \in Flow, exchangeFails(f) PROVE OAuthInv'
  BY <1>4, FlowMoves DEF exchangeFails, FlowStatus
<1>5. ASSUME NEW f \in Flow, revokeConnection(f) PROVE OAuthInv'
  <2>1. /\ conns[f] # None /\ revoking' = [revoking EXCEPT ![f] = conns]
        /\ UNCHANGED <<flow, conns, vault, markers>>
    BY <1>5 DEF revokeConnection
  <2>2. OAuthTypeOK' /\ UnderWay' /\ Unusable(conns, vault)' /\ MarkerHasMaterial'
    BY <2>1 DEF OAuthInv, OAuthTypeOK, UnderWay, Unusable, MarkerHasMaterial
  <2>3. ASSUME NEW g \in Flow PROVE HeldList(g)'
    BY <2>1 DEF OAuthInv, OAuthTypeOK, HeldList, Unusable
  <2>4. QED
    BY <2>2, <2>3 DEF OAuthInv
<1>6. CASE Die
  <2>1. forget(TRUE) /\ UNCHANGED <<conns, vault, markers>>
    BY <1>6 DEF Die
  <2>2. QED
    BY <2>1, Forgotten DEF OAuthInv, OAuthTypeOK, MarkerHasMaterial
<1>7. CASE LockKeychain \/ UnlockKeychain \/ UNCHANGED oauthVars
  <2>1. UNCHANGED <<flow, conns, vault, revoking, markers>>
    BY <1>7 DEF LockKeychain, UnlockKeychain, oauthVars
  <2>2. QED
    BY <2>1 DEF OAuthInv, OAuthTypeOK, UnderWay, Unusable, HeldList, MarkerHasMaterial
<1>8. QED
  BY <1>1, <1>2, <1>3, <1>4, <1>5, <1>6, <1>7, Completed, RevokedLocally, Imported DEF OAuthNext

\* A connection shown as revoked has no token the vault would give out, and a
\* migration_import row stands for material in the vault, whatever flows,
\* revocations that wait, imports, deaths and locked keychains came in between
\* (revokeConnection, oauth-pkce.mjs; importMigrationBundle, migration-import.mjs).
THEOREM VaultMatches == OAuthSpec => []VaultMatchesRegistry
<1>1. OAuthInv => VaultMatchesRegistry
  BY DEF OAuthInv, Unusable, VaultMatchesRegistry, RevokedIsUnusable
<1>2. QED
  BY <1>1, OAuthStart, OAuthStep, PTL DEF OAuthSpec
-----------------------------------------------------------------------------
(* Connections made in the browser. The state of a flow is a number that   *)
(* was never used before, so the one provider whose pending flow has it is *)
(* the provider the tab left for. A key that encrypts a token is the one   *)
(* of the record: a record that nobody saw missing is never replaced, and  *)
(* who saw it missing is still enrolling or has enrolled.                  *)

BrowserPage == [phase : {"view", "away", "back"}, provider : Provider \cup {Unset}, code : Nat \cup {Unset}]
BrowserWork == [phase : {"none", "exchange", "vault", "enroll", "store"}, tab : Tab \cup {Unset},
                provider : Provider \cup {Unset}, dek : Nat]
Relayed == [state : Nat, by : Provider]

\* What is under way has a tab and a provider.
VaultTypeOK ==
    /\ record \in Nat /\ deks \in Nat /\ tokens \in [Provider -> Nat \cup {Unset}]
    /\ work \in [Work -> BrowserWork]
    /\ \A w \in Work : work[w].phase # "none" => work[w].tab \in Tab /\ work[w].provider \in Provider

PagesTypeOK ==
    /\ begun \in Nat
    /\ pending \in [Tab -> [Provider -> Nat \cup {Unset}]]
    /\ relay \in [Tab -> Relayed \cup {Unset}]
    /\ page \in [Tab -> BrowserPage]

\* The number of a flow is pending with one provider at most.
Names(flows, number, p) ==
    number \in 1..begun /\ \A q \in Provider : flows[q] = number => q = p

TabFlow(r, flows, back) ==
    /\ \A p \in Provider : flows[p] # Unset => flows[p] \in 1..begun
    /\ r.phase = "away" => r.provider \in Provider /\ Names(flows, r.code, r.provider)
    /\ back # Unset => back \in Relayed /\ Names(flows, back.state, back.by)

CodesInv ==
    /\ PagesTypeOK
    /\ \A t \in Tab : TabFlow(page[t], pending[t], relay[t])
    /\ \A s \in spent : s.of = s.to

\* Nothing is pending, relayed, spent or under way at first.
LEMMA BrowserStart == BrowserInit => VaultTypeOK /\ CodesInv
  BY BrowserAssumption
  DEF BrowserInit, CodesInv, VaultTypeOK, PagesTypeOK, TabFlow, Names, Home, Done, BrowserPage, BrowserWork, Relayed

\* What is under way stays well formed: it is begun with a tab and a provider
\* and goes on with them.
LEMMA VaultStep == VaultTypeOK /\ [BrowserNext]_browserVars => VaultTypeOK'
<1> SUFFICES ASSUME VaultTypeOK, [BrowserNext]_browserVars PROVE VaultTypeOK'
  OBVIOUS
<1>0. /\ record \in Nat /\ deks \in Nat /\ \A w \in Work : work[w] \in BrowserWork
      /\ Done \in BrowserWork /\ Done.phase = "none"
  BY DEF VaultTypeOK, Done, BrowserWork
<1>1. ASSUME NEW w \in Work, NEW x \in BrowserWork, work' = [work EXCEPT ![w] = x],
             x.phase # "none" => x.tab \in Tab /\ x.provider \in Provider,
             record' \in Nat, deks' \in Nat, tokens' = tokens
      PROVE  VaultTypeOK'
  BY <1>1 DEF VaultTypeOK
<1>2. ASSUME NEW t \in Tab, unloads(t), UNCHANGED keys PROVE VaultTypeOK'
  BY <1>0, <1>2 DEF unloads, keys, VaultTypeOK
<1>3. ASSUME NEW w \in Work, NEW t \in Tab, NEW p \in Provider, NEW ph \in {"exchange", "vault"},
             setsOff(w, t, p, ph), UNCHANGED keys
      PROVE  VaultTypeOK'
  <2> DEFINE x == [phase |-> ph, tab |-> t, provider |-> p, dek |-> 0]
  <2>1. x \in BrowserWork /\ x.tab \in Tab /\ x.provider \in Provider
    BY DEF BrowserWork
  <2>2. work' = [work EXCEPT ![w] = x]
    BY <1>3 DEF setsOff
  <2> HIDE DEF x
  <2>3. QED
    BY <1>0, <1>1, <1>3, <2>1, <2>2 DEF keys
<1>4. ASSUME NEW w \in Work, givesUp(w), UNCHANGED keys PROVE VaultTypeOK'
  BY <1>0, <1>1, <1>4 DEF givesUp, keys
<1>5. ASSUME NEW w \in Work, work[w].phase # "none", NEW d \in Nat,
             work' = [work EXCEPT ![w].phase = "store", ![w].dek = d],
             record' \in Nat, deks' \in Nat, tokens' = tokens
      PROVE  VaultTypeOK'
  <2> DEFINE x == [work[w] EXCEPT !.phase = "store", !.dek = d]
  <2>1. /\ work[w] \in BrowserWork /\ work[w].tab \in Tab /\ work[w].provider \in Provider
        /\ work \in [Work -> BrowserWork]
    BY <1>5 DEF VaultTypeOK
  <2>2. x \in BrowserWork /\ x.tab \in Tab /\ x.provider \in Provider
    BY <2>1 DEF BrowserWork
  <2>3. work' = [work EXCEPT ![w] = x]
    BY <1>5, <2>1
  <2> HIDE DEF x
  <2>4. QED
    BY <1>1, <1>5, <2>2, <2>3
<1>6. ASSUME NEW w \in Work, work[w].phase # "none", NEW ph \in {"vault", "enroll"}, moves(w, ph), UNCHANGED keys
      PROVE  VaultTypeOK'
  <2> DEFINE x == [work[w] EXCEPT !.phase = ph]
  <2>1. x \in BrowserWork /\ x.tab \in Tab /\ x.provider \in Provider /\ work' = [work EXCEPT ![w] = x]
    BY <1>0, <1>6 DEF VaultTypeOK, BrowserWork, moves
  <2> HIDE DEF x
  <2>2. QED
    BY <1>0, <1>1, <1>6, <2>1 DEF keys
<1>7. ASSUME NEW t \in Tab PROVE
        /\ \A p \in Provider : startBrowserFlow(t, p) => VaultTypeOK'
        /\ \A p \in Provider, w \in Work : completePending(t, p, w) => VaultTypeOK'
        /\ relayAndRedirect(t) \/ comeBack(t) \/ completeNone(t) => VaultTypeOK'
        /\ \A w \in Work : submitGithubPat(t, w) => VaultTypeOK'
  <2>1. \A p \in Provider : startBrowserFlow(t, p) => VaultTypeOK'
    BY DEF startBrowserFlow, keys, VaultTypeOK
  <2>2. \A p \in Provider, w \in Work : completePending(t, p, w) => VaultTypeOK'
    BY <1>3 DEF completePending
  <2>3. relayAndRedirect(t) \/ comeBack(t) => VaultTypeOK'
    BY <1>2 DEF relayAndRedirect, comeBack
  <2>4. completeNone(t) => VaultTypeOK'
    BY DEF completeNone, keys, VaultTypeOK
  <2>5. \A w \in Work : submitGithubPat(t, w) => VaultTypeOK'
    BY <1>3, BrowserAssumption DEF submitGithubPat
  <2>6. QED
    BY <2>1, <2>2, <2>3, <2>4, <2>5
<1>8. ASSUME NEW w \in Work, completeBrowserFlow(w) PROVE VaultTypeOK'
  BY <1>4, <1>6, <1>8 DEF completeBrowserFlow, workAt
<1>9. ASSUME NEW w \in Work, ensureVaultDek(w) PROVE VaultTypeOK'
  <2>1. CASE work' = [work EXCEPT ![w].phase = "store", ![w].dek = record]
    BY <1>0, <1>5, <1>9, <2>1 DEF ensureVaultDek, workAt, keys
  <2>2. QED
    BY <1>4, <1>6, <1>9, <2>1 DEF ensureVaultDek, workAt
<1>10. ASSUME NEW w \in Work, enrollPassphrase(w) PROVE VaultTypeOK'
  <2>1. /\ work[w].phase = "enroll" /\ record' = deks + 1 /\ deks' = deks + 1 /\ tokens' = tokens
        /\ work' = [work EXCEPT ![w].phase = "store", ![w].dek = deks + 1]
    BY <1>10 DEF enrollPassphrase, enrolling, workAt
  <2>2. work[w].phase # "none" /\ deks + 1 \in Nat
    BY <1>0, <2>1
  <2>3. QED
    BY <1>5, <2>1, <2>2
<1>11. ASSUME NEW w \in Work, setToken(w) PROVE VaultTypeOK'
  <2>1. work[w].dek \in Nat /\ work[w].provider \in Provider
    BY <1>0, <1>11 DEF setToken, workAt, VaultTypeOK, BrowserWork
  <2>2. tokens' \in [Provider -> Nat \cup {Unset}]
    BY <1>11, <2>1 DEF setToken, VaultTypeOK
  <2>3. QED
    BY <1>0, <1>11, <2>2 DEF setToken, VaultTypeOK
<1>12. CASE UNCHANGED browserVars
  BY <1>12 DEF browserVars, VaultTypeOK
<1>13. QED
  BY <1>7, <1>8, <1>9, <1>10, <1>11, <1>12 DEF BrowserNext

\* A step of one tab that starts no flow.
LEMMA OneTab ==
    ASSUME CodesInv, NEW t \in Tab, NEW r \in BrowserPage, NEW flows \in [Provider -> Nat \cup {Unset}],
           NEW back \in Relayed \cup {Unset},
           page' = [page EXCEPT ![t] = r], pending' = [pending EXCEPT ![t] = flows],
           relay' = [relay EXCEPT ![t] = back], TabFlow(r, flows, back), begun' = begun
    PROVE  (\A u \in Tab : TabFlow(page[u], pending[u], relay[u])') /\ PagesTypeOK'
<1>1. PagesTypeOK'
  BY DEF CodesInv, PagesTypeOK
<1>2. ASSUME NEW u \in Tab PROVE TabFlow(page[u], pending[u], relay[u])'
  <2>1. CASE u = t
    <3>1. page'[u] = r /\ pending'[u] = flows /\ relay'[u] = back
      BY <2>1 DEF CodesInv, PagesTypeOK
    <3>2. QED
      BY <3>1 DEF TabFlow, Names
  <2>2. CASE u # t
    <3>1. page'[u] = page[u] /\ pending'[u] = pending[u] /\ relay'[u] = relay[u]
      BY <2>2 DEF CodesInv, PagesTypeOK
    <3>2. QED
      BY <3>1 DEF CodesInv, TabFlow, Names
  <2>3. QED
    BY <2>1, <2>2
<1>3. QED
  BY <1>1, <1>2

\* Flows that are dropped leave the others theirs.
LEMMA FewerFlows ==
    ASSUME CodesInv, NEW t \in Tab, NEW gone, drop(t, gone), begun' = begun, UNCHANGED <<page, spent>>,
           NEW back \in {relay[t], Unset}, relay' = [relay EXCEPT ![t] = back]
    PROVE  CodesInv'
<1> DEFINE fewer == [q \in Provider |-> IF q \in gone THEN Unset ELSE pending[t][q]]
<1>1. /\ pending[t] \in [Provider -> Nat \cup {Unset}] /\ page[t] \in BrowserPage
      /\ page' = [page EXCEPT ![t] = page[t]] /\ begun \in Nat /\ back \in Relayed \cup {Unset}
      /\ TabFlow(page[t], pending[t], relay[t])
  BY DEF CodesInv, PagesTypeOK
<1>2. pending' = [pending EXCEPT ![t] = fewer] /\ fewer \in [Provider -> Nat \cup {Unset}]
  BY <1>1 DEF drop, CodesInv, PagesTypeOK
<1>3. \A q \in Provider : fewer[q] \in {pending[t][q], Unset}
  OBVIOUS
<1> HIDE DEF fewer
<1>4. TabFlow(page[t], fewer, back)
  BY <1>1, <1>2, <1>3, BrowserAssumption DEF TabFlow, Names
<1>5. (\A u \in Tab : TabFlow(page[u], pending[u], relay[u])') /\ PagesTypeOK'
  BY <1>1, <1>2, <1>4, OneTab
<1>6. QED
  BY <1>5 DEF CodesInv

\* A flow that is started has a number of its own.
LEMMA FlowStarted ==
    ASSUME CodesInv, NEW t \in Tab, NEW p \in Provider, startBrowserFlow(t, p)
    PROVE  CodesInv'
<1> DEFINE r == [phase |-> "away", provider |-> p, code |-> begun + 1]
           flows == [pending[t] EXCEPT ![p] = begun + 1]
<1>1. /\ begun' = begun + 1 /\ begun' \in Nat /\ begun \in Nat /\ relay' = relay
      /\ page' = [page EXCEPT ![t] = r] /\ pending' = [pending EXCEPT ![t] = flows]
      /\ spent' = spent
  BY DEF startBrowserFlow, CodesInv, PagesTypeOK
<1>2. /\ r \in BrowserPage /\ r.phase = "away" /\ r.provider = p /\ r.code = begun + 1
  BY <1>1 DEF BrowserPage
<1>3. /\ flows \in [Provider -> Nat \cup {Unset}] /\ flows[p] = begun + 1
      /\ \A q \in Provider : q # p => flows[q] = pending[t][q]
  BY <1>1 DEF CodesInv, PagesTypeOK
<1> HIDE DEF r, flows
<1>4. PagesTypeOK'
  BY <1>1, <1>2, <1>3 DEF CodesInv, PagesTypeOK
<1>5. ASSUME NEW u \in Tab PROVE TabFlow(page[u], pending[u], relay[u])'
  <2>0. TabFlow(page[u], pending[u], relay[u]) /\ relay'[u] = relay[u]
    BY <1>1 DEF CodesInv
  <2>1. CASE u = t
    <3>1. page'[u] = r /\ pending'[u] = flows
      BY <1>1, <2>1 DEF CodesInv, PagesTypeOK
    <3>2. \A q \in Provider : q # p /\ flows[q] # Unset => flows[q] \in 1..begun
      BY <1>3, <2>0, <2>1 DEF TabFlow
    <3>3. \A q \in Provider : flows[q] # Unset => flows[q] \in 1..begun'
      BY <1>1, <1>3, <3>2
    <3>4. begun + 1 \in 1..begun' /\ \A q \in Provider : flows[q] = begun + 1 => q = p
      BY <1>1, <1>3, <3>2, BrowserAssumption
    <3>5. relay[u] # Unset =>
              /\ relay[u] \in Relayed /\ relay[u].state \in 1..begun'
              /\ \A q \in Provider : flows[q] = relay[u].state => q = relay[u].by
      BY <1>1, <1>3, <2>0, <2>1 DEF TabFlow, Names
    <3>6. QED
      BY <1>1, <1>2, <2>0, <3>1, <3>3, <3>4, <3>5 DEF TabFlow, Names
  <2>2. CASE u # t
    <3>1. page'[u] = page[u] /\ pending'[u] = pending[u]
      BY <1>1, <2>2 DEF CodesInv, PagesTypeOK
    <3>2. QED
      BY <1>1, <2>0, <3>1 DEF TabFlow, Names
  <2>3. QED
    BY <2>1, <2>2
<1>6. QED
  BY <1>1, <1>4, <1>5 DEF CodesInv

\* A page that comes home leaves the flows as they are.
LEMMA PageHome ==
    ASSUME CodesInv, NEW t \in Tab, page' = [page EXCEPT ![t] = Home], UNCHANGED <<pending, relay, begun, spent>>
    PROVE  CodesInv'
<1>1. Home \in BrowserPage /\ Home.phase = "view" /\ TabFlow(page[t], pending[t], relay[t])
  BY DEF BrowserPage, Home, CodesInv
<1>2. TabFlow(Home, pending[t], relay[t])
  BY <1>1 DEF TabFlow
<1>3. /\ pending[t] \in [Provider -> Nat \cup {Unset}] /\ relay[t] \in Relayed \cup {Unset}
      /\ pending' = [pending EXCEPT ![t] = pending[t]] /\ relay' = [relay EXCEPT ![t] = relay[t]]
  BY DEF CodesInv, PagesTypeOK
<1>4. (\A u \in Tab : TabFlow(page[u], pending[u], relay[u])') /\ PagesTypeOK'
  BY <1>1, <1>2, <1>3, OneTab
<1>5. QED
  BY <1>4 DEF CodesInv

\* The view is shown, the callback is taken, and flows on the way are dropped.
LEMMA ViewShown ==
    ASSUME CodesInv, NEW t \in Tab, NEW gone, drop(t, gone), begun' = begun,
           page' = [page EXCEPT ![t] = Home], relay' = [relay EXCEPT ![t] = Unset]
    PROVE  (\A u \in Tab : TabFlow(page[u], pending[u], relay[u])') /\ PagesTypeOK'
<1> DEFINE fewer == [q \in Provider |-> IF q \in gone THEN Unset ELSE pending[t][q]]
<1>1. Home \in BrowserPage /\ Home.phase = "view" /\ TabFlow(page[t], pending[t], relay[t])
  BY DEF BrowserPage, Home, CodesInv
<1>2. pending[t] \in [Provider -> Nat \cup {Unset}]
  BY DEF CodesInv, PagesTypeOK
<1>3. pending' = [pending EXCEPT ![t] = fewer] /\ fewer \in [Provider -> Nat \cup {Unset}]
  BY <1>2 DEF drop, CodesInv, PagesTypeOK
<1>4. \A q \in Provider : fewer[q] \in {pending[t][q], Unset}
  OBVIOUS
<1> HIDE DEF fewer
<1>5. TabFlow(Home, fewer, Unset)
  BY <1>1, <1>3, <1>4 DEF TabFlow
<1>6. QED
  BY <1>1, <1>3, <1>5, OneTab

\* Every step keeps the numbers apart and the codes with their provider.
LEMMA CodesStep == VaultTypeOK /\ CodesInv /\ [BrowserNext]_browserVars => CodesInv'
<1> SUFFICES ASSUME VaultTypeOK, CodesInv, [BrowserNext]_browserVars PROVE CodesInv'
  OBVIOUS
<1>0. /\ PagesTypeOK /\ \A t \in Tab : TabFlow(page[t], pending[t], relay[t])
      /\ \A t \in Tab : /\ page[t] \in BrowserPage /\ pending[t] \in [Provider -> Nat \cup {Unset}]
                        /\ relay[t] \in Relayed \cup {Unset}
                        /\ pending = [pending EXCEPT ![t] = pending[t]]
                        /\ relay = [relay EXCEPT ![t] = relay[t]]
  BY DEF CodesInv, PagesTypeOK
<1>1. ASSUME NEW t \in Tab, relayAndRedirect(t) PROVE CodesInv'
  <2> DEFINE r == [Home EXCEPT !.phase = "back"]
             back == [state |-> page[t].code, by |-> page[t].provider]
  <2>1. r \in BrowserPage /\ r.phase = "back"
    BY DEF BrowserPage, Home
  <2>2. /\ page[t].phase = "away" /\ page[t].provider \in Provider
        /\ Names(pending[t], page[t].code, page[t].provider)
    BY <1>0, <1>1 DEF relayAndRedirect, TabFlow
  <2>3. back \in Relayed /\ back.state = page[t].code /\ back.by = page[t].provider
    BY <1>0, <2>2 DEF Relayed, Names, PagesTypeOK
  <2>4. page' = [page EXCEPT ![t] = r] /\ relay' = [relay EXCEPT ![t] = back]
    BY <1>1 DEF relayAndRedirect
  <2> HIDE DEF r, back
  <2>5. UNCHANGED <<pending, begun, spent>>
    BY <1>1 DEF relayAndRedirect
  <2>6. TabFlow(r, pending[t], back)
    BY <1>0, <2>1, <2>2, <2>3 DEF TabFlow
  <2>7. (\A u \in Tab : TabFlow(page[u], pending[u], relay[u])') /\ PagesTypeOK'
    BY <1>0, <2>1, <2>3, <2>4, <2>5, <2>6, OneTab
  <2>8. QED
    BY <2>5, <2>7 DEF CodesInv
<1>2. ASSUME NEW t \in Tab, comeBack(t) PROVE CodesInv'
  BY <1>2, PageHome DEF comeBack
<1>3. ASSUME NEW t \in Tab, NEW p \in Provider, NEW w \in Work, completePending(t, p, w) PROVE CodesInv'
  <2>1. (\A u \in Tab : TabFlow(page[u], pending[u], relay[u])') /\ PagesTypeOK'
    BY <1>3, ViewShown DEF completePending
  <2>2. relay[t].by = p
    BY <1>0, <1>3 DEF completePending, matches, TabFlow, Names
  <2>3. spent' = spent \cup {[code |-> relay[t].state, of |-> relay[t].by, to |-> p]}
    BY <1>3 DEF completePending
  <2>4. \A s \in spent' : s.of = s.to
    BY <2>2, <2>3 DEF CodesInv
  <2>5. QED
    BY <2>1, <2>4 DEF CodesInv
<1>4. ASSUME NEW t \in Tab, completeNone(t) PROVE CodesInv'
  <2>1. (\A u \in Tab : TabFlow(page[u], pending[u], relay[u])') /\ PagesTypeOK' /\ spent' = spent
    BY <1>4, ViewShown DEF completeNone
  <2>2. QED
    BY <2>1 DEF CodesInv
<1>5. ASSUME NEW w \in Work, work[w].phase # "none", UNCHANGED <<relay, page, begun, spent>>,
             \E gone : drop(work[w].tab, gone)
      PROVE  CodesInv'
  <2>1. work[w].tab \in Tab
    BY <1>5 DEF VaultTypeOK
  <2>2. relay' = [relay EXCEPT ![work[w].tab] = relay[work[w].tab]]
    BY <1>0, <1>5, <2>1
  <2>3. QED
    BY <1>5, <2>1, <2>2, FewerFlows
<1>6. ASSUME NEW w \in Work, completeBrowserFlow(w) PROVE CodesInv'
  BY <1>5, <1>6 DEF completeBrowserFlow, givesUp, workAt
<1>7. ASSUME UNCHANGED <<pending, relay, page, spent>>, begun' \in Nat, begun' >= begun PROVE CodesInv'
  BY <1>0, <1>7 DEF CodesInv, PagesTypeOK, TabFlow, Names
<1>8. ASSUME NEW t \in Tab, NEW w \in Work, submitGithubPat(t, w) PROVE CodesInv'
  BY <1>0, <1>7, <1>8 DEF submitGithubPat, PagesTypeOK
<1>9. ASSUME NEW w \in Work, ensureVaultDek(w) PROVE CodesInv'
  <2>1. CASE UNCHANGED pending
    BY <1>0, <1>7, <1>9, <2>1 DEF ensureVaultDek, PagesTypeOK
  <2>2. CASE givesUp(w)
    BY <1>5, <1>9, <2>2 DEF ensureVaultDek, givesUp, workAt
  <2>3. QED
    BY <1>9, <2>1, <2>2 DEF ensureVaultDek
<1>10. ASSUME NEW w \in Work, enrollPassphrase(w) \/ setToken(w) PROVE CodesInv'
  BY <1>0, <1>7, <1>10 DEF enrollPassphrase, setToken, PagesTypeOK
<1>11. CASE UNCHANGED browserVars
  BY <1>0, <1>7, <1>11 DEF browserVars, PagesTypeOK
<1>12. QED
  BY <1>1, <1>2, <1>3, <1>4, <1>6, <1>8, <1>9, <1>10, <1>11, FlowStarted DEF BrowserNext

\* A token, and a key about to seal one, is the record's or one that another
\* enrolment raced with. Who enrols saw no record: if there is one by now, it
\* was saved while that enrolment was under way.
KeysInv ==
    /\ \A p \in Provider : tokens[p] # Unset => (tokens[p] = record /\ record # 0) \/ tokens[p] \in raced
    /\ \A w \in Work : work[w].phase = "store" =>
            (work[w].dek = record /\ record # 0) \/ work[w].dek \in raced
    /\ \A w \in Work : work[w].phase = "enroll" => record = 0 \/ record \in raced

\* Work that leaves the vault alone and neither enrols nor stores anew.
LEMMA VaultAlone ==
    ASSUME KeysInv, UNCHANGED <<record, tokens, raced>>,
           \A w \in Work : work'[w] = work[w] \/ work'[w].phase \notin {"enroll", "store"}
    PROVE  KeysInv'
  BY DEF KeysInv

\* A record that is replaced was saved during the enrolment that replaces it.
LEMMA KeysStep == VaultTypeOK /\ KeysInv /\ [BrowserNext]_browserVars => KeysInv'
<1> SUFFICES ASSUME VaultTypeOK, KeysInv, [BrowserNext]_browserVars PROVE KeysInv'
  OBVIOUS
<1>0. /\ record \in Nat /\ deks \in Nat /\ work \in [Work -> BrowserWork] /\ Done.phase = "none"
  BY DEF VaultTypeOK, Done
<1>1. ASSUME NEW t \in Tab, unloads(t), UNCHANGED keys PROVE KeysInv'
  BY <1>0, <1>1, VaultAlone DEF unloads, keys
<1>2. ASSUME NEW w \in Work, NEW t \in Tab, NEW p \in Provider, NEW ph \in {"exchange", "vault"},
             setsOff(w, t, p, ph), UNCHANGED keys
      PROVE  KeysInv'
  <2>1. \A v \in Work : work'[v] = work[v] \/ work'[v].phase \notin {"enroll", "store"}
    BY <1>0, <1>2 DEF setsOff
  <2>2. QED
    BY <1>2, <2>1, VaultAlone DEF keys
<1>3. ASSUME NEW w \in Work, givesUp(w), UNCHANGED keys PROVE KeysInv'
  BY <1>0, <1>3, VaultAlone DEF givesUp, keys
<1>4. ASSUME NEW t \in Tab, NEW p \in Provider, startBrowserFlow(t, p) PROVE KeysInv'
  BY <1>4 DEF startBrowserFlow, keys, KeysInv
<1>5. ASSUME NEW t \in Tab, NEW p \in Provider, NEW w \in Work, completePending(t, p, w) PROVE KeysInv'
  BY <1>2, <1>5 DEF completePending
<1>6. ASSUME NEW t \in Tab, relayAndRedirect(t) \/ comeBack(t) PROVE KeysInv'
  BY <1>1, <1>6 DEF relayAndRedirect, comeBack
<1>7. ASSUME NEW t \in Tab, completeNone(t) PROVE KeysInv'
  BY <1>7 DEF completeNone, keys, KeysInv
<1>8. ASSUME NEW t \in Tab, NEW w \in Work, submitGithubPat(t, w) PROVE KeysInv'
  BY <1>2, <1>8, BrowserAssumption DEF submitGithubPat
<1>9. ASSUME NEW w \in Work, completeBrowserFlow(w) PROVE KeysInv'
  <2>1. CASE moves(w, "vault")
    <3>1. \A v \in Work : work'[v] = work[v] \/ work'[v].phase \notin {"enroll", "store"}
      BY <1>0, <2>1 DEF moves, BrowserWork
    <3>2. QED
      BY <1>9, <3>1, VaultAlone DEF completeBrowserFlow, keys
  <2>2. QED
    BY <1>3, <1>9, <2>1 DEF completeBrowserFlow
<1>10. ASSUME NEW w \in Work, ensureVaultDek(w) PROVE KeysInv'
  <2>0. UNCHANGED <<record, tokens, raced>>
    BY <1>10 DEF ensureVaultDek, keys
  <2>1. CASE record # 0 /\ work' = [work EXCEPT ![w].phase = "store", ![w].dek = record]
    <3>1. /\ work'[w].phase = "store" /\ work'[w].dek = record
          /\ \A v \in Work : v # w => work'[v] = work[v]
      BY <1>0, <2>1 DEF BrowserWork
    <3>2. record' = record /\ record' # 0 /\ raced' = raced /\ tokens' = tokens
      BY <2>0, <2>1
    <3>3. \A v \in Work : work'[v].phase = "store" =>
              (work'[v].dek = record' /\ record' # 0) \/ work'[v].dek \in raced'
      BY <3>1, <3>2 DEF KeysInv
    <3>4. \A v \in Work : work'[v].phase = "enroll" => record' = 0 \/ record' \in raced'
      BY <3>1, <3>2 DEF KeysInv
    <3>5. QED
      BY <3>2, <3>3, <3>4 DEF KeysInv
  <2>2. CASE record = 0 /\ moves(w, "enroll")
    <3>1. work'[w].phase = "enroll" /\ \A v \in Work : v # w => work'[v] = work[v]
      BY <1>0, <2>2 DEF moves, BrowserWork
    <3>2. QED
      BY <2>0, <2>2, <3>1 DEF KeysInv
  <2>3. QED
    BY <1>3, <1>10, <2>1, <2>2 DEF ensureVaultDek
<1>11. ASSUME NEW w \in Work, enrollPassphrase(w) PROVE KeysInv'
  <2>1. /\ work[w].phase = "enroll" /\ record' = deks + 1 /\ record' # 0 /\ tokens' = tokens
        /\ work'[w].phase = "store" /\ work'[w].dek = record'
        /\ \A v \in Work : v # w => work'[v] = work[v]
    BY <1>0, <1>11 DEF enrollPassphrase, enrolling, workAt, BrowserWork
  <2>2. /\ raced \subseteq raced'
        /\ \A v \in Work : v # w /\ work[v].phase = "enroll" => record' \in raced'
    BY <1>11, <2>1 DEF enrollPassphrase, enrolling, workAt
  <2>3. record = 0 \/ record \in raced
    BY <2>1 DEF KeysInv
  <2>4. QED
    BY <2>1, <2>2, <2>3 DEF KeysInv
<1>12. ASSUME NEW w \in Work, setToken(w) PROVE KeysInv'
  <2>1. /\ work[w].phase = "store" /\ record' = record /\ raced' = raced
        /\ tokens' = [tokens EXCEPT ![work[w].provider] = work[w].dek]
        /\ \A v \in Work : work'[v] = work[v] \/ work'[v].phase \notin {"enroll", "store"}
    BY <1>0, <1>12 DEF setToken, workAt
  <2>2. \A p \in Provider : tokens'[p] \in {work[w].dek, tokens[p]}
    BY <2>1 DEF VaultTypeOK
  <2>3. QED
    BY <2>1, <2>2 DEF KeysInv
<1>13. CASE UNCHANGED browserVars
  BY <1>13 DEF browserVars, KeysInv
<1>14. QED
  BY <1>4, <1>5, <1>6, <1>7, <1>8, <1>9, <1>10, <1>11, <1>12, <1>13 DEF BrowserNext

\* A code goes to the token endpoint of the provider that issued it and to no
\* other, whatever flows a tab has begun and dropped (completePending,
\* oauth-browser.mjs).
THEOREM CodesGoHome == BrowserSpec => [](\A s \in spent : s.of = s.to)
<1>1. CodesInv => \A s \in spent : s.of = s.to
  BY DEF CodesInv
<1>2. QED
  BY <1>1, BrowserStart, VaultStep, CodesStep, PTL DEF BrowserSpec

\* Every stored token opens with the key of the saved record, unless another
\* enrolment was under way as its key was saved, whatever connections of one or
\* several tabs wait for the key derivation at once (ensureVaultDek, connect.mjs).
THEOREM StoredOpen == BrowserSpec => []StoredTokensOpen
<1>1. CodesInv /\ KeysInv => StoredTokensOpen
  BY DEF CodesInv, KeysInv, StoredTokensOpen
<1>2. BrowserInit => KeysInv
  BY DEF BrowserInit, KeysInv, Done
<1>3. QED
  BY <1>1, <1>2, BrowserStart, VaultStep, CodesStep, KeysStep, PTL DEF BrowserSpec
-----------------------------------------------------------------------------
(* The queue of markers. A filter keeps what it should: the positions that *)
(* are kept are numbered without gaps by how many of them come no later.   *)

\* Those of S up to i, and the elements of a sequence.
UpToPosition(S, i) == {j \in S : j <= i}
Elements(s) == {s[i] : i \in DOMAIN s}

\* Every number from 1 to the size of S is the rank of one of its elements, and of one only.
LEMMA RanksAreExact ==
    ASSUME NEW n \in Nat, NEW S, S \subseteq 1..n
    PROVE  /\ IsFiniteSet(S) /\ Cardinality(S) \in Nat
           /\ \A i \in S : Cardinality(UpToPosition(S, i)) \in 1..Cardinality(S)
           /\ \A k \in 1..Cardinality(S) : \E i \in S : Cardinality(UpToPosition(S, i)) = k
           /\ \A i, j \in S : Cardinality(UpToPosition(S, i)) = Cardinality(UpToPosition(S, j)) => i = j
<1>1. IsFiniteSet(1..n)
  BY FS_Interval
<1>2. IsFiniteSet(S) /\ Cardinality(S) \in Nat
  BY <1>1, FS_Subset, FS_CardinalityType
<1>3. ASSUME NEW i \in S
      PROVE  /\ UpToPosition(S, i) \subseteq S /\ i \in UpToPosition(S, i)
             /\ IsFiniteSet(UpToPosition(S, i)) /\ Cardinality(UpToPosition(S, i)) \in 1..Cardinality(S)
  <2>1. UpToPosition(S, i) \subseteq S /\ i \in UpToPosition(S, i) /\ {i} \subseteq UpToPosition(S, i)
    BY DEF UpToPosition
  <2>2. /\ IsFiniteSet(UpToPosition(S, i)) /\ Cardinality(UpToPosition(S, i)) \in Nat
        /\ Cardinality(UpToPosition(S, i)) <= Cardinality(S)
    BY <1>2, <2>1, FS_Subset, FS_CardinalityType
  <2>3. Cardinality({i}) = 1 /\ Cardinality({i}) <= Cardinality(UpToPosition(S, i))
    BY <2>1, <2>2, FS_Subset, FS_Singleton
  <2>4. QED
    BY <1>2, <2>1, <2>2, <2>3
<1>4. ASSUME NEW i \in S, NEW j \in S, i < j
      PROVE  Cardinality(UpToPosition(S, i)) # Cardinality(UpToPosition(S, j))
  <2>0. S \subseteq Nat /\ i < j
    BY <1>4
  <2>1. UpToPosition(S, i) \subseteq UpToPosition(S, j) /\ j \notin UpToPosition(S, i)
    <3>1. \A m \in S : m <= i => m <= j
      BY <2>0
    <3>2. ~(j <= i)
      BY <2>0
    <3>3. QED
      BY <3>1, <3>2 DEF UpToPosition
  <2>2. j \in UpToPosition(S, j) /\ UpToPosition(S, i) # UpToPosition(S, j)
    BY <1>3, <2>1
  <2>3. QED
    BY <1>3, <2>1, <2>2, FS_Subset
<1>5. \A i, j \in S : Cardinality(UpToPosition(S, i)) = Cardinality(UpToPosition(S, j)) => i = j
  BY <1>4
<1> DEFINE rank == [i \in S |-> Cardinality(UpToPosition(S, i))]
           T == 1..Cardinality(S)
<1>6. rank \in [S -> T]
  BY <1>3
<1>7. rank \in Injection(S, T)
  BY <1>5, <1>6 DEF Injection, IsInjective
<1>8. IsFiniteSet(T) /\ Cardinality(T) = Cardinality(S)
  BY <1>2, FS_Interval
<1> HIDE DEF T
<1>9. rank \in Surjection(S, T)
  BY <1>7, <1>8, FS_Injection
<1>10. \A k \in T : \E i \in S : Cardinality(UpToPosition(S, i)) = k
  BY <1>9 DEF Surjection
<1>11. QED
  BY <1>2, <1>3, <1>5, <1>10 DEF T

\* What is filtered are the elements at the positions that are kept.
LEMMA FilteredKeeps ==
    ASSUME NEW X, NEW s \in Seq(X), NEW kept, kept \subseteq DOMAIN s
    PROVE  /\ Filtered(s, kept) \in Seq(X)
           /\ Elements(Filtered(s, kept)) = {s[i] : i \in kept}
<1> DEFINE K == Cardinality(kept)
           place(k) == CHOOSE i \in kept : Cardinality({j \in kept : j <= i}) = k
           f == Filtered(s, kept)
<1>1. Len(s) \in Nat /\ kept \subseteq 1..Len(s)
  OBVIOUS
<1>2. /\ K \in Nat
      /\ \A i \in kept : Cardinality(UpToPosition(kept, i)) \in 1..K
      /\ \A k \in 1..K : \E i \in kept : Cardinality(UpToPosition(kept, i)) = k
      /\ \A i, j \in kept : Cardinality(UpToPosition(kept, i)) = Cardinality(UpToPosition(kept, j)) => i = j
  BY <1>1, RanksAreExact
<1>3. \A k \in 1..K : place(k) \in kept /\ Cardinality(UpToPosition(kept, place(k))) = k
  BY <1>2 DEF UpToPosition
<1>4. f = [k \in 1..K |-> s[place(k)]]
  BY DEF Filtered
<1> HIDE DEF place, f, K
<1>5. \A k \in 1..K : s[place(k)] \in X
  BY <1>1, <1>3
<1>6. f \in Seq(X) /\ DOMAIN f = 1..K
  BY <1>2, <1>4, <1>5
<1>7. ASSUME NEW i \in kept PROVE s[i] \in Elements(f)
  <2>1. PICK k \in 1..K : k = Cardinality(UpToPosition(kept, i))
    BY <1>2
  <2>2. place(k) = i
    BY <1>2, <1>3, <2>1
  <2>3. f[k] = s[i] /\ k \in DOMAIN f
    BY <1>4, <1>6, <2>2
  <2>4. QED
    BY <2>3 DEF Elements
<1>8. ASSUME NEW k \in DOMAIN f PROVE f[k] \in {s[i] : i \in kept}
  BY <1>3, <1>4, <1>6
<1>9. Elements(f) = {s[i] : i \in kept}
  BY <1>7, <1>8 DEF Elements
<1>10. QED
  BY <1>6, <1>9 DEF f

\* The markers of a sequence by checkpoint_seq and digest, whatever their ages.
Markers(s) == {<<s[i].seq, s[i].digest>> : i \in DOMAIN s}

\* Taking a checkpoint_seq out takes out every marker that has it, and no other.
LEMMA NamesWithout ==
    ASSUME NEW q \in Seq(Marker), NEW n \in Nat
    PROVE  Without(q, n) \in Seq(Marker) /\ Markers(Without(q, n)) = {a \in Markers(q) : a[1] # n}
<1> DEFINE kept == {i \in DOMAIN q : q[i].seq # n}
           r == Without(q, n)
<1>1. r \in Seq(Marker) /\ Elements(r) = {q[i] : i \in kept}
  BY FilteredKeeps DEF Without
<1> HIDE DEF r
<1>2. Markers(r) = {<<m.seq, m.digest>> : m \in Elements(r)}
  BY DEF Markers, Elements
<1>3. Markers(r) = {<<q[i].seq, q[i].digest>> : i \in kept}
  BY <1>1, <1>2
<1>4. QED
  BY <1>1, <1>3 DEF Markers, r

\* One more marker at the end.
LEMMA NamesAppend ==
    ASSUME NEW q \in Seq(Marker), NEW m \in Marker
    PROVE  Append(q, m) \in Seq(Marker) /\ Markers(Append(q, m)) = Markers(q) \union {<<m.seq, m.digest>>}
<1> DEFINE r == Append(q, m)
<1>1. /\ r \in Seq(Marker) /\ Len(r) = Len(q) + 1 /\ r[Len(q) + 1] = m
      /\ \A i \in 1..Len(q) : r[i] = q[i]
  BY AppendProperties
<1>2. DOMAIN q = 1..Len(q) /\ DOMAIN r = 1..(Len(q) + 1) /\ Len(q) \in Nat
  BY <1>1
<1> HIDE DEF r
<1>3. DOMAIN r = DOMAIN q \union {Len(q) + 1}
  BY <1>2
<1>4. QED
  BY <1>1, <1>2, <1>3 DEF Markers, r

\* The first marker is taken off.
LEMMA NamesTail ==
    ASSUME NEW t \in Seq(Marker), t # <<>>
    PROVE  /\ Head(t) \in Marker /\ <<Head(t).seq, Head(t).digest>> \in Markers(t)
           /\ Tail(t) \in Seq(Marker) /\ Markers(Tail(t)) \subseteq Markers(t)
<1>1. Len(t) \in Nat \ {0} /\ DOMAIN t = 1..Len(t)
  BY EmptySeq
<1>2. /\ Head(t) \in Marker /\ Head(t) = t[1] /\ Tail(t) \in Seq(Marker) /\ Len(Tail(t)) = Len(t) - 1
      /\ \A i \in 1..(Len(t) - 1) : Tail(t)[i] = t[i + 1]
  BY HeadTailProperties
<1>3. 1 \in DOMAIN t
  BY <1>1
<1>4. \A i \in DOMAIN Tail(t) : i + 1 \in DOMAIN t /\ Tail(t)[i] = t[i + 1]
  BY <1>1, <1>2
<1>5. QED
  BY <1>2, <1>3, <1>4 DEF Markers

\* Markers grow older and are the same markers.
LEMMA NamesAged ==
    ASSUME NEW q \in Seq(Marker)
    PROVE  aged(q) \in Seq(Marker) /\ Markers(aged(q)) = Markers(q)
           /\ (aged(q) = <<>> <=> q = <<>>)
<1> DEFINE r == aged(q)
<1>0. r = [i \in DOMAIN q |-> [q[i] EXCEPT !.age = older(@, Interval)]]
  BY DEF aged
<1> HIDE DEF r
<1>1. Len(q) \in Nat /\ DOMAIN q = 1..Len(q) /\ \A i \in DOMAIN q : q[i] \in Marker
  OBVIOUS
<1>2. ASSUME NEW m \in Marker
      PROVE  /\ [m EXCEPT !.age = older(@, Interval)] \in Marker
             /\ [m EXCEPT !.age = older(@, Interval)].seq = m.seq
             /\ [m EXCEPT !.age = older(@, Interval)].digest = m.digest
  <2>1. Interval \in Nat /\ m.age \in 0..Interval
    BY AnchorAssumption DEF Marker
  <2>2. older(m.age, Interval) \in 0..Interval
    BY <2>1 DEF older
  <2>3. QED
    BY <2>2 DEF Marker
<1>3. DOMAIN r = DOMAIN q /\ \A i \in DOMAIN q : r[i] \in Marker /\ r[i].seq = q[i].seq /\ r[i].digest = q[i].digest
  BY <1>0, <1>1, <1>2
<1>4. r \in Seq(Marker)
  BY <1>0, <1>1, <1>3
<1>5. Markers(r) = Markers(q)
  BY <1>3 DEF Markers
<1>6. Len(r) = Len(q)
  BY <1>1, <1>0, LenProperties
<1>7. r = <<>> <=> q = <<>>
  BY <1>4, <1>6, EmptySeq
<1>8. QED
  BY <1>4, <1>5, <1>7 DEF r
-----------------------------------------------------------------------------
(* What is queued is not forgotten: the markers a pass still has to look   *)
(* at are the markers of the queue, so that a digest is taken out only     *)
(* when it is the one that was stamped.                                    *)

PassRecord == [phase : {"off", "next", "wait", "asked", "own", "saving"},
               todo : Seq(Marker), since : 0..Interval, root : Nat]
SavedRecord == [type : {"rfc3161", "queued", "skipped"}, digest : Nat]

QueueTyped == /\ queue \in Seq(Marker) /\ saved \in Seq(SavedRecord) /\ pass \in PassRecord
              /\ head \in Nat

\* A checkpoint_seq has one digest in both.
Agree(A, B) == \A a \in A, b \in B : a[1] = b[1] => a[2] = b[2]

\* What is saved as "queued" was stamped, or is among the names.
Kept(names, sv, st) ==
    \A c \in DOMAIN sv : sv[c].type = "queued" => sv[c].digest \in st \/ <<c, sv[c].digest>> \in names

QueueInv ==
    /\ Agree(Markers(queue), Markers(queue)) /\ Agree(Markers(pass.todo), Markers(queue))
    /\ Agree(Markers(pass.todo), Markers(pass.todo))
    /\ pass.phase \in {"wait", "asked"} => pass.todo # <<>>
    /\ pass.phase \in {"own", "saving"} => pass.todo = <<>>
    /\ pass.phase = "saving" => <<nextSeq, pass.root>> \in Markers(queue)
    /\ Kept(Markers(queue), saved, stamped)

\* The markers stay, whatever the pass does next.
LEMMA QueueStays ==
    ASSUME QueueInv, Markers(queue') = Markers(queue), UNCHANGED <<saved, stamped>>,
           Markers(pass'.todo) \subseteq Markers(pass.todo),
           pass'.phase \in {"wait", "asked"} => pass'.todo # <<>>,
           pass'.phase \in {"own", "saving"} => pass'.todo = <<>>,
           pass'.phase = "saving" => pass.phase = "saving" /\ pass'.root = pass.root
    PROVE  QueueInv'
  BY DEF QueueInv, Agree, Kept, nextSeq

\* The marker that was retried: its name, and what the queue and the pass make of it.
LEMMA FirstTodo ==
    ASSUME QueueTyped, QueueInv, pass.phase \in {"wait", "asked"}
    PROVE  /\ pass.todo \in Seq(Marker) /\ firstTodo \in Marker /\ Tail(pass.todo) \in Seq(Marker)
           /\ <<firstTodo.seq, firstTodo.digest>> \in Markers(pass.todo)
           /\ Markers(Tail(pass.todo)) \subseteq Markers(pass.todo)
<1>1. pass.todo \in Seq(Marker) /\ pass.todo # <<>>
  BY DEF QueueTyped, PassRecord, QueueInv
<1>2. QED
  BY <1>1, NamesTail DEF firstTodo

\* A timestamp for it: its checkpoint_seq is taken out, its digest is stamped.
LEMMA SucceedsKeeps ==
    ASSUME QueueTyped, QueueInv, RetrySucceeds PROVE QueueTyped' /\ QueueInv'
<1> DEFINE n == firstTodo.seq
           d == firstTodo.digest
           Q == Markers(queue)
           T == Markers(pass.todo)
<1>1. /\ pass.phase = "asked" /\ queue' = Without(queue, n) /\ stamped' = stamped \union {d}
      /\ pass' = [pass EXCEPT !.phase = "next", !.todo = Tail(@)] /\ UNCHANGED <<saved, head>>
  BY Zenon DEF RetrySucceeds, resolveAnchorRetry
<1>2. /\ firstTodo \in Marker /\ Tail(pass.todo) \in Seq(Marker) /\ <<n, d>> \in T
      /\ Markers(Tail(pass.todo)) \subseteq T
  BY <1>1, FirstTodo
<1>3. queue' \in Seq(Marker) /\ Markers(queue') = {a \in Q : a[1] # n}
  BY <1>1, <1>2, NamesWithout DEF QueueTyped, Marker
<1>4. pass' \in PassRecord /\ pass'.phase = "next" /\ pass'.todo = Tail(pass.todo)
  BY <1>1, <1>2 DEF QueueTyped, PassRecord
<1>5. QueueTyped'
  BY <1>1, <1>3, <1>4 DEF QueueTyped
<1>6. Agree(Q, Q) /\ Agree(T, Q) /\ Agree(T, T) /\ Kept(Q, saved, stamped)
  BY DEF QueueInv
<1> HIDE DEF n, d, Q, T
<1>7. Agree(Markers(queue'), Markers(queue')) /\ Agree(Markers(pass'.todo), Markers(queue'))
      /\ Agree(Markers(pass'.todo), Markers(pass'.todo))
  BY <1>2, <1>3, <1>4, <1>6 DEF Agree
<1>8. Kept(Markers(queue'), saved', stamped')
  <2> SUFFICES ASSUME NEW c \in DOMAIN saved, saved[c].type = "queued", saved[c].digest \notin stamped'
               PROVE  <<c, saved[c].digest>> \in Markers(queue')
    BY <1>1 DEF Kept
  <2>1. <<c, saved[c].digest>> \in Q /\ saved[c].digest # d
    BY <1>1, <1>6 DEF Kept
  <2>2. c # n
    BY <1>2, <1>6, <2>1 DEF Agree
  <2>3. QED
    BY <1>3, <2>1, <2>2
<1>9. QED
  BY <1>4, <1>5, <1>7, <1>8 DEF QueueInv

\* A failure: it goes to the end of the queue, with another attempt to its name.
LEMMA FailsKeeps ==
    ASSUME QueueTyped, QueueInv, RetryFails PROVE QueueTyped' /\ QueueInv'
<1> DEFINE n == firstTodo.seq
           d == firstTodo.digest
           Q == Markers(queue)
           T == Markers(pass.todo)
           m == [firstTodo EXCEPT !.age = pass.since]
<1>1. /\ pass.phase = "asked" /\ queue' = Append(Without(queue, n), m)
      /\ pass' = [pass EXCEPT !.phase = "next", !.todo = Tail(@)] /\ UNCHANGED <<saved, head, stamped>>
  BY Zenon DEF RetryFails, requeueAnchorRetry
<1>2. /\ firstTodo \in Marker /\ Tail(pass.todo) \in Seq(Marker) /\ <<n, d>> \in T
      /\ Markers(Tail(pass.todo)) \subseteq T
  BY <1>1, FirstTodo
<1>3. m \in Marker /\ m.seq = n /\ m.digest = d
  BY <1>2 DEF QueueTyped, PassRecord, Marker
<1> HIDE DEF m
<1>4. queue' \in Seq(Marker) /\ Markers(queue') = {a \in Q : a[1] # n} \union {<<n, d>>}
  <2>1. /\ Without(queue, n) \in Seq(Marker) /\ Markers(Without(queue, n)) = {a \in Q : a[1] # n}
    BY <1>2, NamesWithout DEF QueueTyped, Marker
  <2>2. QED
    BY <1>1, <1>3, <2>1, NamesAppend
<1>5. pass' \in PassRecord /\ pass'.phase = "next" /\ pass'.todo = Tail(pass.todo)
  BY <1>1, <1>2 DEF QueueTyped, PassRecord
<1>6. QueueTyped'
  BY <1>1, <1>4, <1>5 DEF QueueTyped
<1>7. Agree(Q, Q) /\ Agree(T, Q) /\ Agree(T, T) /\ Kept(Q, saved, stamped)
  BY DEF QueueInv
<1> HIDE DEF n, d, Q, T
<1>8. Agree(Markers(queue'), Markers(queue')) /\ Agree(Markers(pass'.todo), Markers(queue'))
      /\ Agree(Markers(pass'.todo), Markers(pass'.todo))
  BY <1>2, <1>4, <1>5, <1>7 DEF Agree
<1>9. Kept(Markers(queue'), saved', stamped')
  <2> SUFFICES ASSUME NEW c \in DOMAIN saved, saved[c].type = "queued", saved[c].digest \notin stamped
               PROVE  <<c, saved[c].digest>> \in Markers(queue')
    BY <1>1 DEF Kept
  <2>1. <<c, saved[c].digest>> \in Q
    BY <1>7 DEF Kept
  <2>2. c = n => saved[c].digest = d
    BY <1>2, <1>7, <2>1 DEF Agree
  <2>3. QED
    BY <1>4, <2>1, <2>2
<1>10. QED
  BY <1>5, <1>6, <1>8, <1>9 DEF QueueInv

\* The start's own checkpoint is queued under the next checkpoint_seq, which nothing saved has.
LEMMA OwnFailsKeeps ==
    ASSUME QueueTyped, QueueInv, OwnFails PROVE QueueTyped' /\ QueueInv'
<1> DEFINE n == nextSeq
           d == pass.root
           Q == Markers(queue)
           m == [seq |-> n, digest |-> d, age |-> pass.since]
<1>1. /\ pass.phase = "own" /\ queue' = Append(Without(queue, m.seq), m)
      /\ pass' = [pass EXCEPT !.phase = "saving"] /\ UNCHANGED <<saved, head, stamped>>
  BY Zenon DEF OwnFails, enqueueAnchorRetry
<1>2. n \in Nat \ {0} /\ n \notin DOMAIN saved
  BY DEF QueueTyped, nextSeq
<1>3. m \in Marker /\ m.seq = n /\ m.digest = d
  BY <1>2 DEF QueueTyped, PassRecord, Marker
<1> HIDE DEF m
<1>4. queue' \in Seq(Marker) /\ Markers(queue') = {a \in Q : a[1] # n} \union {<<n, d>>}
  <2>1. /\ Without(queue, n) \in Seq(Marker) /\ Markers(Without(queue, n)) = {a \in Q : a[1] # n}
    BY <1>2, NamesWithout DEF QueueTyped
  <2>2. QED
    BY <1>1, <1>3, <2>1, NamesAppend
<1>5. /\ pass' \in PassRecord /\ pass'.phase = "saving" /\ pass'.todo = pass.todo /\ pass'.root = d
      /\ pass.todo = <<>>
  BY <1>1 DEF QueueTyped, PassRecord, QueueInv
<1>6. QueueTyped'
  BY <1>1, <1>4, <1>5 DEF QueueTyped
<1>7. nextSeq' = n
  BY <1>1 DEF nextSeq
<1>8. Markers(pass'.todo) = {}
  BY <1>5 DEF Markers
<1>9. Agree(Q, Q) /\ Kept(Q, saved, stamped)
  BY DEF QueueInv
<1> HIDE DEF n, d, Q
<1>10. Agree(Markers(queue'), Markers(queue')) /\ Agree(Markers(pass'.todo), Markers(queue'))
       /\ Agree(Markers(pass'.todo), Markers(pass'.todo))
  BY <1>4, <1>8, <1>9 DEF Agree
<1>11. Kept(Markers(queue'), saved', stamped')
  BY <1>1, <1>2, <1>4, <1>9 DEF Kept
<1>12. QED
  BY <1>4, <1>5, <1>6, <1>7, <1>10, <1>11 DEF QueueInv

\* The checkpoint is saved, as what became of its timestamp.
LEMMA SavesKeeps ==
    ASSUME QueueTyped, QueueInv, UNCHANGED <<queue, stamped, head>>, NEW r \in SavedRecord,
           saved' = Append(saved, r), r.type = "queued" => <<nextSeq, r.digest>> \in Markers(queue),
           pass' \in PassRecord, pass'.phase = "off", Markers(pass'.todo) = {}
    PROVE  QueueTyped' /\ QueueInv'
<1>1. /\ saved' \in Seq(SavedRecord) /\ DOMAIN saved' = DOMAIN saved \union {nextSeq}
      /\ saved'[nextSeq] = r /\ \A c \in DOMAIN saved : saved'[c] = saved[c] /\ c # nextSeq
  <2>1. /\ saved \in Seq(SavedRecord) /\ Append(saved, r) \in Seq(SavedRecord)
        /\ Len(Append(saved, r)) = Len(saved) + 1 /\ Append(saved, r)[Len(saved) + 1] = r
        /\ \A c \in 1..Len(saved) : Append(saved, r)[c] = saved[c]
    BY AppendProperties DEF QueueTyped
  <2>2. DOMAIN saved = 1..Len(saved) /\ Len(saved) \in Nat /\ DOMAIN saved' = 1..(Len(saved) + 1)
    BY <2>1
  <2>3. DOMAIN saved' = DOMAIN saved \union {Len(saved) + 1}
    BY <2>2
  <2>4. \A c \in DOMAIN saved : c # Len(saved) + 1
    BY <2>2
  <2>5. QED
    BY <2>1, <2>2, <2>3, <2>4 DEF nextSeq
<1>2. QueueTyped'
  BY <1>1 DEF QueueTyped
<1>3. Kept(Markers(queue'), saved', stamped')
  BY <1>1 DEF QueueInv, Kept
<1>4. Agree(Markers(queue'), Markers(queue')) /\ Agree(Markers(pass'.todo), Markers(queue'))
      /\ Agree(Markers(pass'.todo), Markers(pass'.todo))
  BY DEF QueueInv, Agree
<1>5. QED
  BY <1>2, <1>3, <1>4 DEF QueueInv

\* A pass that is over has nothing to look at.
LEMMA NoPassEmpty == NoPass \in PassRecord /\ NoPass.phase = "off" /\ Markers(NoPass.todo) = {}
<1>1. Interval \in Nat
  BY AnchorAssumption
<1>2. NoPass \in PassRecord
  BY <1>1 DEF NoPass, PassRecord
<1>3. QED
  BY <1>2 DEF NoPass, Markers

\* A start looks at the queue as it is, or at nothing.
LEMMA StartKeeps ==
    ASSUME QueueTyped, QueueInv, NEW offline \in BOOLEAN, StartPass(offline)
    PROVE  QueueTyped' /\ QueueInv'
<1>1. CASE head > 0 /\ offline
  <2>1. /\ saved' = Append(saved, [type |-> "skipped", digest |-> head]) /\ pass' = NoPass
        /\ UNCHANGED <<queue, stamped, head>>
    BY Zenon, <1>1 DEF StartPass
  <2>2. [type |-> "skipped", digest |-> head] \in SavedRecord
    BY DEF QueueTyped, SavedRecord
  <2>3. QED
    BY <2>1, <2>2, SavesKeeps, NoPassEmpty
<1>2. CASE ~(head > 0 /\ offline)
  <2>1. UNCHANGED <<queue, saved, stamped, head>>
    BY Zenon, <1>2 DEF StartPass
  <2>2. \/ pass' = NoPass
        \/ pass' = [phase |-> "next", todo |-> queue, since |-> Interval, root |-> head]
    BY Zenon DEF StartPass
  <2>3. /\ pass' \in PassRecord /\ pass'.phase \in {"off", "next"}
        /\ Markers(pass'.todo) = {} \/ pass'.todo = queue
    BY <2>2, NoPassEmpty, AnchorAssumption DEF QueueTyped, PassRecord
  <2>4. Markers(pass'.todo) \subseteq Markers(queue)
    BY <2>3
  <2>5. Agree(Markers(queue), Markers(queue)) /\ Kept(Markers(queue), saved, stamped)
    BY DEF QueueInv
  <2>6. Agree(Markers(pass'.todo), Markers(queue)) /\ Agree(Markers(pass'.todo), Markers(pass'.todo))
    BY <2>4, <2>5 DEF Agree
  <2>7. QueueTyped' /\ Markers(queue') = Markers(queue) /\ saved' = saved /\ stamped' = stamped
    BY <2>1, <2>3 DEF QueueTyped
  <2>8. QED
    BY <2>3, <2>5, <2>6, <2>7 DEF QueueInv
<1>3. QED
  BY <1>1, <1>2

\* A step of a pass that leaves the queue and what is saved alone.
LEMMA PassMoves ==
    ASSUME QueueTyped, QueueInv, \/ Serve \/ StopDaemon \/ SkipEntry \/ TakeEntry \/ AskRetry \/ AskOwn
    PROVE  QueueTyped' /\ QueueInv'
<1>1. UNCHANGED <<queue, saved, stamped>> /\ head' \in Nat
  BY DEF QueueTyped, Serve, StopDaemon, SkipEntry, TakeEntry, AskRetry, AskOwn
<1>2. pass \in PassRecord /\ Interval \in Nat /\ 0 \in 0..Interval
  BY AnchorAssumption DEF QueueTyped
<1>3. /\ pass' \in PassRecord /\ Markers(pass'.todo) \subseteq Markers(pass.todo)
      /\ pass'.phase \in {"wait", "asked"} => pass'.todo # <<>>
      /\ pass'.phase \in {"own", "saving"} => pass'.todo = <<>>
      /\ pass'.phase = "saving" => pass.phase = "saving" /\ pass'.root = pass.root
  <2>1. CASE UNCHANGED pass
    BY <1>2, <2>1 DEF QueueInv
  <2>2. CASE StopDaemon
    BY <2>2, NoPassEmpty DEF StopDaemon
  <2>3. CASE SkipEntry
    <3>1. pass' = [pass EXCEPT !.todo = Tail(@)] /\ pass.phase = "next" /\ pass.todo # <<>>
      BY <2>3 DEF SkipEntry
    <3>2. Tail(pass.todo) \in Seq(Marker) /\ Markers(Tail(pass.todo)) \subseteq Markers(pass.todo)
      BY <1>2, <3>1, NamesTail DEF PassRecord
    <3>3. QED
      BY <1>2, <3>1, <3>2 DEF PassRecord
  <2>4. CASE TakeEntry
    BY <1>2, <2>4 DEF TakeEntry, PassRecord
  <2>5. CASE AskRetry
    <3>1. pass' = [pass EXCEPT !.phase = "asked", !.since = 0] /\ pass.todo # <<>>
      BY <2>5 DEF AskRetry, QueueInv
    <3>2. QED
      BY <1>2, <3>1 DEF PassRecord
  <2>6. CASE AskOwn
    <3>1. pass' = [pass EXCEPT !.phase = "own", !.since = 0] /\ pass.todo = <<>>
      BY <2>6 DEF AskOwn
    <3>2. QED
      BY <1>2, <3>1 DEF PassRecord
  <2>7. QED
    BY <2>1, <2>2, <2>3, <2>4, <2>5, <2>6 DEF Serve
<1>4. QED
  BY <1>1, <1>3, QueueStays DEF QueueTyped

\* Time passes.
LEMMA TickKeeps == ASSUME QueueTyped, QueueInv, Tick PROVE QueueTyped' /\ QueueInv'
<1> DEFINE t == aged(pass.todo)
           a == older(pass.since, Interval)
<1>1. /\ queue' = aged(queue)
      /\ pass' = [pass EXCEPT !.since = a, !.todo = t] /\ UNCHANGED <<saved, head, stamped>>
  BY Zenon DEF Tick
<1>2. pass \in PassRecord /\ pass.todo \in Seq(Marker) /\ pass.since \in 0..Interval /\ Interval \in Nat
  BY AnchorAssumption DEF QueueTyped, PassRecord
<1>3. t \in Seq(Marker) /\ Markers(t) = Markers(pass.todo)
  BY <1>2, NamesAged
<1>4. queue' \in Seq(Marker) /\ Markers(queue') = Markers(queue)
  BY <1>1, NamesAged DEF QueueTyped
<1>5. t = <<>> <=> pass.todo = <<>>
  BY <1>2, NamesAged
<1>6. a \in 0..Interval
  BY <1>2 DEF older
<1> HIDE DEF t, a
<1>7. /\ pass' \in PassRecord /\ pass'.phase = pass.phase /\ pass'.todo = t /\ pass'.root = pass.root
  BY <1>1, <1>2, <1>3, <1>6 DEF PassRecord
<1>8. /\ pass'.phase \in {"wait", "asked"} => pass'.todo # <<>>
      /\ pass'.phase \in {"own", "saving"} => pass'.todo = <<>>
  BY <1>5, <1>7 DEF QueueInv
<1>9. QED
  BY <1>1, <1>3, <1>4, <1>7, <1>8, QueueStays DEF QueueTyped

\* Every step keeps the markers and what they are for.
LEMMA QueueStep == ASSUME QueueTyped, QueueInv, AnchorNext PROVE QueueTyped' /\ QueueInv'
<1>1. CASE OwnSucceeds
  <2>1. /\ saved' = Append(saved, [type |-> "rfc3161", digest |-> pass.root]) /\ pass' = NoPass
        /\ UNCHANGED <<queue, stamped, head>>
    BY <1>1 DEF OwnSucceeds
  <2>2. [type |-> "rfc3161", digest |-> pass.root] \in SavedRecord
    BY DEF QueueTyped, PassRecord, SavedRecord
  <2>3. QED
    BY <2>1, <2>2, SavesKeeps, NoPassEmpty
<1>2. CASE SaveQueued
  <2>1. /\ saved' = Append(saved, [type |-> "queued", digest |-> pass.root]) /\ pass' = NoPass
        /\ UNCHANGED <<queue, stamped, head>> /\ pass.phase = "saving"
    BY <1>2 DEF SaveQueued
  <2>2. [type |-> "queued", digest |-> pass.root] \in SavedRecord
    BY DEF QueueTyped, PassRecord, SavedRecord
  <2>3. <<nextSeq, pass.root>> \in Markers(queue)
    BY <2>1 DEF QueueInv
  <2>4. QED
    BY <2>1, <2>2, <2>3, SavesKeeps, NoPassEmpty
<1>3. QED
  BY <1>1, <1>2, StartKeeps, PassMoves, TickKeeps, SucceedsKeeps, FailsKeeps, OwnFailsKeeps
     DEF AnchorNext, PassStep
-----------------------------------------------------------------------------
(* No start asks more often than the relay takes requests: its retries are *)
(* an interval apart, and its own request is the last one it makes.        *)

RequestRecord == [start : Nat, of : Nat, age : 0..(Minute - 1)]

Apart(p, q) == p.age + Interval <= q.age \/ q.age + Interval <= p.age

PacedInv ==
    /\ starts \in Nat /\ requests \subseteq RequestRecord
    /\ \A r \in requests : r.start <= starts
    /\ \A p, q \in requests : p.start = q.start /\ p.of # 0 /\ q.of # 0 /\ p # q => Apart(p, q)
    /\ \A p, q \in requests : p.start = q.start /\ p.of = 0 /\ q.of = 0 => p = q
    /\ pass.phase \in {"next", "wait", "asked"} =>
          \A r \in requests : r.start = starts => r.of # 0 /\ r.age >= pass.since

\* The ages of the requests are numbers below a minute.
LEMMA RequestTypes ==
    ASSUME PacedInv
    PROVE  /\ Interval \in Nat \ {0} /\ Minute \in Nat \ {0}
           /\ \A r \in requests : r.age \in Nat /\ r.age < Minute /\ r.start \in Nat /\ r.of \in Nat
<1>1. Interval \in Nat \ {0} /\ Minute \in Nat \ {0}
  BY AnchorAssumption
<1>2. QED
  BY <1>1 DEF PacedInv, RequestRecord

\* A step that asks nothing.
LEMMA AsksNothing ==
    ASSUME QueueTyped, PacedInv, AnchorNext, ~Tick, ~AskRetry, ~AskOwn PROVE PacedInv'
<1>1. CASE \E offline \in BOOLEAN : StartPass(offline)
  <2>1. starts' = starts + 1 /\ requests' = requests
    BY <1>1 DEF StartPass
  <2>2. starts' \in Nat /\ \A r \in requests : r.start <= starts /\ r.start \in Nat
    BY <2>1, RequestTypes DEF PacedInv
  <2>3. \A r \in requests' : r.start <= starts' /\ r.start # starts'
    BY <2>1, <2>2 DEF PacedInv
  <2>4. QED
    BY <2>1, <2>2, <2>3 DEF PacedInv
<1>2. ASSUME ~\E offline \in BOOLEAN : StartPass(offline) PROVE PacedInv'
  <2>1. UNCHANGED <<starts, requests>>
    BY <1>2 DEF AnchorNext, PassStep, Serve, StopDaemon, SkipEntry, TakeEntry, RetrySucceeds, RetryFails,
                OwnSucceeds, OwnFails, SaveQueued
  <2>2. pass'.phase \in {"next", "wait", "asked"} =>
           pass.phase \in {"next", "wait", "asked"} /\ pass'.since = pass.since
    <3>1. pass \in PassRecord
      BY DEF QueueTyped
    <3>2. CASE UNCHANGED pass
      BY <3>2
    <3>3. CASE pass' = NoPass
      BY <3>3 DEF NoPass
    <3>4. CASE SkipEntry \/ TakeEntry
      BY <3>1, <3>4 DEF SkipEntry, TakeEntry, PassRecord
    <3>5. CASE RetrySucceeds \/ RetryFails
      BY <3>1, <3>5 DEF RetrySucceeds, RetryFails, PassRecord
    <3>6. CASE OwnFails
      BY <3>1, <3>6 DEF OwnFails, PassRecord
    <3>7. QED
      BY <1>2, <3>2, <3>3, <3>4, <3>5, <3>6
         DEF AnchorNext, PassStep, Serve, StopDaemon, OwnSucceeds, SaveQueued
  <2>3. QED
    BY <2>1, <2>2 DEF PacedInv
<1>3. QED
  BY <1>1, <1>2

\* A retry is asked for: an interval has passed since the one before.
LEMMA RetryPaced == ASSUME QueueTyped, QueueInv, PacedInv, AskRetry PROVE PacedInv'
<1> DEFINE new == [start |-> starts, of |-> firstTodo.seq, age |-> 0]
<1>1. /\ pass.phase = "wait" /\ pass.since >= Interval /\ starts' = starts
      /\ requests' = requests \union {new} /\ pass' = [pass EXCEPT !.phase = "asked", !.since = 0]
  BY DEF AskRetry, AskRelay
<1>2. firstTodo.seq \in Nat \ {0}
  BY <1>1, FirstTodo DEF Marker
<1>3. starts \in Nat /\ Interval \in Nat \ {0} /\ Minute \in Nat \ {0}
      /\ \A r \in requests : r.age \in Nat /\ r.age < Minute /\ r.start \in Nat /\ r.of \in Nat
  BY RequestTypes DEF PacedInv
<1>4. new \in RequestRecord /\ new.start = starts /\ new.of \in Nat \ {0} /\ new.age = 0
  BY <1>2, <1>3 DEF RequestRecord
<1>5. pass.since \in Nat
  BY <1>3 DEF QueueTyped, PassRecord
<1>6. \A r \in requests : r.start = starts => r.of # 0 /\ r.age >= Interval
  BY <1>1, <1>3, <1>5 DEF PacedInv
<1> HIDE DEF new
<1>7. requests' \subseteq RequestRecord /\ \A r \in requests' : r.start <= starts'
  BY <1>1, <1>3, <1>4 DEF PacedInv
<1>8. ASSUME NEW p \in requests', NEW q \in requests', p.start = q.start, p.of # 0, q.of # 0, p # q
      PROVE  Apart(p, q)
  <2>1. CASE p \in requests /\ q \in requests
    BY <1>8, <2>1 DEF PacedInv
  <2>2. CASE p = new
    <3>1. q \in requests /\ q.start = starts
      BY <1>1, <1>4, <1>8, <2>2
    <3>2. QED
      BY <1>3, <1>4, <1>6, <2>2, <3>1 DEF Apart
  <2>3. CASE q = new
    <3>1. p \in requests /\ p.start = starts
      BY <1>1, <1>4, <1>8, <2>3
    <3>2. QED
      BY <1>3, <1>4, <1>6, <2>3, <3>1 DEF Apart
  <2>4. QED
    BY <1>1, <2>1, <2>2, <2>3
<1>9. \A p, q \in requests' : p.start = q.start /\ p.of = 0 /\ q.of = 0 => p = q
  BY <1>1, <1>4 DEF PacedInv
<1>10. pass'.since = 0
  BY <1>1 DEF QueueTyped, PassRecord
<1>11. \A r \in requests' : r.start = starts' => r.of # 0 /\ r.age >= pass'.since
  BY <1>1, <1>3, <1>4, <1>6, <1>10
<1>12. QED
  BY <1>1, <1>3, <1>7, <1>8, <1>9, <1>11 DEF PacedInv

\* The start's own request: it has made none before, and makes no retry after it.
LEMMA OwnPaced == ASSUME QueueTyped, PacedInv, AskOwn PROVE PacedInv'
<1> DEFINE new == [start |-> starts, of |-> 0, age |-> 0]
<1>1. /\ pass.phase = "next" /\ starts' = starts
      /\ requests' = requests \union {new} /\ pass' = [pass EXCEPT !.phase = "own", !.since = 0]
  BY DEF AskOwn, AskRelay
<1>2. starts \in Nat /\ Interval \in Nat \ {0} /\ Minute \in Nat \ {0}
  BY RequestTypes DEF PacedInv
<1>3. new \in RequestRecord /\ new.start = starts /\ new.of = 0
  BY <1>2 DEF RequestRecord
<1>4. \A r \in requests : r.start = starts => r.of # 0
  BY <1>1 DEF PacedInv
<1> HIDE DEF new
<1>5. requests' \subseteq RequestRecord /\ \A r \in requests' : r.start <= starts'
  BY <1>1, <1>2, <1>3 DEF PacedInv
<1>6. \A p, q \in requests' : p.start = q.start /\ p.of # 0 /\ q.of # 0 /\ p # q => Apart(p, q)
  BY <1>1, <1>3 DEF PacedInv
<1>7. \A p, q \in requests' : p.start = q.start /\ p.of = 0 /\ q.of = 0 => p = q
  BY <1>1, <1>3, <1>4 DEF PacedInv
<1>8. pass'.phase = "own"
  BY <1>1 DEF QueueTyped, PassRecord
<1>9. QED
  BY <1>1, <1>2, <1>5, <1>6, <1>7, <1>8 DEF PacedInv

\* Time passes for all requests alike.
LEMMA TickPaced == ASSUME QueueTyped, PacedInv, Tick PROVE PacedInv'
<1>1. /\ requests' = {[r EXCEPT !.age = @ + 1] : r \in {q \in requests : q.age + 1 < Minute}}
      /\ starts' = starts /\ pass' = [pass EXCEPT !.since = older(@, Interval), !.todo = aged(@)]
  BY Zenon DEF Tick
<1>2. starts \in Nat /\ Interval \in Nat \ {0} /\ Minute \in Nat \ {0}
      /\ \A r \in requests : r.age \in Nat /\ r.age < Minute /\ r.start \in Nat /\ r.of \in Nat
  BY RequestTypes DEF PacedInv
<1>3. /\ pass'.phase = pass.phase /\ pass.since \in Nat
      /\ pass'.since \in Nat /\ pass'.since <= pass.since + 1
  <2>1. pass.since \in 0..Interval /\ pass'.phase = pass.phase /\ pass'.since = older(pass.since, Interval)
    BY <1>1 DEF QueueTyped, PassRecord
  <2>2. QED
    BY <1>2, <2>1 DEF older
<1>4. ASSUME NEW r \in requests'
      PROVE  \E q \in requests : /\ r = [q EXCEPT !.age = @ + 1] /\ r.start = q.start /\ r.of = q.of
                                 /\ r.age = q.age + 1 /\ r.age < Minute /\ r \in RequestRecord
  <2>1. PICK q \in requests : r = [q EXCEPT !.age = q.age + 1] /\ q.age + 1 < Minute
    BY <1>1
  <2>2. q \in RequestRecord
    BY DEF PacedInv
  <2>3. QED
    BY <1>2, <2>1, <2>2 DEF RequestRecord
<1>5. requests' \subseteq RequestRecord /\ \A r \in requests' : r.start <= starts'
  BY <1>1, <1>4 DEF PacedInv
<1>6. ASSUME NEW p \in requests', NEW q \in requests', p.start = q.start, p.of # 0, q.of # 0, p # q
      PROVE  Apart(p, q)
  <2>1. PICK p0 \in requests : p = [p0 EXCEPT !.age = @ + 1] /\ p.start = p0.start /\ p.of = p0.of
                               /\ p.age = p0.age + 1
    BY <1>4
  <2>2. PICK q0 \in requests : q = [q0 EXCEPT !.age = @ + 1] /\ q.start = q0.start /\ q.of = q0.of
                               /\ q.age = q0.age + 1
    BY <1>4
  <2>3. Apart(p0, q0)
    BY <1>6, <2>1, <2>2 DEF PacedInv
  <2>4. QED
    BY <1>2, <2>1, <2>2, <2>3 DEF Apart
<1>7. ASSUME NEW p \in requests', NEW q \in requests', p.start = q.start, p.of = 0, q.of = 0 PROVE p = q
  <2>1. PICK p0 \in requests : p = [p0 EXCEPT !.age = @ + 1] /\ p.start = p0.start /\ p.of = p0.of
    BY <1>4
  <2>2. PICK q0 \in requests : q = [q0 EXCEPT !.age = @ + 1] /\ q.start = q0.start /\ q.of = q0.of
    BY <1>4
  <2>3. p0 = q0
    BY <1>7, <2>1, <2>2 DEF PacedInv
  <2>4. QED
    BY <2>1, <2>2, <2>3
<1>8. ASSUME pass'.phase \in {"next", "wait", "asked"}, NEW r \in requests', r.start = starts'
      PROVE  r.of # 0 /\ r.age >= pass'.since
  <2>1. PICK q \in requests : r.start = q.start /\ r.of = q.of /\ r.age = q.age + 1
    BY <1>4
  <2>2. q.of # 0 /\ q.age >= pass.since
    BY <1>1, <1>3, <1>8, <2>1 DEF PacedInv
  <2>3. QED
    BY <1>2, <1>3, <2>1, <2>2
<1>9. QED
  BY <1>1, <1>2, <1>5, <1>6, <1>7, <1>8 DEF PacedInv

\* A minute has one band less than the relay takes requests, each an interval long.
LEMMA BandOf ==
    ASSUME NEW a \in Nat, a < Minute
    PROVE  a \div Interval \in 0..(RelayLimit - 2)
<1>1. /\ Interval \in Nat \ {0} /\ RelayLimit \in Nat \ {0} /\ Minute \in Nat
      /\ Minute <= (RelayLimit - 1) * Interval
  BY AnchorAssumption
<1> DEFINE b == a \div Interval
<1>2. b \in Nat /\ b * Interval <= a
  BY <1>1
<1> HIDE DEF b
<1>3. b * Interval < (RelayLimit - 1) * Interval
  BY <1>1, <1>2
<1>4. b < RelayLimit - 1
  BY <1>1, <1>2, <1>3
<1>5. QED
  BY <1>1, <1>2, <1>4 DEF b

\* Ages that are an interval apart are of different bands.
LEMMA BandsDiffer ==
    ASSUME NEW a \in Nat, NEW b \in Nat, a + Interval <= b
    PROVE  a \div Interval # b \div Interval
<1>1. Interval \in Nat \ {0}
  BY AnchorAssumption
<1> DEFINE c == a \div Interval
           d == b \div Interval
<1>2. c \in Nat /\ d \in Nat /\ a < c * Interval + Interval /\ d * Interval <= b /\ b < d * Interval + Interval
  BY <1>1
<1>3. c * Interval <= a
  BY <1>1
<1> HIDE DEF c, d
<1>4. c # d
  BY <1>1, <1>2, <1>3
<1>5. QED
  BY <1>4 DEF c, d

\* One band for each retry and one for its own: a start asks no more than the relay takes.
LEMMA PacedIsWithin ==
    ASSUME PacedInv, NEW s \in Nat PROVE Cardinality(RequestsOf(s)) <= RelayLimit
<1> DEFINE R == RequestsOf(s)
           T == 0..(RelayLimit - 1)
           band(r) == IF r.of = 0 THEN RelayLimit - 1 ELSE r.age \div Interval
           f == [r \in R |-> band(r)]
<1>1. Interval \in Nat \ {0} /\ RelayLimit \in Nat \ {0}
  BY AnchorAssumption
<1>2. \A r \in R : r \in requests /\ r.start = s /\ r.age \in Nat /\ r.age < Minute
  BY RequestTypes DEF RequestsOf
<1>3. ASSUME NEW r \in R PROVE band(r) \in T /\ (r.of # 0 => band(r) # RelayLimit - 1)
  <2>1. CASE r.of = 0
    BY <1>1, <2>1
  <2>2. CASE r.of # 0
    <3>1. band(r) \in 0..(RelayLimit - 2)
      BY <1>2, <2>2, BandOf
    <3>2. QED
      BY <1>1, <3>1
  <2>3. QED
    BY <2>1, <2>2
<1>4. ASSUME NEW p \in R, NEW q \in R, band(p) = band(q) PROVE p = q
  <2>1. CASE p.of = 0 /\ q.of = 0
    BY <1>2, <2>1 DEF PacedInv
  <2>2. CASE p.of # 0 /\ q.of # 0
    <3>1. p = q \/ Apart(p, q)
      BY <1>2, <2>2 DEF PacedInv
    <3>2. p.age \div Interval = q.age \div Interval
      BY <1>4, <2>2
    <3>3. QED
      BY <1>2, <3>1, <3>2, BandsDiffer DEF Apart
  <2>3. CASE (p.of = 0) # (q.of = 0)
    BY <1>3, <1>4, <2>3
  <2>4. QED
    BY <2>1, <2>2, <2>3
<1> HIDE DEF R, T, band
<1>5. f \in Injection(R, T)
  BY <1>3, <1>4 DEF Injection, IsInjective
<1>6. IsFiniteSet(T) /\ Cardinality(T) = RelayLimit
  <2>1. IsFiniteSet(T) /\ Cardinality(T) = IF 0 > RelayLimit - 1 THEN 0 ELSE (RelayLimit - 1) - 0 + 1
    BY <1>1, FS_Interval DEF T
  <2>2. QED
    BY <1>1, <2>1
<1>7. Cardinality(R) <= Cardinality(T)
  BY <1>5, <1>6, FS_Injection
<1>8. QED
  BY <1>6, <1>7 DEF R

\* Whatever the relay answers and wherever a start ends, a checkpoint that was
\* saved as queued keeps its marker until its digest is stamped, and no start
\* asks more often than the relay takes requests (drainAnchorQueue and
\* enqueueAnchorRetry, anchor-queue.mjs; anchorForCheckpoint).
THEOREM RetriesAreKeptAndPaced == AnchorSpec => []RetriesKeptAndPaced
<1> DEFINE Inv == QueueTyped /\ QueueInv /\ PacedInv
<1>1. AnchorInit => Inv
  <2> SUFFICES ASSUME AnchorInit PROVE Inv
    OBVIOUS
  <2>1. /\ queue = <<>> /\ saved = <<>> /\ pass = NoPass /\ head \in {0, 1} /\ starts = 0
        /\ stamped = {} /\ requests = {}
    BY DEF AnchorInit
  <2>2. QueueTyped
    BY <2>1, NoPassEmpty DEF QueueTyped
  <2>3. Markers(queue) = {} /\ Markers(pass.todo) = {} /\ DOMAIN saved = {} /\ pass.phase = "off"
    BY <2>1, NoPassEmpty DEF Markers
  <2>4. QueueInv
    BY <2>3 DEF QueueInv, Agree, Kept
  <2>5. PacedInv
    BY <2>1, <2>3 DEF PacedInv
  <2>6. QED
    BY <2>2, <2>4, <2>5
<1>2. Inv /\ [AnchorNext]_anchorVars => Inv'
  <2> SUFFICES ASSUME Inv, [AnchorNext]_anchorVars PROVE Inv'
    OBVIOUS
  <2>1. CASE UNCHANGED anchorVars
    BY <2>1 DEF anchorVars, QueueTyped, QueueInv, PacedInv, nextSeq
  <2>2. CASE AnchorNext
    <3>1. QueueTyped' /\ QueueInv'
      BY <2>2, QueueStep
    <3>2. PacedInv'
      BY <2>2, AsksNothing, RetryPaced, OwnPaced, TickPaced
    <3>3. QED
      BY <3>1, <3>2
  <2>3. QED
    BY <2>1, <2>2
<1>3. Inv => RetriesKeptAndPaced
  <2> SUFFICES ASSUME Inv PROVE RetriesKeptAndPaced
    OBVIOUS
  <2>1. Kept(Markers(queue), saved, stamped)
    BY DEF QueueInv
  <2>2. ASSUME NEW c \in DOMAIN saved, saved[c].type = "queued", saved[c].digest \notin stamped
        PROVE  \E i \in DOMAIN queue : queue[i].seq = c /\ queue[i].digest = saved[c].digest
    <3>1. <<c, saved[c].digest>> \in Markers(queue)
      BY <2>1, <2>2 DEF Kept
    <3>2. QED
      BY <3>1 DEF Markers
  <2>3. QueuedUntilStamped
    BY <2>2 DEF QueuedUntilStamped
  <2>4. StartWithinLimit
    <3>1. \A s \in 1..starts : s \in Nat
      BY DEF PacedInv
    <3>2. QED
      BY <3>1, PacedIsWithin DEF StartWithinLimit
  <2>5. QED
    BY <2>3, <2>4 DEF RetriesKeptAndPaced
<1>4. QED
  BY <1>1, <1>2, <1>3, PTL DEF AnchorSpec
=============================================================================
