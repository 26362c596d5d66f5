------------------------------- MODULE Desktop --------------------------------
(***************************************************************************)
(* What Helm leaves on the machine and what it says about it: the start-   *)
(* at-login entry (hub/autostart.mjs), the Start Menu shortcut (hub/       *)
(* shortcut.mjs) and the helm:// registration (hub/protocol.mjs), the      *)
(* routes GET and POST /autostart, `helmd uninstall`, the doctor's checks, *)
(* and the two toggles of the Operate view (ui/views/operate.mjs). Tools   *)
(* of the system that are called fail at any point; people move programs   *)
(* and edit entries by hand.                                               *)
(***************************************************************************)
EXTENDS Naturals, Sequences

CONSTANTS Program,    \* copies of the helmd program, by path
          Nowhere,    \* no entry
          Illegible,  \* an entry whose command cannot be read back
          MaxEvents   \* bound: what happens outside, failures and lost answers

ASSUME DesktopAssumption == MaxEvents \in Nat /\ {Nowhere, Illegible} \cap Program = {}

VARIABLES os,        \* "win32", "darwin" or "linux"
          present,   \* programs that are on disk
          running,   \* the one that runs: what autostartCommand returns
          entry,     \* "autostart" and "shortcut": the program an entry names
          scheme,    \* the registration: its parts in the order they were written, its program
          writing,   \* parts of the registration still to be written
          box,       \* each toggle: checked, and whether a save is under way
          post,      \* each toggle's call: [phase, wanted, payload]
          told,      \* history: the toggle shows what was there when it was read last
          report,    \* what `helmd doctor` or `helmd status` is saying
          events

desktopVars == <<os, present, running, entry, scheme, writing, box, post, told, report, events>>
machine == <<os, present, running>>

Toggle == {"autostart", "shortcut"}
NoPost == [phase |-> "none", wanted |-> FALSE, payload |-> [f \in Toggle |-> FALSE]]

DesktopInit ==
    /\ os \in {"win32", "darwin", "linux"}
    /\ present = Program /\ running \in Program
    /\ entry = [f \in Toggle |-> Nowhere]
    /\ scheme = [parts |-> {}, program |-> Nowhere] /\ writing = <<>>
    /\ box = [f \in Toggle |-> FALSE] /\ post = [f \in Toggle |-> NoPost]
    /\ told = [f \in Toggle |-> TRUE] /\ report = Nowhere /\ events = 0

happens == events < MaxEvents /\ events' = events + 1
-----------------------------------------------------------------------------
(* What is there, read back.                                               *)
supported(f) == IF f = "autostart" THEN os \in {"win32", "darwin"} ELSE os = "win32"

\* Mistaken form: an entry that exists is healthy.
ReasonByExistence(supports, program) ==
    CASE ~supports -> "unsupported"
      [] supports /\ program = Nowhere -> "not_installed"
      [] OTHER -> "ok"

\* autostartStatus and protocolStatus: is there an entry, can it be read, is its
\* target there, is it the program that runs
reasonFor(supports, program) ==
    CASE ~supports -> "unsupported"
      [] supports /\ program = Nowhere -> "not_installed"
      [] supports /\ program = Illegible -> "unreadable"
      [] OTHER -> IF program \notin present THEN "target_missing"
                  ELSE IF program # running THEN "command_mismatch" ELSE "ok"

\* isInstalledWindows asks for the command only; on Linux the file counts, and
\* whose scheme it is by default is asked with a command line that answers nothing
recordedScheme == IF {"command", "file"} \cap scheme.parts # {} THEN scheme.program ELSE Nowhere

passes(reason) == reason \notin {"target_missing", "unreadable"}

\* `helmd doctor`: autostartDoctorCheck and protocolDoctorCheck; works is what a
\* sign-in, or a click on a link, would find
runsDoctor ==
    /\ report = Nowhere
    /\ report' = [autostart |-> passes(reasonFor(supported("autostart"), entry["autostart"])),
                  protocol |-> passes(reasonFor(os # "darwin", recordedScheme)),
                  startsHelm |-> entry["autostart"] \in present \union {Nowhere},
                  opensHelm |-> recordedScheme \in present \union {Nowhere},
                  isDefault |-> os = "linux" /\ recordedScheme # Nowhere => "default" \in scheme.parts]
    /\ UNCHANGED <<machine, entry, scheme, writing, box, post, told, events>>

readsReport ==
    /\ report # Nowhere /\ report' = Nowhere
    /\ UNCHANGED <<machine, entry, scheme, writing, box, post, told, events>>

installed(f) == entry[f] # Nowhere
autostartPayload == [f \in Toggle |-> installed(f)]
-----------------------------------------------------------------------------
(* POST /autostart. The tool that is called (reg, launchctl, powershell)   *)
(* may throw; uninstalling swallows that. launchctl is best effort.        *)
installAutostart == [entry EXCEPT !["autostart"] = IF supported("autostart") THEN running ELSE @]
installShortcut == [entry EXCEPT !["shortcut"] = IF supported("shortcut") THEN running ELSE @]
install(f) == IF f = "autostart" THEN installAutostart ELSE installShortcut

\* Mistaken form: the answer says what was asked for.
SetEchoes(f, works) ==
    LET done == IF ~works THEN entry ELSE IF post[f].wanted THEN install(f)
                                          ELSE [entry EXCEPT ![f] = Nowhere]
        refused == ~works /\ post[f].wanted /\ supported(f)
    IN /\ post[f].phase \in {"sent", "givenUp"} /\ writing = <<>>
       /\ IF works THEN UNCHANGED events ELSE happens
       /\ entry' = done
       /\ post' = [post EXCEPT ![f].phase = IF @ = "givenUp" THEN "ask" ELSE IF refused THEN "failed"
                                            ELSE "answered",
                               ![f].payload = [g \in Toggle |-> IF g = f THEN post[f].wanted
                                                                ELSE done[g] # Nowhere]]
       /\ UNCHANGED <<machine, scheme, writing, box, told>>

\* the answer is what is read back, also the one of a failure
handleAutostartSet(f, works) ==
    LET done == IF ~works THEN entry ELSE IF post[f].wanted THEN install(f)
                                          ELSE [entry EXCEPT ![f] = Nowhere]
        refused == ~works /\ post[f].wanted /\ supported(f)
    IN /\ post[f].phase \in {"sent", "givenUp"} /\ writing = <<>>
       /\ IF works THEN UNCHANGED events ELSE happens
       /\ entry' = done
       /\ post' = [post EXCEPT ![f].phase = IF @ = "givenUp" THEN "ask" ELSE IF refused THEN "failed"
                                            ELSE "answered",
                               ![f].payload = [g \in Toggle |-> done[g] # Nowhere]]
       /\ UNCHANGED <<machine, scheme, writing, box, told>>
-----------------------------------------------------------------------------
(* The registration of helm://. On Windows three values of the registry,   *)
(* the command last; on Linux a file and then the default for the scheme.  *)
\* Mistaken form: the command first.
CommandFirst ==
    CASE os = "win32" -> <<"command", "description", "URL_Protocol">>
      [] os = "linux" -> <<"file", "default">>
      [] OTHER -> <<>>

protocolParts ==
    CASE os = "win32" -> <<"description", "URL_Protocol", "command">>
      [] os = "linux" -> <<"file", "default">>
      [] OTHER -> <<>>

installProtocol ==
    /\ writing = <<>> /\ writing' = protocolParts
    /\ UNCHANGED <<machine, entry, scheme, box, post, told, events>>

writesPart ==
    /\ writing # <<>>
    /\ scheme' = [parts |-> scheme.parts \union {Head(writing)},
                  program |-> IF Head(writing) \in {"command", "file"} THEN running ELSE scheme.program]
    /\ writing' = Tail(writing)
    /\ UNCHANGED <<machine, entry, box, post, told, events>>

\* a tool throws, or the process dies: the rest is not written
writingFails ==
    /\ writing # <<>> /\ happens /\ writing' = <<>>
    /\ UNCHANGED <<machine, entry, scheme, box, post, told>>

\* the key with all below it; of Linux the file, the default stays
uninstallProtocol ==
    /\ writing = <<>> /\ scheme.parts # {}
    /\ scheme' = [parts |-> IF os = "linux" THEN scheme.parts \ {"file"} ELSE {}, program |-> Nowhere]
    /\ UNCHANGED <<machine, entry, writing, box, post, told, events>>

\* helmd uninstall; a tool that fails is not noticed
cmdUninstall(works) ==
    /\ writing = <<>> /\ happens
    /\ entry' = [f \in Toggle |-> IF works THEN Nowhere ELSE entry[f]]
    /\ scheme' = IF works THEN [parts |-> IF os = "linux" THEN scheme.parts \ {"file"} ELSE {},
                                program |-> Nowhere]
                 ELSE scheme
    /\ told' = [f \in Toggle |-> told[f] /\ entry'[f] = entry[f]]
    /\ UNCHANGED <<machine, writing, box, post>>
-----------------------------------------------------------------------------
(* The toggles.                                                            *)
applyStartupState(payload, f) ==
    /\ box' = [g \in Toggle |-> IF supported(g) THEN payload[g] ELSE FALSE]
    /\ post' = [post EXCEPT ![f] = NoPost]

\* the person clicks; the other toggle stays usable meanwhile
send(f) ==
    /\ supported(f) /\ post[f].phase = "none"
    /\ box' = [box EXCEPT ![f] = ~@]
    /\ post' = [post EXCEPT ![f] = [NoPost EXCEPT !.phase = "sent", !.wanted = ~box[f]]]
    /\ told' = IF \E g \in Toggle : post[g].phase # "none" THEN [g \in Toggle |-> FALSE]
               ELSE [told EXCEPT ![f] = TRUE]
    /\ UNCHANGED <<machine, entry, scheme, writing, events>>

\* 3 s have passed, or the connection is gone: the daemon may do it yet
givesUp(f) ==
    /\ post[f].phase \in {"sent", "answered", "failed"} /\ happens
    /\ post' = [post EXCEPT ![f].phase = IF @ = "sent" THEN "givenUp" ELSE "ask"]
    /\ UNCHANGED <<machine, entry, scheme, writing, box, told>>

answered(f) ==
    /\ post[f].phase = "answered"
    /\ applyStartupState(post[f].payload, f)
    /\ UNCHANGED <<machine, entry, scheme, writing, told, events>>

\* not ok: GET /autostart, which is answered after the POST was handled
rereads(f) ==
    /\ post[f].phase \in {"failed", "ask"} /\ writing = <<>>
    /\ applyStartupState(autostartPayload, f)
    /\ told' = [told EXCEPT ![f] = \A g \in Toggle \ {f} : post[g].phase = "none"]
    /\ UNCHANGED <<machine, entry, scheme, writing, events>>

\* that fails too: the box stays as it was clicked
rereadFails(f) ==
    /\ post[f].phase \in {"failed", "ask"} /\ happens
    /\ post' = [post EXCEPT ![f] = NoPost] /\ told' = [told EXCEPT ![f] = FALSE]
    /\ UNCHANGED <<machine, entry, scheme, writing, box>>
-----------------------------------------------------------------------------
(* Outside.                                                                *)
moves(p) ==
    /\ happens /\ present' = (IF p \in present THEN present \ {p} ELSE present \union {p})
    /\ p # running
    /\ UNCHANGED <<os, running, entry, scheme, writing, box, post, told>>

\* another copy of the program is started instead
otherCopy(p) ==
    /\ p \in present \ {running} /\ writing = <<>> /\ happens /\ running' = p
    /\ UNCHANGED <<os, present, entry, scheme, writing, box, post, told>>

\* somebody edits or removes an entry by hand
editsEntry(f, e) ==
    /\ supported(f) /\ entry[f] # Nowhere /\ e # entry[f] /\ happens
    /\ entry' = [entry EXCEPT ![f] = e] /\ told' = [told EXCEPT ![f] = FALSE]
    /\ UNCHANGED <<machine, scheme, writing, box, post>>

\* another program takes the scheme over
otherHandler ==
    /\ os = "linux" /\ "default" \in scheme.parts /\ happens
    /\ scheme' = [scheme EXCEPT !.parts = @ \ {"default"}]
    /\ UNCHANGED <<machine, entry, writing, box, post, told>>

Happening ==
    \/ \E f \in Toggle : \/ \E works \in BOOLEAN : handleAutostartSet(f, works)
                         \/ send(f) \/ givesUp(f) \/ answered(f) \/ rereads(f) \/ rereadFails(f)
                         \/ \E e \in {Nowhere, Illegible} : editsEntry(f, e)
    \/ installProtocol \/ writesPart \/ writingFails \/ uninstallProtocol
    \/ \E works \in BOOLEAN : cmdUninstall(works)
    \/ \E p \in Program : moves(p) \/ otherCopy(p)
    \/ otherHandler

DesktopNext == (report = Nowhere /\ Happening /\ UNCHANGED report) \/ runsDoctor \/ readsReport

DesktopSpec == DesktopInit /\ [][DesktopNext]_desktopVars
-----------------------------------------------------------------------------
\* A toggle "is a claim about what is on the machine right now" (operate.mjs
\* startupCardHtml): when no save is under way, whatever failed or timed out in
\* between, it shows whether there is an entry, unless somebody changed it
\* outside, both toggles were saved at once, or the daemon could not be asked.
ToggleIsMachine ==
    \A f \in Toggle :
        supported(f) /\ told[f] /\ (\A g \in Toggle : post[g].phase = "none")
            => box[f] = (entry[f] # Nowhere)

\* A registration that Windows would follow is complete: whichever write of
\* installProtocolWindows fails, a command without the marker that makes the
\* key a URL scheme is never left behind.
SchemeIsWhole ==
    "command" \in scheme.parts => {"description", "URL_Protocol"} \subseteq scheme.parts

\* The doctor's green line: an entry that names a program which was moved or
\* deleted, or that cannot be read, is never reported healthy ("an entry ...
\* points at a dead path ... while isInstalled keeps reporting healthy" is what
\* autostart.mjs set out to end).
DoctorSeesDeadEntries ==
    report # Nowhere => /\ report.autostart => report.startsHelm
                        /\ report.protocol => report.opensHelm

\* What the card, the registration and the doctor say is how the machine is.
EntriesAreAsShown == ToggleIsMachine /\ SchemeIsWhole /\ DoctorSeesDeadEntries

\* Claimed by protocolDoctorCheck ("another handler is the default for helm://
\* links"), and refuted: xdg-mime is asked without the verb default, so nobody
\* is told.
DoctorSeesOtherHandler == report # Nowhere /\ report.protocol => report.isDefault
=============================================================================
