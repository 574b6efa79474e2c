----------------------------- MODULE RootCommand ----------------------------
(***************************************************************************)
(* One run of grype (cmd/grype/cli/commands/root.go): the report files are *)
(* opened, the update check, the database and the packages are fetched by  *)
(* three goroutines, the matches are found, and the document is written to *)
(* every output.  Reports for the terminal travel as events over the bus   *)
(* to the user interface (cmd/grype/internal/ui), which prints them when   *)
(* it is torn down; the user may interrupt the run at any moment.          *)
(***************************************************************************)
EXTENDS Report

CONSTANTS Requests,     \* the command lines: [in, config, opts]
          Vulns,        \* what the database knows: [name, distro, type, vuln]
          EOL,          \* the distributions that have reached their end of life
          Explained     \* the sets of ids that are explained

\* A command line has at least one output; a catalogue is a list of packages.
ASSUME RequestsAssumption ==
    /\ None \notin {0, 1, 2, "ok", "database", "catalog", "plain", "forced"}
    /\ \A r \in Requests :
         /\ r.opts.outputs \in Seq(Range(r.opts.outputs)) /\ r.opts.outputs # <<>>
         /\ \A o \in Range(r.opts.outputs) : o.format \notin {"earlier report", "nothing", "mixture"}
         /\ LET c == ProvidePackages(r.in, r.config) IN c.kind = "ok" => c.pkgs \in Seq(Range(c.pkgs))
    /\ IsFiniteSet(Vulns) /\ IsFiniteSet(EOL)
    /\ \A v \in Vulns : "sev" \in DOMAIN v.vuln

VARIABLES req,          \* the command line of this run
          catalog,      \* what cataloguing its input gives
          pc,           \* where the main goroutine is
          workers,      \* the goroutines that have finished, with their outcome
          rules,        \* opts.Ignore
          files,        \* the report files: what each path holds
          store,        \* the database connection
          found,        \* the packages, and the matches among them
          doc,          \* the document, NoDocument until it is made
          outs,         \* how many outputs were written
          errs,         \* the errors of this run
          queue,        \* events published and not yet handled
          ui,           \* the interface: [alive, hand, final, closing]
          stdout,       \* what has been printed: reports, then notices
          exit,         \* the exit code, None while running
          interrupted,  \* whether the user interrupted the run
          explained     \* the explanations made from the report

vars == <<req, catalog, pc, workers, rules, files, store, found, doc, outs, errs, queue, ui, stdout, exit, interrupted, explained>>

main == <<req, catalog, workers, rules, files, store, found, doc, outs, errs>>

\* The members of a list in the places T, in their order.
Chosen(s, T) ==
    LET upTo[n \in 0 .. Len(s)] ==
            IF n = 0 THEN <<>> ELSE IF n \in T THEN Append(upTo[n - 1], s[n]) ELSE upTo[n - 1]
    IN  upTo[Len(s)]

Outputs == req.opts.outputs
Paths(opts) == {o.file : o \in Range(opts.outputs)} \ {None}
Running == exit = None
Done == {w \in DOMAIN workers : workers[w] # None}

NoDocument == <<>>

holding(format) == [format |-> format]
event(kind, body) == [kind |-> kind, body |-> body]
Publish(es) == queue' = queue \o es

Init ==
    /\ req \in Requests
    /\ catalog = ProvidePackages(req.in, req.config)
    /\ pc = "start"
    /\ workers = [w \in {"update", "db", "packages"} |-> None]
    /\ rules = {}
    /\ files = [f \in Paths(req.opts) |-> holding("earlier report")]
    /\ store = "closed"
    /\ found = None /\ doc = NoDocument /\ outs = 0
    /\ errs = {}
    /\ queue = <<>>
    /\ ui = [alive |-> TRUE, hand |-> <<>>, final |-> <<>>, closing |-> None]
    /\ stdout = <<>>
    /\ exit = None /\ interrupted = FALSE
    /\ explained = <<>>

(***************************************************************************)
(* The main goroutine                                                      *)
(***************************************************************************)

\* The worker returns: whatever was deferred runs, and the exit event follows
\* the events published before.
Return(es) ==
    /\ pc' = "returned"
    /\ errs' = errs \cup es
    /\ store' = "closed"
    /\ Publish(<<event("exit", "done")>>)

\* MakeScanResultWriter: an unknown format is refused before any file is
\* opened; the files are opened, and emptied, one after the other.
MakeScanResultWriter ==
    LET unknown == \E o \in Range(Outputs) : o.format = "unknown"
        bad     == {i \in DOMAIN Outputs : Outputs[i].file \in req.opts.badDirs}
        opened  == {Outputs[i].file : i \in {i \in DOMAIN Outputs : \A b \in bad : i < b}} \ {None}
    IN  /\ Running /\ pc = "start"
        /\ files' = IF unknown THEN files ELSE [f \in DOMAIN files |-> IF f \in opened THEN holding("nothing") ELSE files[f]]
        /\ IF unknown \/ bad # {} THEN Return({"output"})
           ELSE pc' = "rules" /\ UNCHANGED <<errs, store, queue>>
        /\ UNCHANGED <<req, catalog, workers, rules, found, doc, outs, ui, stdout, exit, interrupted, explained>>

FixStates == {"fixed", "not-fixed", "wont-fix", "unknown"}
fixRule(state) == [fix |-> state, vex |-> None, headers |-> FALSE]
vexRule(status) == [fix |-> None, vex |-> status, headers |-> FALSE]
headersRule == [fix |-> None, vex |-> None, headers |-> TRUE]

IgnoreOptions(opts) ==
    (IF opts.onlyFixed THEN {fixRule(s) : s \in FixStates \ {"fixed"}} ELSE {})
    \cup (IF opts.onlyNotFixed THEN {fixRule("fixed")} ELSE {})
    \cup (IF opts.kernelHeaders THEN {} ELSE {headersRule})
    \cup {fixRule(s) : s \in opts.ignoreStates}

\* The rules of the options; then the three goroutines start.
AddIgnoreRules ==
    /\ Running /\ pc = "rules"
    /\ rules' = IgnoreOptions(req.opts)
    /\ IF req.opts.ignoreStates \subseteq FixStates THEN pc' = "parallel" /\ UNCHANGED <<errs, store, queue>>
       ELSE Return({"ignore states"})
    /\ UNCHANGED <<req, catalog, workers, files, found, doc, outs, ui, stdout, exit, interrupted, explained>>

Finishes(w, outcome) == workers' = [workers EXCEPT ![w] = outcome]
\* Mutant: the update check is not started when it is switched off.
StartsWanted(w) == Running /\ pc = "parallel" /\ workers[w] = None /\ (w = "update" => req.opts.checkUpdate)
Starts(w) == Running /\ pc = "parallel" /\ workers[w] = None

checkForAppUpdate ==
    /\ Starts("update")
    /\ Finishes("update", "ok")
    /\ \/ UNCHANGED queue
       \/ req.opts.checkUpdate /\ Publish(<<event("update", "new version")>>)
    /\ UNCHANGED <<req, catalog, pc, rules, files, store, found, doc, outs, errs, ui, stdout, exit, interrupted, explained>>

\* LoadVulnerabilityDB and validateDBLoad: some failures tell the user what to do.
LoadVulnerabilityDB ==
    /\ Starts("db")
    /\ \/ Finishes("db", "ok") /\ store' = "open" /\ UNCHANGED queue
       \/ Finishes("db", "database") /\ UNCHANGED <<store, queue>>
       \/ Finishes("db", "database") /\ UNCHANGED store /\ Publish(<<event("notification", "checksum")>>)
    /\ UNCHANGED <<req, catalog, pc, rules, files, found, doc, outs, errs, ui, stdout, exit, interrupted, explained>>

CatalogPackages ==
    /\ Starts("packages")
    /\ IF catalog.kind = "ok" THEN Finishes("packages", "ok") /\ found' = catalog
       ELSE Finishes("packages", "catalog") /\ UNCHANGED found
    /\ UNCHANGED <<req, catalog, pc, rules, files, store, doc, outs, errs, queue, ui, stdout, exit, interrupted, explained>>

\* parallel waits for all three. On an error the connection is not closed: the
\* deferred Close comes later.
Join ==
    LET failed == {workers[w] : w \in Done} \ {"ok"}
    IN  /\ Running /\ pc = "parallel" /\ Done = DOMAIN workers
        /\ IF failed = {} THEN pc' = "vex" /\ UNCHANGED <<errs, queue>>
           ELSE pc' = "returned" /\ errs' = failed /\ Publish(<<event("exit", "done")>>)
        /\ UNCHANGED <<req, catalog, workers, rules, files, store, found, doc, outs, ui, stdout, exit, interrupted, explained>>

VexStatuses == {"affected", "under_investigation"}

\* applyVexRules and NewProcessor
applyVexRules ==
    /\ Running /\ pc = "vex"
    /\ rules' = rules \cup (IF req.opts.vexDocs = {} THEN {} ELSE {vexRule("not_affected"), vexRule("fixed")})
                      \cup {vexRule(s) : s \in req.opts.vexAdd}
    /\ IF req.opts.vexAdd \subseteq VexStatuses /\ "unreadable" \notin req.opts.vexDocs
       THEN pc' = "match" /\ UNCHANGED <<errs, store, queue>>
       ELSE Return({"vex"})
    /\ UNCHANGED <<req, catalog, workers, files, found, doc, outs, ui, stdout, exit, interrupted, explained>>

\* What the matchers find for the packages: each package is asked about in turn,
\* by its name in its distribution (Scan and Matchers model the search itself).
FindMatches(pkgs) ==
    {[pkg |-> e[1], vuln |-> e[2].vuln, type |-> e[2].type] :
        e \in {e \in Range(pkgs) \X Vulns : e[2].name = e[1].name /\ e[2].distro \in {None, IF e[1].distro = None THEN None ELSE e[1].distro.type}}}

ignores(rule, m) ==
    \/ rule.fix # None /\ rule.fix = m.vuln.state
    \/ rule.headers /\ m.type = "indirect" /\ m.pkg.name = "kernel-headers"

AtOrAbove(sev, failOn) == failOn # None /\ severityPriority(sev) <= severityPriority(failOn)

\* FindMatchesContext, the alerts and NewDocument. Findings above the severity
\* threshold are an error that does not stop the report; when a query for the
\* document fails, that error takes its place.
FindMatchesAndDocument ==
    LET all      == FindMatches(found.pkgs)
        ignored  == {m \in all : \E r \in rules : ignores(r, m)}
        eol      == {d \in EOL : req.opts.eolAlerts /\ \E p \in Range(found.pkgs) : p.distro = d}
        above    == \E m \in all \ ignored : AtOrAbove(m.vuln.sev, req.opts.failOn)
        notified(ds) == [i \in DOMAIN ds |-> event("notification", ds[i].type)]
    IN  /\ Running /\ pc = "match"
        /\ \/ Return({"matching"}) /\ UNCHANGED doc
           \/ \E notices \in SetToSeqs(eol) :
                \/ \E listed \in SetToSeqs(all \ ignored) :
                     /\ doc' = NewDocument(found.pkgs, found.distro, listed, SetToSeq(ignored), req.opts.sortBy, eol)
                     /\ errs' = IF above THEN {"threshold"} ELSE {}
                     /\ Publish(notified(notices))
                     /\ pc' = "write"
                     /\ UNCHANGED store
                \/ /\ all # {}
                   /\ errs' = {"document"}
                   /\ Publish(Append(notified(notices), event("exit", "done")))
                   /\ pc' = "returned" /\ store' = "closed"
                   /\ UNCHANGED doc
        /\ UNCHANGED <<req, catalog, workers, rules, files, found, outs, ui, stdout, exit, interrupted, explained>>

\* What a file holds when an output has been written over what it held.
overwritten(old, o) == IF old = holding("nothing") THEN holding(o.format) ELSE holding("mixture")

\* Mutant: an output that fails ends the writing.
WriteUntilFailure ==
    LET o     == Outputs[outs + 1]
        fails == o.format = "broken template"
    IN  /\ Running /\ pc = "write"
        /\ outs' = outs + 1
        /\ files' = IF o.file = None \/ fails THEN files ELSE [files EXCEPT ![o.file] = overwritten(@, o)]
        /\ errs' = IF fails THEN errs \cup {"write"} ELSE errs
        /\ LET report == IF o.file # None \/ fails THEN <<>> ELSE <<event("report", o.format)>>
           IN  IF outs' < Len(Outputs) /\ ~fails THEN Publish(report) /\ UNCHANGED <<pc, store>>
               ELSE Publish(Append(report, event("exit", "done"))) /\ pc' = "returned" /\ store' = "closed"
        /\ UNCHANGED <<req, catalog, workers, rules, found, doc, ui, stdout, exit, interrupted, explained>>

\* Every output is written, whether or not an earlier one failed; presenting a
\* template may fail.
WriteOutput ==
    LET o     == Outputs[outs + 1]
        fails == o.format = "broken template"
    IN  /\ Running /\ pc = "write"
        /\ outs' = outs + 1
        /\ files' = IF o.file = None \/ fails THEN files ELSE [files EXCEPT ![o.file] = overwritten(@, o)]
        /\ errs' = IF fails THEN errs \cup {"write"} ELSE errs
        /\ LET report == IF o.file # None \/ fails THEN <<>> ELSE <<event("report", o.format)>>
           IN  IF outs' < Len(Outputs) THEN Publish(report) /\ UNCHANGED <<pc, store>>
               ELSE Publish(Append(report, event("exit", "done"))) /\ pc' = "returned" /\ store' = "closed"
        /\ UNCHANGED <<req, catalog, workers, rules, found, doc, ui, stdout, exit, interrupted, explained>>

(***************************************************************************)
(* The user interface                                                      *)
(***************************************************************************)

\* The interface is [alive, hand, final, closing]: whether its program runs, the
\* event the program has received and not yet dealt with, the events to print at
\* the end, and how it is being torn down ("plain" or "forced", else None).
\* Without a terminal (NoUI) there is no program and events are kept at once.
NoUIKeeps == {"report", "notification"}

\* Handle: the program receives one event at a time, and none once it has quit.
Handle ==
    /\ Running /\ ui.closing = None /\ queue # <<>> /\ Head(queue).kind # "exit"
    /\ queue' = Tail(queue)
    /\ \/ /\ ~req.opts.tty
          /\ ui' = IF Head(queue).kind \in NoUIKeeps THEN [ui EXCEPT !.final = @ \o <<Head(queue)>>] ELSE ui
       \/ /\ req.opts.tty /\ ui.alive /\ ui.hand = <<>>
          /\ ui' = [ui EXCEPT !.hand = <<Head(queue)>>]
       \/ req.opts.tty /\ ~ui.alive /\ UNCHANGED ui
    /\ UNCHANGED <<pc, main, stdout, exit, interrupted, explained>>

\* Update, in the goroutine of the program: the event is kept for the end.
Update ==
    /\ Running /\ ui.hand # <<>>
    /\ ui' = [ui EXCEPT !.final = @ \o ui.hand, !.hand = <<>>]
    /\ UNCHANGED <<pc, main, queue, stdout, exit, interrupted, explained>>

\* postUIEventWriter: by kind, and in quiet mode the reports alone.
OfKind(events, kind) == Chosen(events, {i \in DOMAIN events : events[i].kind = kind})

written(events, quiet) ==
    OfKind(events, "report") \o IF quiet THEN <<>> ELSE OfKind(events, "notification") \o OfKind(events, "update")

exitCode == IF errs = {} THEN 0 ELSE IF "threshold" \in errs THEN 2 ELSE 1

\* Teardown begins: the event loop takes no more events, while the main goroutine
\* and the program of the interface go on.
Teardown(force) ==
    /\ Running /\ ui.closing = None
    /\ ui' = [ui EXCEPT !.closing = IF force THEN "forced" ELSE "plain"]
    /\ UNCHANGED <<pc, main, stdout, exit, explained>>

\* The event loop meets the exit event.
Exit ==
    /\ queue # <<>> /\ Head(queue).kind = "exit"
    /\ queue' = Tail(queue)
    /\ Teardown(Head(queue).body = "interrupted")
    /\ UNCHANGED interrupted

\* program.Quit: the program ends, after the event it has received.
Quit ==
    /\ Running /\ ui.closing # None /\ req.opts.tty /\ ui.alive /\ ui.hand = <<>>
    /\ ui' = [ui EXCEPT !.alive = FALSE]
    /\ UNCHANGED <<pc, main, queue, stdout, exit, interrupted, explained>>

\* Teardown ends: a plain one has waited for the program to end, a forced one for
\* at most 250 ms; what the program has kept by then is printed.
FinishTeardown ==
    /\ Running /\ ui.closing # None
    /\ ui.closing = "plain" /\ req.opts.tty => ~ui.alive
    /\ stdout' = written(ui.final, req.opts.quiet)
    /\ exit' = IF ui.closing = "forced" THEN 1 ELSE exitCode
    /\ UNCHANGED <<pc, main, queue, ui, interrupted, explained>>

\* A key, or an error of its own, ends the program of the interface and asks for
\* an exit; a signal ends the event loop at once.
Interrupt ==
    /\ Running /\ ~interrupted
    /\ interrupted' = TRUE
    /\ \/ /\ req.opts.tty /\ ui.alive /\ ui.hand = <<>>
          /\ ui' = [ui EXCEPT !.alive = FALSE]
          /\ Publish(<<event("exit", "interrupted")>>)
          /\ UNCHANGED <<pc, main, stdout, exit, explained>>
       \/ Teardown(TRUE) /\ UNCHANGED queue

\* grype explain reads a JSON report that was written whole.
Explain ==
    /\ exit \in {0, 2} /\ explained = <<>>
    /\ \E o \in Range(Outputs) : o.file # None /\ files[o.file] = holding("json")
    /\ \E ids \in Explained : explained' = <<[ids |-> ids, findings |-> ExplainByID(doc, ids)]>>
    /\ UNCHANGED <<pc, main, queue, ui, stdout, exit, interrupted>>

Stopped == ~Running /\ UNCHANGED vars

MainStep ==
    \/ MakeScanResultWriter \/ AddIgnoreRules \/ Join \/ applyVexRules \/ FindMatchesAndDocument
    \/ WriteOutput

Next ==
    \/ MainStep
    \/ checkForAppUpdate \/ LoadVulnerabilityDB \/ CatalogPackages
    \/ Handle \/ Update \/ Exit \/ Quit \/ FinishTeardown \/ Interrupt \/ Explain \/ Stopped

Fairness ==
    /\ WF_vars(MainStep) /\ WF_vars(Handle) /\ WF_vars(Update)
    /\ WF_vars(Exit) /\ WF_vars(Quit) /\ WF_vars(FinishTeardown)
    /\ WF_vars(checkForAppUpdate) /\ WF_vars(LoadVulnerabilityDB) /\ WF_vars(CatalogPackages)

Spec == Init /\ [][Next]_vars /\ Fairness

-----------------------------------------------------------------------------
(***************************************************************************)
(* Properties                                                              *)
(***************************************************************************)

Bodies(events) == [i \in DOMAIN events |-> events[i].body]
Reports(events) == Bodies(OfKind(events, "report"))
Good(o) == o.format # "broken template"
Shared(o) == \E i, j \in DOMAIN Outputs : i # j /\ Outputs[i].file = o.file /\ Outputs[j].file = o.file
Formats == [i \in DOMAIN Outputs |-> Outputs[i].format]
OnTerminal == Chosen(Formats, {i \in DOMAIN Outputs : Outputs[i].file = None /\ Good(Outputs[i])})

\* A run that was not interrupted and got as far as a document delivers it:
\* findings above the threshold do not hold it back, an output that fails does
\* not keep the others from being written, and the reports for the terminal are
\* printed in the order of the options, each once, although they pass through
\* the event queue and the interface that is being torn down (root.go:238-273,
\* MultiWriter.Write, UI.Teardown). The exit code tells the two errors apart.
ReportDelivered ==
    (exit # None /\ ~interrupted /\ doc # NoDocument) =>
        /\ Reports(stdout) = OnTerminal
        /\ \A o \in Range(Outputs) : (o.file # None /\ Good(o) /\ ~Shared(o)) => files[o.file] = holding(o.format)
        /\ exit = 2 <=> \E m \in Range(doc.matches) : AtOrAbove(m.vuln.sev, req.opts.failOn)
        /\ exit = 0 => \A o \in Range(Outputs) : Good(o) /\ (o.file # None => files[o.file] # holding("earlier report"))

\* A run that failed before it had a document leaves no report of its own
\* anywhere, and its exit code is 1: whoever finds a report in a file or on the
\* terminal may take it for complete (root.go:204-264, writer.go:125-166).
NothingOnFailure ==
    (exit # None /\ doc = NoDocument) =>
        /\ Reports(stdout) = <<>>
        /\ \A f \in DOMAIN files : files[f] \in {holding("nothing"), holding("earlier report")}
        /\ exit = 1

\* Nothing that was published is left behind by a run that was not interrupted:
\* the exit event comes after the reports and notices of every goroutine, also
\* those of goroutines that ended long before (root.go:158-208, ui.go:68-111).
NothingUnhandled == (exit # None /\ ~interrupted) => queue = <<>>

\* The database connection is closed when the run ends, however it ends, except
\* when it was opened while the cataloguing of the packages failed: that return
\* comes before the deferred Close (root.go:204-208).
StoreReleased ==
    (exit # None /\ ~interrupted /\ store = "open") => "catalog" \in errs

\* The catalogues of an input that can be read, and the packages they list.
Catalogues(in) ==
    IF in.prefix = "zarf:" THEN {f.content : f \in {f \in Range(in.files) : ~f.tooLarge /\ IsSBOM(f.content)}}
    ELSE {in.content}

Excludes(cfg, in, p) ==
    /\ in.prefix \notin {"pkg:", "cpe:"} /\ cfg.exclusions # {} /\ p.locs # {}
    /\ \A l \in p.locs : \E e \in cfg.exclusions : locationMatches(l, e)

\* What the input tells of the distribution of a package q of catalogue s: the
\* user's choice, the package URL, the os-release, and without these what other
\* packages and catalogues of the input tell.
Told(s, q) ==
    LET purls(pkgs) == {p.purl : p \in {p \in pkgs : p.purl # None}}
        releases(cs) == {c.release : c \in {c \in cs : c.release # None /\ c.release.type # None}}
        own == IF s.native \/ req.in.prefix \in {"cpe:", "image"} THEN {} ELSE purls({q})
    IN  CASE req.config.override # None -> {req.config.override}
          [] req.config.override = None /\ own # {} -> own
          [] OTHER -> IF releases({s}) # {} THEN releases({s})
                      ELSE releases(Catalogues(req.in)) \cup purls(UNION {Range(c.pkgs) : c \in Catalogues(req.in)})

\* Whether q, in the distribution d, answers for p: it owns files of p and has
\* a version that fits, and p is a bare binary, or q is an operating system
\* package, p is not, and the feed of d also lists what is not fixed.
Answers(s, q, p, d) ==
    /\ q.id \in Owners(s, p) /\ {p.version, q.version} \in VersionPrefixes
    /\ p.type = "binary" \/ (isOSPackage(q) /\ ~isOSPackage(p) /\ distroFeedIsComprehensive(d))

\* A package of the input is missing from the scan only if the user excluded
\* all its locations, or another package of its catalogue answers for it in a
\* distribution the input tells for that package: on a distribution without a
\* comprehensive feed, or one nobody knows, a library is scanned beside the
\* package that owns it. And where such an owner is scanned, in the
\* distribution found for it, the owned package is missing: its findings would
\* be reported twice (package.go:116-302, provider.go:287-316,
\* zarf_provider.go:203-218).
OwnersAnswer ==
    found # None =>
        LET kept == {p.id : p \in Range(found.pkgs)}
            pkg(id) == CHOOSE p \in Range(found.pkgs) : p.id = id
        IN  \A s \in Catalogues(req.in) : \A p \in Range(s.pkgs) :
                /\ (p.id \notin kept /\ ~Excludes(req.config, req.in, p)) =>
                       \E c \in Catalogues(req.in) : \E o, q \in Range(c.pkgs) :
                           o.id = p.id /\ \E d \in Told(c, q) : Answers(c, q, o, d)
                /\ Excludes(req.config, req.in, p) /\ req.in.prefix # "zarf:" => p.id \notin kept
                /\ p.id \in kept /\ req.in.prefix # "zarf:" => \A q \in Range(s.pkgs) :
                       q.id \in kept /\ pkg(q.id).distro # None => ~Answers(s, q, p, pkg(q.id).distro)

\* Whether the catalogue a package was taken from tells its distribution: of
\* the files of an archive, the first that lists the package.
KnowsDistro(in, id) ==
    LET listing == {i \in DOMAIN in.files : ~in.files[i].tooLarge /\ IsSBOM(in.files[i].content)
                                            /\ \E p \in Range(in.files[i].content.pkgs) : p.id = id}
        s == IF in.prefix = "zarf:" THEN in.files[Min(listing)].content ELSE in.content
    IN  \E p \in Range(s.pkgs) :
        /\ p.id = id
        /\ \/ p.purl # None /\ ~s.native /\ in.prefix \notin {"cpe:", "image"}
           \/ s.release # None /\ s.release.type # None /\ in.prefix \notin {"pkg:", "cpe:"}

\* The distribution the user names is the distribution of every package. Without
\* one, a package whose catalogue does not tell its distribution borrows that of
\* the others exactly when all of them agree: a package searched in the wrong
\* distribution's records is reported, or passed over, without cause
\* (provider.go:22-53, 333-359, package.go:633-642, zarf_provider.go:206-208).
DistroAgreed ==
    found # None =>
        LET known  == {<<p.distro.type, p.distro.version>> : p \in {p \in Range(found.pkgs) : p.distro # None}}
            wanted == req.config.override
        IN  \A p \in Range(found.pkgs) :
                IF wanted # None THEN p.distro # None /\ p.distro.type = wanted.type /\ p.distro.version = wanted.version
                ELSE IF KnowsDistro(req.in, p.id) THEN p.distro # None
                ELSE p.distro # None <=> Cardinality(known) = 1

\* Whatever way a distribution was found (the override, a package URL, the
\* release of a catalogue), the fix channels it ends up with are the ones the
\* user's settings allow for its version: never one that is switched off or
\* that starts with a later version, always one that is switched on
\* (provider.go:155-238, fix_channel.go:79-140: the first of the two passes over
\* a release lets through a channel its version excludes).
ChannelsAllowed ==
    found # None =>
        \A p \in Range(found.pkgs), c \in req.config.channels :
            (p.distro # None /\ p.distro.type \in c.ids) =>
                /\ c.name \in p.distro.channels => c.apply # "never" /\ Satisfied(c, p.distro.version) # "no"
                /\ (c.apply = "always" /\ Satisfied(c, p.distro.version) # "no") => c.name \in p.distro.channels

\* The table shows every finding, although rows that read the same are merged
\* and the column of the fixes is cut; the fix that is suggested is among the
\* ones shown, and it is the lowest one above the installed version whenever the
\* versions can be compared (table/presenter.go:301-431, models/match.go:91-146).
TableComplete ==
    doc # NoDocument =>
        LET rows == Range(getRows(doc, req.opts.showSuppressed))
        IN  \A m \in Range(doc.matches) :
                /\ \E r \in rows : /\ r.id = m.vuln.id /\ r.name = m.pkg.name /\ r.version = m.pkg.version /\ r.sev = m.vuln.sev
                                   /\ (m.vuln.state = "fixed" /\ m.suggested # None) => m.suggested \in Range(r.fix.shown)
                                   /\ r.fix.more \/ Range(r.fix.shown) = Range(m.vuln.fixes) \/ r.fix.text # "versions"
                /\ LET above == {v \in Range(m.vuln.fixes) : v # NotSemver /\ v > m.pkg.version}
                   IN  (NotSemver \notin Range(m.vuln.fixes) /\ above # {}) => m.suggested = Min(above)

\* The three kinds of report tell the same story: every finding is in each of
\* them, every SARIF result has its rule, and no format ranks a finding above
\* another whose severity is higher (sarif/presenter.go:77-127, 344-414,
\* cyclonedx/vulnerability.go:17-76, 165-184).
FormatsAgree ==
    doc # NoDocument =>
        LET results == sarifResults(doc)
            ruleIDs == {r.id : r \in Range(sarifRules(doc))}
            cdx     == NewVulnerability(doc)
            level(i) == CASE results[i].level = "error" -> 1 [] results[i].level = "warning" -> 2 [] OTHER -> 3
            cdxRank(i) == CASE cdx[i].severity = "unknown" -> 100 [] cdx[i].severity = "none" -> 5 [] OTHER -> severityPriority(cdx[i].severity)
        IN  /\ \A i \in DOMAIN doc.matches :
                 /\ results[i].rule \in ruleIDs
                 /\ cdx[i].id = doc.matches[i].vuln.id /\ cdx[i].affects = doc.matches[i].pkg.id
            /\ Cardinality(ruleIDs) = Len(sarifRules(doc))
            /\ \A i, j \in DOMAIN doc.matches :
                 severityPriority(doc.matches[i].vuln.sev) < severityPriority(doc.matches[j].vuln.sev) =>
                     level(i) <= level(j) /\ cdxRank(i) < cdxRank(j)

\* The explanation of an id lists every package with a finding about it or about
\* one that refers to it, with all the locations, in whatever order the findings
\* came; and it opens with the NVD's record when a finding about the id has one
\* (explain.go:109-325).
ExplainComplete ==
    \A i \in DOMAIN explained : \A id \in DOMAIN explained[i].findings :
        LET view   == explained[i].findings[id]
            refers(m) == id \in {r.id : r \in Range(m.vuln.related)}
            about  == {m \in Range(doc.matches) : m.vuln.id = id \/ refers(m)}
        IN  /\ {e.pkg : e \in view.packages} = {m.pkg.id : m \in about}
            /\ \A e \in view.packages : e.locs = UNION {m.pkg.locs : m \in {m \in about : m.pkg.id = e.pkg}}
            /\ (\E m \in about : m.vuln.id = id /\ m.vuln.ns = NVD) => view.primary = [id |-> id, ns |-> NVD]

\* Every run ends, under the fairness that the goroutines' calls return, the
\* event loop takes the events in turn and the program of the interface deals
\* with what it receives (util.go:59-77, ui.go:75-111).
Terminates == <>(exit # None)

\* However a run ends, it ends clean: with every report it owes and no other, no
\* event left in the queue and the database closed.
EndsClean ==
  /\ ReportDelivered
  /\ NothingOnFailure
  /\ NothingUnhandled
  /\ StoreReleased

\* The packages that are scanned are the right ones, in the right distribution
\* and its channels, in whatever order owners, exclusions, distributions and
\* channels are looked at.
PackagesRight ==
  /\ OwnersAnswer
  /\ DistroAgreed
  /\ ChannelsAllowed

\* Every format reports every finding.
ReportsComplete ==
  /\ TableComplete
  /\ FormatsAgree
  /\ ExplainComplete

=============================================================================
