-------------------------------- MODULE Scan --------------------------------
(***************************************************************************)
(* One scan, from its flags to its exit code (cmd/aiexpose main.go, run):  *)
(* the rules are loaded, the listeners identified, every check adds its    *)
(* findings, the findings are scored and the report is written.  What a    *)
(* check reads of the machine is chosen when it reads it.                  *)
(***************************************************************************)
EXTENDS Identify, KeySearch, ScanReport

CONSTANTS
    Hosts,       \* [os, home]: "windows", "user" (Unix, not root) or "root"; whether
                 \* the home folder is known
    Flags,       \* the flags of a scan
    RuleFiles,   \* what LoadRules can find
    HighValue, VectorStores,   \* signatures treated alike
    Configs,     \* risky flags in commands, variables, launch scripts: ConfigsAssumption
    Firewalls,   \* subset of {"on", "off", "unknown"}
    Routers,     \* sequences of the devices that answer: their mapping tables
    MaxMappings, \* rows read of a table (80 in the code)
    Weights,     \* the kinds of model files there are
    Supplies,    \* what the supply chain check meets: SuppliesAssumption
    NoRules      \* the rules when none are loaded

Flag == [noFeed : BOOLEAN, noUPnP : BOOLEAN, noSecrets : BOOLEAN, noModels : BOOLEAN,
         noSupply : BOOLEAN, history : BOOLEAN, docs : BOOLEAN, dirs : BOOLEAN,
         safe : BOOLEAN, failOn : {Low, Medium, High, Critical, 5}]  \* 5: not given
Rules == [loads : BOOLEAN, behind : BOOLEAN, indicators : BOOLEAN, patterns : BOOLEAN,
          exts : BOOLEAN, entries : BOOLEAN, stale : BOOLEAN, problems : BOOLEAN]
MappingRow == [port : Ports, kind : {"mapping", "zero", "fault"}]

ASSUME FlagsAssumption == Flags \subseteq Flag
ASSUME RulesAssumption ==
    RuleFiles \subseteq Rules /\ NoRules = [r \in DOMAIN NoRules |-> FALSE] /\ NoRules \in Rules
ASSUME ValueAssumption == HighValue \subseteq Sigs /\ VectorStores \subseteq Sigs
ASSUME ConfigsAssumption ==
    \A c \in Configs : /\ \A x \in c.commands : x.at \in Nat /\ x.flag \in {"--share", "--listen"}
                       /\ \A x \in c.scripts : x.shared \in BOOLEAN
                       /\ IsFiniteSet(c.commands) /\ IsFiniteSet(c.env) /\ IsFiniteSet(c.scripts)
ASSUME FirewallsAssumption == Firewalls \subseteq {"on", "off", "unknown"}
ASSUME RoutersAssumption ==
    /\ MaxMappings \in Nat \ {0}
    /\ Routers \subseteq Seq([maps : BOOLEAN, table : Seq(MappingRow)])
\* What an installed component is reported for: its code, as the indicators in the rules
\* have it; and whatever the rules are, an edited, unpinned or unofficial component, and
\* the answer of the malware hash index, or why it has none.
ASSUME SuppliesAssumption ==
    \A s \in Supplies :
        /\ s.baseline \in {"none", "there", "broken"}
        /\ \A f \in s.code : f.id = "SUP-001" /\ f.sev \in Info..Critical /\ f.mark = "scored"
        /\ \A f \in s.other :
               /\ f.id \in {"SUP-020", "SUP-040", "SUP-041",
                            "SUP-050", "SUP-051", "SUP-052", "SUP-053"}
               /\ f.sev \in Info..Critical /\ f.mark \in {"scored", "notrun"}
        /\ \A h \in s.hits : h.unresolved \in BOOLEAN /\ h.sev \in Info..Critical
        /\ \A c \in s.changes : c.type \in {"dangerous", "modified", "added", "removed"}
        /\ \A S \in {s.code, s.other, s.hits, s.changes} : IsFiniteSet(S)

VARIABLES
    pc,        \* the step of run that is next
    host, flags,
    rules,     \* the rules in use
    router,    \* the devices that answered the router check
    supply,    \* what the supply chain check met
    found,     \* the findings so far
    notes,     \* what the notes say, by the check they are about
    exit       \* the exit code, or -1

chosen == <<host, flags>>
vars == <<pc, chosen, machine, sockets, identifying, disk, searching, rules, router, supply,
          found, notes, exit>>

\* Safe mode turns the history and the router off.
Applied(f) == IF f.safe THEN [f EXCEPT !.history = FALSE, !.noUPnP = TRUE] ELSE f

Init ==
    /\ IdentifyInit /\ KeySearchInit
    /\ disk \in Disks
    /\ pc = "rules" /\ host \in Hosts
    /\ \E f \in Flags : flags = Applied(f)
    /\ rules = NoRules /\ router = <<>> /\ supply = None
    /\ found = {} /\ notes = {} /\ exit = -1

Add(fs) == found' = found \cup fs /\ UNCHANGED notes
Note(n) == notes' = notes \cup {n} /\ UNCHANGED found
Quiet == UNCHANGED <<found, notes>>
To(from, to) == pc = from /\ pc' = to

NotRun(id) == [Finding(id, Info, None) EXCEPT !.mark = "notrun"]
Advisory(id, sev) == [Finding(id, sev, None) EXCEPT !.mark = "advisory"]

-----------------------------------------------------------------------------
(* Rules and listeners. *)

\* Mutant: it takes both kinds of rule to be missing, and an empty list too.
NothingAtAll(r) == ~r.indicators /\ ~r.patterns /\ ~r.entries
NothingLoaded(r) == ~r.indicators /\ ~r.patterns

LoadRules ==
    /\ To("rules", "listen")
    /\ \/ flags.noFeed /\ rules' = NoRules /\ Note("rules")
       \/ /\ ~flags.noFeed
          /\ \E r \in RuleFiles :
                 /\ rules' = IF r.loads THEN r ELSE NoRules
                 /\ Add((IF ~r.loads \/ NothingLoaded(r) THEN {Advisory("RULE-001", Medium)} ELSE {})
                        \cup (IF r.loads /\ r.behind THEN {Advisory("RULE-002", Low)} ELSE {}))
    /\ UNCHANGED <<chosen, machine, sockets, identifying, disk, searching, router, supply, exit>>

\* Without the listeners there is nothing to identify, and the scan goes on.
Listen ==
    /\ To("listen", "identify") /\ Enumerate
    /\ IF sockets' = <<>> THEN Note("sockets") ELSE Quiet
    /\ UNCHANGED <<chosen, disk, searching, rules, router, supply, exit>>

Identifying ==
    /\ pc = "identify" /\ IdentifyNext
    /\ Quiet
    /\ UNCHANGED <<pc, chosen, disk, searching, rules, router, supply, exit>>

Identified ==
    /\ To("identify", "exposure") /\ Joined
    /\ Quiet
    /\ UNCHANGED <<chosen, machine, sockets, identifying, disk, searching, rules, router, supply, exit>>

Check(from, to) ==
    /\ To(from, to)
    /\ UNCHANGED <<chosen, machine, sockets, identifying, disk, rules, exit>>

-----------------------------------------------------------------------------
(* Exposure, configuration, firewall, router. *)

ExposureOf(s) ==
    LET f == CASE s.exposure = "any" ->
                      Finding("EXP-001", IF s.noAuth \/ s.name \in HighValue THEN Critical ELSE High, s)
               [] s.exposure = "lan" -> Finding("EXP-002", IF s.noAuth THEN High ELSE Medium, s)
               [] s.exposure = "loopback" /\ s.noAuth -> Finding("EXP-003", Low, s)
               [] OTHER -> Finding("EXP-000", Info, s)
    IN  [f EXCEPT !.store = s.name \in VectorStores]

Exposure ==
    /\ Check("exposure", "config")
    /\ Add({ExposureOf(s) : s \in services})
    /\ UNCHANGED <<searching, router, supply>>

\* A risky flag is reported once for the services of one name; the environment and
\* the launch scripts are read whether or not a service was found.
ConfigFindings(c) ==
    {Finding("CFG-001", IF x[1].flag = "--listen" THEN High ELSE Critical, <<x[1].flag, x[2].name>>) :
         x \in {x \in c.commands \X services : x[1].at = x[2].at}}
    \cup {Finding("CFG-002", IF v = "OLLAMA_ORIGINS" THEN Medium ELSE High, v) : v \in c.env}
    \cup {Finding("CFG-003", IF x.shared THEN Critical ELSE High, x.path) :
              x \in IF host.home THEN c.scripts ELSE {}}

Config ==
    /\ Check("config", "firewall")
    /\ \E c \in Configs : Add(ConfigFindings(c))
    /\ UNCHANGED <<searching, router, supply>>

Exposed == \E s \in services : s.exposure # "loopback"

\* Every way but the registry of Windows to read the firewall is a helper program.
FirewallFindings(fw) ==
    CASE fw = "unknown" /\ host.os = "user" -> {NotRun("FW-003")}
      [] fw = "unknown" /\ host.os # "user" -> {}
      [] fw = "on" -> {Finding("FW-000", Info, None)}
      [] fw = "off" /\ Exposed -> {Finding("FW-001", High, None)}
      [] fw = "off" /\ ~Exposed -> {Finding("FW-002", Low, None)}

Firewall ==
    /\ Check("firewall", "router")
    /\ \E fw \in IF flags.safe /\ host.os # "windows" THEN {"unknown"} ELSE Firewalls :
           IF FirewallFindings(fw) = {} THEN Note("firewall") ELSE Add(FirewallFindings(fw))
    /\ UNCHANGED <<searching, router, supply>>

\* listMappings: the rows before the end of the table; a fault in the first row is an
\* error, one in a later row passes for the end.
RowsOf(table) ==
    LET ends == {i \in DOMAIN table : table[i].kind # "mapping"}
    IN  SubSeq(table, 1, Min({Len(table), MaxMappings} \cup {i - 1 : i \in ends}))

Readable(table) == table = <<>> \/ table[1].kind # "fault"

\* discoverMappings: the first device with a port mapping service that answers.
Gateways(r) == {i \in DOMAIN r : r[i].maps /\ Readable(r[i].table)}

Forwards(r) == ToSet(RowsOf(r[Min(Gateways(r))].table))

PortForwarding ==
    /\ Check("router", "secrets")
    /\ \/ flags.noUPnP /\ Note("router") /\ UNCHANGED router
       \/ /\ ~flags.noUPnP
          /\ router' \in Routers
          /\ LET at(m) == {s \in services : sockets[s.at].port = m.port}
                 hits == {m \in Forwards(router') : at(m) # {}}
             IN  CASE Gateways(router') = {} -> Note("router")
                   [] Gateways(router') # {} /\ Forwards(router') = {} ->
                          Add({Finding("NAT-000", Info, None)})
                   [] Gateways(router') # {} /\ Forwards(router') # {} /\ hits = {} ->
                          Add({Finding("NAT-002", Low, None)})
                   [] OTHER -> Add({Finding("NAT-001", Critical, m) : m \in hits})
    /\ UNCHANGED <<searching, supply>>

-----------------------------------------------------------------------------
(* The credential search. *)

SkipSecrets ==
    /\ Check("secrets", "models")
    /\ flags.noSecrets \/ ~host.home
    /\ Note("secrets")
    /\ UNCHANGED <<searching, router, supply>>

KnownFiles ==
    /\ Check("secrets", "home")
    /\ ~flags.noSecrets /\ host.home
    /\ IF rules.patterns THEN ReadKnown(flags.history) ELSE UNCHANGED searching
    /\ Quiet /\ UNCHANGED <<router, supply>>

Home ==
    /\ Check("home", "roots")
    /\ IF rules.patterns /\ rules.exts THEN ReadHome(flags.docs, flags.dirs)
       ELSE UNCHANGED searching
    /\ Quiet /\ UNCHANGED <<router, supply>>

Roots ==
    /\ Check("roots", "roots") /\ WalkRoot
    /\ Quiet /\ UNCHANGED <<router, supply>>

RootsDone ==
    /\ Check("roots", "keys") /\ todo = {}
    /\ IF rules.patterns /\ rules.exts THEN Dedupe ELSE UNCHANGED searching
    /\ Quiet /\ UNCHANGED <<router, supply>>

\* Mutant: the limit is only mentioned when nothing was found.
ScopeIfClean(id) == IF id = "SEC-002" THEN "unsaid" ELSE Scope
ScopeOn(id) == Scope

ReportKeys ==
    /\ Check("keys", "models")
    /\ LET sec(id, sev, b, x) == IF b THEN {Finding(id, sev, x)} ELSE {}
       IN  found' = found
               \cup sec("SEC-001", High, hist # {}, <<Cardinality(hist), "unsaid">>)
               \cup sec("SEC-002", Medium, cfg # {}, <<Cardinality(cfg), ScopeOn("SEC-002")>>)
               \cup (IF rules.patterns
                     THEN (IF flags.history THEN {} ELSE {NotRun("SEC-003")})
                          \cup (IF flags.docs THEN {} ELSE {NotRun("SEC-004")})
                          \cup sec("SEC-000", Info, hist = {} /\ cfg = {},
                                   <<0, ScopeOn("SEC-000")>>)
                     ELSE {})
    /\ notes' = IF rules.patterns THEN notes ELSE notes \cup {"secrets"}
    /\ UNCHANGED <<searching, router, supply>>

-----------------------------------------------------------------------------
(* Models and supply chain. *)

\* The walk ends without a word when its time is up: it may have seen only part.
Seen(w) == {v \in [chosen : BOOLEAN, managed : BOOLEAN, safe : BOOLEAN] :
                \A k \in DOMAIN w : v[k] => w[k]}

\* Weights that run code when loaded, put there by a person or by a cache, and others.
WeightFindings(v) ==
    LET f(id, sev, b) == IF b THEN {Finding(id, sev, None)} ELSE {}
    IN  f("MDL-001", Medium, v.chosen) \cup f("MDL-002", Low, v.managed)
        \cup f("MDL-000", Info, v.safe)

ModelFormats ==
    /\ Check("models", "supply")
    /\ \/ flags.noModels /\ Note("models")
       \/ /\ ~flags.noModels
          /\ \E w \in Weights : \E v \in Seen(w) : Add(IF host.home THEN WeightFindings(v) ELSE {})
    /\ UNCHANGED <<searching, router, supply>>

\* reportFeedHits: an open question is not an accusation, and an empty list has
\* nothing to say.
ListFindings(hits) ==
    (IF rules.problems THEN {Advisory("SUP-033", Low)} ELSE {})
    \cup {IF h.unresolved THEN Finding("SUP-034", Medium, h.id)
                          ELSE Finding("SUP-030", h.sev, h.id) : h \in hits}
    \cup (CASE ~rules.entries -> {}
            [] rules.entries /\ rules.stale -> {Finding("SUP-031", Low, None)}
            [] rules.entries /\ ~rules.stale /\ hits = {} -> {Finding("SUP-032", Info, None)}
            [] OTHER -> {})

\* reportChanges: changes are told one by one, additions and removals together.
ChangeFindings(changes) ==
    LET of(t) == {c \in changes : c.type = t}
    IN  {Finding("SUP-010", Critical, c.id) : c \in of("dangerous")}
        \cup {Finding("SUP-011", High, c.id) : c \in of("modified")}
        \cup (IF of("added") # {} THEN {Finding("SUP-012", Low, of("added"))} ELSE {})
        \cup (IF of("removed") # {} THEN {Finding("SUP-013", Info, None)} ELSE {})
        \cup (IF changes = {} THEN {Finding("SUP-002", Info, None)} ELSE {})

\* The list is read as it was when the rules were; RuleFeed has what can come between.
SupplyChainCheck ==
    /\ Check("supply", "finish")
    /\ \/ flags.noSupply /\ Note("supply") /\ UNCHANGED supply
       \/ /\ ~flags.noSupply
          /\ supply' \in Supplies
          /\ found' = found
                 \cup supply'.other \cup (IF rules.indicators THEN supply'.code ELSE {})
                 \cup (IF rules.loads THEN ListFindings(IF rules.entries THEN supply'.hits ELSE {})
                                      ELSE {})
                 \cup (CASE supply'.baseline = "none" -> {Finding("SUP-000", Info, None)}
                         [] supply'.baseline = "there" -> ChangeFindings(supply'.changes)
                         [] supply'.baseline = "broken" -> {})
          /\ notes' = notes \cup (IF supply'.baseline = "broken" THEN {"baseline"} ELSE {})
                            \cup (IF rules.loads THEN {} ELSE {"list"})
    /\ UNCHANGED <<searching, router>>

-----------------------------------------------------------------------------
(* The report is scored and written; a report that cannot be written fails the
   run before its findings can. *)

Finish ==
    /\ To("finish", "done")
    /\ IF flags.safe THEN Note("safe") ELSE Quiet
    /\ \/ exit' = 2
       \/ exit' = IF \E f \in found : f.sev >= flags.failOn THEN 1 ELSE 0
    /\ UNCHANGED <<chosen, machine, sockets, identifying, disk, searching, rules, router, supply>>

Exited == pc = "done" /\ UNCHANGED vars

Next ==
    \/ LoadRules \/ Listen \/ Identifying \/ Identified
    \/ Exposure \/ Config \/ Firewall \/ PortForwarding
    \/ SkipSecrets \/ KnownFiles \/ Home \/ Roots \/ RootsDone \/ ReportKeys
    \/ ModelFormats \/ SupplyChainCheck \/ Finish \/ Exited

Spec == Init /\ [][Next]_vars

-----------------------------------------------------------------------------
TypeOK ==
    /\ pc \in {"rules", "listen", "identify", "exposure", "config", "firewall", "router",
               "secrets", "home", "roots", "keys", "models", "supply", "finish", "done"}
    /\ host \in Hosts /\ flags \in Flag /\ rules \in Rules
    /\ machine \in {n.there : n \in Networks} /\ sockets \in {n.shown : n \in Networks} \cup {<<>>}
    /\ next \in 1..(Len(sockets) + 1) /\ gor \in [Listeners -> Stages]
    /\ services \subseteq Service /\ Cardinality(Talking) <= MaxParallel
    /\ disk \in Disks /\ budget \in Int /\ cut \in BOOLEAN
    /\ todo \cup {searched[i].root : i \in DOMAIN searched} \subseteq DOMAIN disk.roots
    /\ {Place(h) : h \in hist \cup cfg} \subseteq Files \X Keys
    /\ \A f \in found : f.sev \in Info..Critical /\ f.mark \in Marks
    /\ Score(found) \in 0..100 /\ Grade(found) \in {"A", "B", "C", "D", "F"}
    /\ exit \in {-1, 0, 1, 2}

\* A service anyone on the network can use: its process answers in time and without
\* credentials, nothing else answers for it, and the catalog has it for this port or
\* for this process.
OpenToAll(k) ==
    /\ k.addr = "any" /\ ~k.slow /\ Behind(k) = {k}
    /\ \E g \in ToSet(Claimants[k.port]) \cup {k.hint} : k.looks = {g} /\ g \in k.opens

\* A service the local network can reach. Its process is never asked, as requests go
\* to loopback; its name tells what it is, or its port.
OnTheLAN(k) ==
    k.addr = "lan" /\ k.port \notin Ephemeral /\ (k.hint # None \/ Len(Claimants[k.port]) = 1)

\* A service the router forwards the internet to, by a row that the first device with
\* a port mapping service delivers, before one it cannot.
Forwarded(s) ==
    /\ Gateways(router) # {}
    /\ LET table == router[Min(Gateways(router))].table
       IN  \E n \in DOMAIN table :
               /\ n <= MaxMappings /\ table[n].port = sockets[s.at].port
               /\ \A m \in 1..n : table[m].kind = "mapping"

Passes(level) == exit = 0 /\ flags.failOn <= level

\* Whoever reads only the grade or the exit code is not misled: with a grade of A or
\* B, or an exit code of 0 under --fail-on, the scan was shown no service that is
\* open to all of the network without credentials, and none that was found is
\* forwarded from the internet. Of services bound to a LAN address, open or not, it
\* says less: EXP-002 costs ten points, which is still an A, and only a score above
\* 90 or an exit code of 0 under --fail-on medium means that there is none (Identify,
\* Exposure, PortForwarding, Finalize, run). It says nothing of services the scan was
\* not shown; if it was shown nothing at all, the notes say so (NoSilentGap).
AGoodReportIsTrue ==
    pc = "done" =>
        /\ Grade(found) \in {"A", "B"} \/ Passes(Critical) =>
               /\ \A k \in machine : OpenToAll(k) => k \notin ToSet(sockets)
               /\ \A s \in services : ~Forwarded(s)
        /\ Score(found) > 90 \/ Passes(Medium) =>
               \A k \in machine : OnTheLAN(k) => k \notin ToSet(sockets)

Searched == pc \in {"models", "supply", "finish", "done"} /\ rules.patterns
            /\ ~flags.noSecrets /\ host.home

\* When no limit stopped the search, the report counts each key in reach exactly once,
\* whatever order the folders come in, however they overlap with one another and with
\* the files known by name, and whatever in between could not be read. A key is
\* counted once per path: one in a folder that two paths lead to is counted twice,
\* which dedupeHits was written to prevent (it compares paths). Out of reach are a
\* home folder that cannot be listed, a root that is a link, a file that cannot be
\* opened and what follows a line of more than 1 MiB, keys beyond the limit for one
\* file, and a folder whose path differs from that of an earlier one only in case.
\* (With rules that name no kind of file only files known by name are read, and one
\* that two names lead to is counted twice.)
KeysInReachAreCounted ==
    Searched /\ rules.exts /\ ~cut =>
        LET keys == KeysIn(InReach(flags.docs, flags.dirs))
        IN  {f.about[1] : f \in {f \in found : f.id = "SEC-002"}} =
                IF keys = {} THEN {} ELSE {Cardinality(keys)}

\* A search that a limit stopped says so wherever it was stopped, also in the home
\* folder, and whether or not it found keys; which folder it was is marked for the
\* roots only, though the sentence always speaks of "the folder marked above". When
\* keys were found in shell history and nowhere else, nothing is said (see
\* ScopeIsAlwaysSaid). A home folder that could not be listed and a file that could
\* not be opened are named and counted as searched.
UnreadIsTold ==
    Searched =>
        /\ UnreadIsMarked
        /\ rules.exts /\ ~(FilesIn(HomeListing) \subseteq FilesRead) => cut
        /\ cut /\ ~(hist # {} /\ cfg = {}) =>
               \E f \in found : f.id \in {"SEC-000", "SEC-002"} /\ f.about[2] = "cut"

\* What scopeSentence is said to do, to go "on every credential finding, not just the
\* empty one": the code puts it on SEC-000 and SEC-002 and leaves SEC-001 without.
ScopeIsAlwaysSaid ==
    Searched /\ read # {} =>
        \A f \in found : f.id \in {"SEC-000", "SEC-001", "SEC-002"} => f.about[2] # "unsaid"

Remarks == notes \cup {f.id : f \in {f \in found : f.mark # "scored"}}
Results == {f.id : f \in {f \in found : f.mark = "scored"}}

\* The firewall, the router, the search for keys, the list of known-bad components and
\* the baseline have a result or a remark, whatever the combination of flags, rules,
\* host and failures; so have missing listeners and rules and the checks a flag turned
\* off. Silent in the code, and excepted here, are four gaps: the model check without
\* a home folder, out of time or without models (models.go:126, 160); the launch
\* scripts without a home folder (launch.go:225); the inspection of code when only
\* patterns for keys are loaded (RULE-001 takes both kinds to be missing, rules.go:96);
\* and an empty list beside rules of either kind, where supply.go:230 relies on a
\* RULE-001 that is not there.
NoSilentGap ==
    pc = "done" =>
        /\ {"FW-000", "FW-001", "FW-002"} \cap Results # {} \/ {"firewall", "FW-003"} \cap Remarks # {}
        /\ {"NAT-000", "NAT-001", "NAT-002"} \cap Results # {} \/ "router" \in Remarks
        /\ {"SEC-000", "SEC-001", "SEC-002"} \cap Results # {} \/ "secrets" \in Remarks
        /\ flags.history \/ {"SEC-003", "secrets"} \cap Remarks # {}
        /\ rules.indicators \/ rules.patterns \/ {"rules", "RULE-001"} \cap Remarks # {}
        /\ \/ {"SUP-030", "SUP-031", "SUP-032", "SUP-034"} \cap Results # {}
           \/ {"supply", "list", "RULE-001"} \cap Remarks # {}
           \/ ~rules.entries /\ (rules.indicators \/ rules.patterns)
        /\ \/ {"SUP-000", "SUP-002", "SUP-010", "SUP-011", "SUP-012", "SUP-013"} \cap Results # {}
           \/ {"supply", "baseline"} \cap Remarks # {}
        /\ flags.noModels => "models" \in Remarks
        /\ flags.noSupply => "supply" \in Remarks
        /\ sockets = <<>> => "sockets" \in Remarks

\* The control table shows what the findings do: every finding that costs points is
\* named in the row of some risk, and the row is at least as severe as it is. Two
\* kinds cost points and are in no row (control.go, byFinding): SUP-034, a component
\* whose version could not be compared with the known-bad list (10 points), and
\* SUP-051, a malware hash index that is there but cannot be read (4 points).
TableShowsTheWorst ==
    pc = "done" =>
        \A f \in found :
            f.mark = "scored" /\ f.sev > Info /\ f.id \notin {"SUP-034", "SUP-051"} =>
                \E r \in Risks : f.id \in Coverage(found)[r].ids /\ Coverage(found)[r].sev >= f.sev
=============================================================================
