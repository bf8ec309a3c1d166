-------------------------------- MODULE Gate --------------------------------
(***************************************************************************)
(* aiexpose ci: the gate a repository runs on the AI components it ships   *)
(* (internal/ci, internal/policy, internal/supply/project.go).             *)
(*                                                                         *)
(* A run reads the policy, loads the rules, inventories the repository,    *)
(* loads the feed again for its known-bad list, compares with the lockfile *)
(* and, with --write-lock, replaces it.  Each of these is a step: between  *)
(* them files change, days pass, the feed is replaced, the job is killed.  *)
(* One run at a time works in a checkout.                                  *)
(***************************************************************************)
EXTENDS FeedMatch, FiniteSets

CONSTANTS
    Places,       \* where the repository can hold a component
    Id, Name,     \* Id[p], Name[p]: of the component at p; IDs can be shared
    Under,        \* Under[x]: the places below path prefix x
    Contents,     \* records [digest, danger, server, parses, unpinned, package,
                  \* version, files]
    Policies,     \* records [level, exemptions], level for the rules it names
    Feeds,        \* records [entries, rules]: what a verified rule file holds
    Options,      \* the flags a run is given, [write, noFeed, root]
    Start,        \* the states a repository starts in, [repo, feed]
    MaxDay,       \* bound on the days that pass
    MaxEvents,    \* bound on the changes to repository, policy, lock and feed,
                  \* failed writes, refused reads, budgets used up, killed jobs
    NumberDigits, SuffixDigits, Radix, Scale, \* the reference for versions, below
    Absent, Unreadable, Malformed

Rules == {"known_bad", "risk_indicator", "unpinned_package", "lock_drift",
          "unlocked_component"}
Levels == {"error", "warn", "ignore"}

\* Default: it fails on what is unambiguously wrong.
DefaultPolicy ==
    [level |-> [r \in Rules |-> IF r \in {"unpinned_package", "unlocked_component"}
                                THEN "warn" ELSE "error"],
     exemptions |-> {}]

\* An exemption names a rule, any of component, package and path, and a date.
Exemptions == [rule : Rules, component : {Name[p] : p \in Places} \cup {None},
               package : {c.package : c \in Contents} \cup {None},
               path : DOMAIN Under \cup {None}, expires : Nat \cup {None, Malformed}]

Flags == [write : BOOLEAN, noFeed : BOOLEAN, root : {"dir", "file", "gone"}]

ASSUME PlacesAssumption == DOMAIN Id = Places /\ DOMAIN Name = Places
ASSUME ContentsAssumption == \A c \in Contents :
    {c.danger, c.server, c.parses, c.unpinned} \subseteq BOOLEAN /\ c.version \in Versions
ASSUME PoliciesAssumption == \A p \in Policies :
    p.level \in UNION {[R -> Levels] : R \in SUBSET Rules} /\ p.exemptions \subseteq Exemptions
ASSUME FeedsAssumption == \A f \in Feeds : f.rules \in BOOLEAN
ASSUME StartAssumption == \A s \in Start :
    s.repo \in [Places -> Contents \cup {Absent}] /\ s.feed \in Feeds \cup {None}
ASSUME OptionsAssumption == Options \subseteq Flags
ASSUME LimitsAssumption == {MaxDay, MaxEvents} \subseteq Nat
ASSUME DistinctAssumption ==
    /\ Absent \notin Contents /\ Unreadable \notin Policies /\ Absent \notin Policies
    /\ None \notin Feeds /\ {None, Malformed} \cap Nat = {} /\ None # Malformed
    /\ Absent # Unreadable

VARIABLES
    repo,         \* repo[p]: the content at p, or Absent
    policyFile,   \* .aiexpose.json: a policy, Absent, or Unreadable
    lockFile,     \* aiexpose.lock.json: a set of [id, digest], Absent, or Unreadable
    feed,         \* what feed.Load returns now; None: an error
    day,
    pc, opt,      \* the next step of the run, its flags
    pol,          \* the policy it enforces
    ruled,        \* detection rules are installed
    inv, cut,     \* the inventory; whether the budget was spent
    viols, notes, \* what it reports: violations, what could not be done,
    lapsed,       \* and exemptions that have expired
    exit,         \* its exit code
    events,       \* the bound used up
    reviewed,     \* history: what completed --write-lock runs have recorded
    agreed,       \* history: the lockfile was written from a complete inventory
                  \* of the repository as it is
    checked,      \* history: [lock, agreed, list], what this run compared with
    missed,       \* history: the places whose files it was refused, all or some
    calm          \* history: nothing has changed since the run started

files == <<repo, policyFile, lockFile, feed, day>>
result == <<pol, ruled, inv, cut, viols, notes, lapsed, exit>>
run == <<pc, opt, result>>
history == <<reviewed, agreed, checked, missed, calm>>
vars == <<files, run, events, history>>

Stages == {"idle", "policy", "rules", "walk", "assess", "feed", "lock", "save",
           "output", "done"}
Entry == [id : {Id[p] : p \in Places}, digest : {c.digest : c \in Contents} \X BOOLEAN]

\* What stands for no lockfile, and for one that cannot be read, is not a lockfile.
ASSUME LockAssumption == \A S \in SUBSET Entry : S # Absent /\ S # Unreadable

NoFlags == [write |-> FALSE, noFeed |-> FALSE, root |-> "dir"]
Unchecked == [lock |-> None, agreed |-> FALSE, list |-> None]

Init ==
    /\ \E s \in Start : repo = s.repo /\ feed = s.feed
    /\ policyFile \in Policies \cup {Absent}
    /\ lockFile = Absent
    /\ day = 0
    /\ pc = "idle" /\ opt = NoFlags
    /\ pol = DefaultPolicy /\ ruled = FALSE
    /\ inv = {} /\ cut = FALSE /\ viols = {} /\ notes = {} /\ lapsed = {} /\ exit = None
    /\ events = 0
    /\ reviewed = {} /\ agreed = FALSE /\ checked = Unchecked
    /\ missed = {} /\ calm = TRUE

Event == events < MaxEvents /\ events' = events + 1

Step(from, to) == pc = from /\ pc' = to /\ UNCHANGED opt

\* The run returns an error.
Fails == /\ exit' = 2 /\ pc' = "done"
         /\ UNCHANGED <<opt, pol, ruled, inv, cut, viols, notes, lapsed>>

-----------------------------------------------------------------------------
(* Policy. *)

\* matches: every field that is set agrees, and one is set.
Applies(e, c) ==
    /\ ~(e.component = None /\ e.package = None /\ e.path = None)
    /\ e.component \in {None, c.name}
    /\ e.package \in {None, c.package}
    /\ e.path # None => c.place \in Under[e.path]

\* An exemption holds through its date; a date that cannot be read has passed.
Expired(e) == e.expires # None /\ (e.expires = Malformed \/ day > e.expires)

\* Mutant: the date is not looked at.
ExemptForever(r, c) == \E e \in pol.exemptions : e.rule = r /\ Applies(e, c)

Exempt(r, c) == \E e \in pol.exemptions : e.rule = r /\ Applies(e, c) /\ ~Expired(e)

\* Mutant: a rule that is ignored is reported.
RaisedIgnored(r, S, open) ==
    {[rule |-> r, place |-> c.place, level |-> pol.level[r],
      waived |-> Exempt(r, c), open |-> open] : c \in S}

\* add: one violation for each component of S, none when the rule is ignored.
Raised(r, S, open) ==
    {[rule |-> r, place |-> c.place, level |-> pol.level[r],
      waived |-> Exempt(r, c), open |-> open] :
        c \in {d \in S : pol.level[r] # "ignore"}}

\* unevaluableRules: the rules that needed the feed, at the worst of their levels.
Asked == {pol.level[r] : r \in {"risk_indicator", "known_bad"}} \ {"ignore"}

\* Mutant: the gate only warns that it could not check.
UnevaluableWarns ==
    IF opt.noFeed \/ ruled \/ Asked = {} THEN {}
    ELSE {[rule |-> "risk_indicator", place |-> None, level |-> "warn",
           waived |-> FALSE, open |-> FALSE]}

Unevaluable ==
    IF opt.noFeed \/ ruled \/ Asked = {} THEN {}
    ELSE {[rule |-> "risk_indicator", place |-> None,
           level |-> IF "error" \in Asked THEN "error" ELSE "warn",
           waived |-> FALSE, open |-> FALSE]}

Failing == \E v \in viols : v.level = "error" /\ ~v.waived

-----------------------------------------------------------------------------
(* The inventory. *)

\* What a walk records of the content at p.  A component whose files were not
\* all read has another digest; one that was not scanned shows no danger.  A server
\* is one entry of a file, read whole.
Component(p, whole, scanned) ==
    [place |-> p, id |-> Id[p], name |-> Name[p],
     digest |-> <<repo[p].digest, whole \/ repo[p].server>>,
     danger |-> repo[p].danger /\ scanned /\ ruled,
     unpinned |-> repo[p].unpinned, package |-> repo[p].package,
     version |-> repo[p].version, files |-> repo[p].files]

Present == {p \in Places : repo[p] # Absent}

NewLock(S) == {[id |-> c.id, digest |-> c.digest] : c \in S}

\* Index: the components of a lockfile by ID, any one of those that share it.
Indexes(lock) ==
    {f \in [{e.id : e \in lock} -> {e.digest : e \in lock}] :
        \A i \in DOMAIN f : [id |-> i, digest |-> f[i]] \in lock}

DistinctIds(S) == \A c, d \in S : c.id = d.id => c = d

-----------------------------------------------------------------------------
(* The run. *)

StartRun(o) ==
    /\ pc \in {"idle", "done"}
    /\ pc' = "policy" /\ opt' = o
    /\ pol' = DefaultPolicy /\ ruled' = FALSE
    /\ inv' = {} /\ cut' = FALSE /\ viols' = {} /\ notes' = {} /\ lapsed' = {} /\ exit' = None
    /\ checked' = Unchecked /\ missed' = {} /\ calm' = TRUE
    /\ UNCHANGED <<files, events, reviewed, agreed>>

\* policy.Load: a rule the file does not name keeps its default.
LoadPolicy ==
    \/ /\ policyFile # Unreadable
       /\ Step("policy", "rules")
       /\ pol' = IF policyFile = Absent THEN DefaultPolicy
                 ELSE [level |-> [r \in Rules |-> IF r \in DOMAIN policyFile.level
                                     THEN policyFile.level[r] ELSE DefaultPolicy.level[r]],
                       exemptions |-> policyFile.exemptions]
       /\ UNCHANGED <<files, ruled, inv, cut, viols, notes, lapsed, exit, events, history>>
    \/ /\ policyFile = Unreadable /\ pc = "policy"
       /\ Fails
       /\ UNCHANGED <<files, events, history>>

\* installRules, the first load of the feed.
InstallRules ==
    /\ Step("rules", "walk")
    /\ ruled' = (~opt.noFeed /\ feed # None /\ feed.rules)
    /\ notes' = IF ~opt.noFeed /\ feed = None THEN {"no rules"} ELSE {}
    /\ UNCHANGED <<files, pol, inv, cut, viols, lapsed, exit, events, history>>

\* TakeProject: a place is passed over when its configuration cannot be parsed.
\* A root that is a file has no components, one that is not there is an error.
TakeProject ==
    \/ /\ opt.root # "gone"
       /\ Step("walk", "assess")
       /\ inv' = {Component(p, TRUE, TRUE) :
                     p \in {q \in Present : opt.root = "dir" /\ repo[q].parses}}
       /\ UNCHANGED <<files, pol, ruled, cut, viols, notes, lapsed, exit, events, history>>
    \/ /\ opt.root = "gone" /\ pc = "walk"
       /\ Fails
       /\ UNCHANGED <<files, events, history>>

\* What the file system refuses is left out without a word: a folder that cannot
\* be listed or a file that cannot be opened takes its component along, or is
\* only missing from its digest and its indicators.
TakeProjectRefused ==
    /\ opt.root = "dir" /\ Event
    /\ Step("walk", "assess")
    /\ \E M \in SUBSET {q \in Present : repo[q].parses} : \E partly \in SUBSET M, blind \in SUBSET M :
          /\ \A p \in partly : ~repo[p].server
          /\ blind \subseteq partly
          /\ inv' = {Component(p, p \notin M, p \notin blind) :
                        p \in {q \in Present : repo[q].parses} \ (M \ partly)}
          /\ missed' = M
    /\ UNCHANGED <<files, pol, ruled, cut, viols, notes, lapsed, exit,
                   reviewed, agreed, checked, calm>>

\* The budget is spent on the way: the places reached are recorded, the last of
\* them perhaps without its indicators or with some of its files only.
TakeProjectCut ==
    /\ opt.root = "dir" /\ Event
    /\ Step("walk", "assess")
    /\ \E S \in SUBSET {q \in Present : repo[q].parses}, last \in Places :
          \E whole \in BOOLEAN :
             inv' = {Component(p, p # last \/ whole, p # last) : p \in S}
    /\ cut' = TRUE
    /\ notes' = notes \cup {"cut"}
    /\ UNCHANGED <<files, pol, ruled, viols, lapsed, exit, history>>

\* What the rules could not be asked, the exemptions that have expired, and what
\* the inventory alone shows.
Assess ==
    /\ Step("assess", "feed")
    /\ viols' = Unevaluable \cup Raised("risk_indicator", {c \in inv : c.danger}, FALSE)
                            \cup Raised("unpinned_package", {c \in inv : c.unpinned}, FALSE)
    /\ lapsed' = {e \in pol.exemptions : Expired(e)}
    /\ UNCHANGED <<files, pol, ruled, inv, cut, notes, exit, events, history>>

\* feedViolations, the second load: without a feed there is a note and nothing
\* else.
MatchFeed ==
    /\ Step("feed", "lock")
    /\ IF opt.noFeed THEN UNCHANGED <<viols, notes, checked>>
       ELSE IF feed = None
       THEN notes' = notes \cup {"no list"} /\ UNCHANGED <<viols, checked>>
       ELSE /\ LET hits == Hits({feed.entries[i] : i \in DOMAIN feed.entries}, inv)
               IN  viols' = viols \cup UNION {Raised("known_bad", {h.comp}, h.unresolved) :
                                                 h \in hits}
            /\ checked' = [checked EXCEPT !.list = feed]
            /\ UNCHANGED notes
    /\ UNCHANGED <<files, pol, ruled, inv, cut, lapsed, exit, events,
                   reviewed, agreed, missed, calm>>

\* Mutant: two lists of names are compared, not what the names stand for.
DriftedByName(locked, c) == c.id \notin DOMAIN locked

Drifted(locked, c) == c.id \in DOMAIN locked /\ locked[c.id] # c.digest

\* LoadLock and lockViolations.  A lockfile that cannot be read ends the run,
\* before it could be written anew.
CompareLock ==
    \/ /\ lockFile # Unreadable
       /\ Step("lock", IF opt.write THEN "save" ELSE "output")
       /\ IF lockFile = Absent
          THEN notes' = notes \cup {"no lock"} /\ UNCHANGED viols
          ELSE /\ \E locked \in Indexes(lockFile) :
                    viols' = viols
                        \cup Raised("unlocked_component",
                                    {c \in inv : c.id \notin DOMAIN locked}, FALSE)
                        \cup Raised("lock_drift", {c \in inv : Drifted(locked, c)}, FALSE)
               /\ UNCHANGED notes
       /\ checked' = [checked EXCEPT !.lock = lockFile, !.agreed = agreed]
       /\ UNCHANGED <<files, pol, ruled, inv, cut, lapsed, exit, events,
                      reviewed, agreed, missed, calm>>
    \/ /\ lockFile = Unreadable /\ pc = "lock"
       /\ Fails
       /\ UNCHANGED <<files, events, history>>

\* Mutant: components are added to the lockfile that is there.
SaveLockMerging ==
    /\ Step("save", "output")
    /\ lockFile' = NewLock(inv) \cup (IF lockFile \in {Absent, Unreadable} THEN {} ELSE lockFile)
    /\ reviewed' = reviewed \cup NewLock(inv)
    /\ agreed' = (calm /\ ~cut /\ missed = {} /\ opt.root = "dir")
    /\ UNCHANGED <<repo, policyFile, feed, day, result, events, checked, missed, calm>>

\* SaveLock: the file is written in place.
SaveLock ==
    /\ Step("save", "output")
    /\ lockFile' = NewLock(inv)
    /\ reviewed' = reviewed \cup NewLock(inv)
    /\ agreed' = (calm /\ ~cut /\ missed = {} /\ opt.root = "dir")
    /\ UNCHANGED <<repo, policyFile, feed, day, result, events, checked, missed, calm>>

\* The write fails, before or after the file was emptied.
SaveLockFails ==
    /\ pc = "save" /\ Event
    /\ Fails
    /\ \/ lockFile' = Unreadable /\ agreed' = FALSE
       \/ UNCHANGED <<lockFile, agreed>>
    /\ UNCHANGED <<repo, policyFile, feed, day, reviewed, checked, missed, calm>>

\* runCI: SARIF or JSON that cannot be written is an error; else the violations
\* decide.
Output ==
    \/ /\ Step("output", "done")
       /\ exit' = IF Failing THEN 1 ELSE 0
       /\ UNCHANGED <<files, pol, ruled, inv, cut, viols, notes, lapsed, events, history>>
    \/ /\ pc = "output" /\ Event
       /\ Fails
       /\ UNCHANGED <<files, history>>

\* The job is killed; a lockfile that was being written can be left in part.
Killed ==
    /\ pc \notin {"idle", "done"} /\ Event
    /\ pc' = "idle" /\ opt' = NoFlags
    /\ \/ UNCHANGED <<lockFile, agreed>>
       \/ pc = "save" /\ lockFile' = Unreadable /\ agreed' = FALSE
    /\ pol' = DefaultPolicy /\ ruled' = FALSE
    /\ inv' = {} /\ cut' = FALSE /\ viols' = {} /\ notes' = {} /\ lapsed' = {} /\ exit' = None
    /\ checked' = Unchecked /\ missed' = {}
    /\ UNCHANGED <<repo, policyFile, feed, day, reviewed, calm>>

-----------------------------------------------------------------------------
(* Around the run: commits, feed updates, days. *)

Change == Event /\ calm' = FALSE

ChangeComponent(p, c) ==
    /\ Change /\ repo[p] # c
    /\ repo' = [repo EXCEPT ![p] = c]
    /\ agreed' = FALSE
    /\ UNCHANGED <<policyFile, lockFile, feed, day, run, reviewed, checked, missed>>

ChangePolicy(f) ==
    /\ Change /\ policyFile # f
    /\ policyFile' = f
    /\ UNCHANGED <<repo, lockFile, feed, day, run, reviewed, agreed, checked, missed>>

\* The lockfile is deleted, or left with the marks of a merge.
ChangeLock(f) ==
    /\ Change /\ lockFile # f
    /\ lockFile' = f
    /\ agreed' = FALSE
    /\ UNCHANGED <<repo, policyFile, feed, day, run, reviewed, checked, missed>>

\* The rule cache is replaced, or its two files do not belong together.
ChangeFeed(f) ==
    /\ Change /\ feed # f
    /\ feed' = f
    /\ UNCHANGED <<repo, policyFile, lockFile, day, run, reviewed, agreed, checked, missed>>

Midnight ==
    /\ day < MaxDay /\ day' = day + 1
    /\ UNCHANGED <<repo, policyFile, lockFile, feed, run, events, history>>

RunNext ==
    \/ \E o \in Options : StartRun(o)
    \/ LoadPolicy \/ InstallRules
    \/ TakeProject \/ TakeProjectRefused \/ TakeProjectCut \/ Assess
    \/ MatchFeed \/ CompareLock \/ SaveLock \/ SaveLockFails \/ Output \/ Killed

Next ==
    \/ RunNext
    \/ \E p \in Places, c \in Contents \cup {Absent} : ChangeComponent(p, c)
    \/ \E f \in Policies \cup {Absent, Unreadable} : ChangePolicy(f)
    \/ \E f \in {Absent, Unreadable} : ChangeLock(f)
    \/ \E f \in Feeds \cup {None} : ChangeFeed(f)
    \/ Midnight

Spec == Init /\ [][Next]_vars

-----------------------------------------------------------------------------
Components == [place : Places, id : {Id[p] : p \in Places}, name : {Name[p] : p \in Places},
    digest : {c.digest : c \in Contents} \X BOOLEAN, danger : BOOLEAN, unpinned : BOOLEAN,
    package : {c.package : c \in Contents}, version : {c.version : c \in Contents},
    files : {c.files : c \in Contents}]

Violations == [rule : Rules, place : Places \cup {None}, level : Levels \ {"ignore"},
               waived : BOOLEAN, open : BOOLEAN]

IsPolicy(p) == p.level \in [Rules -> Levels] /\ p.exemptions \subseteq Exemptions

\* Every variable has its type.
TypeOK ==
    /\ repo \in [Places -> Contents \cup {Absent}]
    /\ policyFile \in Policies \cup {Absent, Unreadable}
    /\ lockFile \in (SUBSET Entry) \cup {Absent, Unreadable}
    /\ feed \in Feeds \cup {None} /\ day \in 0..MaxDay
    /\ pc \in Stages
    /\ opt \in Flags
    /\ IsPolicy(pol)
    /\ ruled \in BOOLEAN /\ cut \in BOOLEAN /\ inv \subseteq Components
    /\ viols \subseteq Violations
    /\ notes \subseteq {"no rules", "cut", "no list", "no lock"} /\ lapsed \subseteq Exemptions
    /\ exit \in {None, 0, 1, 2}
    /\ events \in 0..MaxEvents
    /\ reviewed \subseteq Entry
    /\ agreed \in BOOLEAN /\ calm \in BOOLEAN /\ missed \subseteq Places
    /\ checked \in [lock : (SUBSET Entry) \cup {None, Absent}, agreed : BOOLEAN,
                    list : Feeds \cup {None}]

-----------------------------------------------------------------------------
(* What a gate must get right. *)

\* A reference for versions: the number they are when each of their parts, and then
\* each character of the suffix, is a digit of one positional system.  Scale[v][n]
\* is the value of the first n digits.  A release has the highest digits where
\* others have a suffix.  A suffix of any kind puts a version below its release: a
\* post-release too, as in version.go.
Digit(v, i) ==
    IF i <= NumberDigits THEN Part(Nums(v), i)
    ELSE IF Pre(v) = <<>> THEN Radix[i] - 1
    ELSE IF i - NumberDigits \in DOMAIN Pre(v) THEN Pre(v)[i - NumberDigits] + 1 ELSE 0

Digits == NumberDigits + SuffixDigits
Weight(v) == Scale[v][Digits]

EntriesOf(f) == {f.entries[i] : i \in DOMAIN f.entries}
Compared ==
    {c.version : c \in Contents} \cup
    UNION {UNION {e.versions \cup {r.intro : r \in e.ranges} \cup {r.fixed : r \in e.ranges} :
                    e \in EntriesOf(f)} : f \in Feeds}

\* The digits are as many, and their radices as large, as the versions at hand need:
\* for any finite set of them there are such.
ASSUME DigitsAssumption ==
    /\ NumberDigits \in Nat /\ SuffixDigits \in Nat \ {0} /\ Radix \in [1..Digits -> Nat \ {0}]
    /\ \A v \in Compared : Parsed(v) =>
          /\ v \in Versions /\ Numbers(v) <= NumberDigits /\ Len(Pre(v)) <= SuffixDigits
          /\ \A i \in 1..Digits : Digit(v, i) < Radix[i]
          /\ \A i \in DOMAIN Pre(v) : Pre(v)[i] + 1 < Radix[NumberDigits + i] - 1
ASSUME ScaleAssumption == \A v \in Compared : Parsed(v) =>
    /\ Scale[v] \in [0..Digits -> Nat] /\ Scale[v][0] = 0
    /\ \A n \in 1..Digits : Scale[v][n] = Scale[v][n - 1] * Radix[n] + Digit(v, n)

Inside(r, v) ==
    /\ r.intro = NoVersion \/ Weight(r.intro) <= Weight(v)
    /\ r.fixed = NoVersion \/ Weight(v) < Weight(r.fixed)

\* Whether entry e is about component c, and whether c is one of the versions it
\* is about, as the author of a correct entry means it.
Names(e, c) ==
    CASE e.kind = "package" -> c.package = e.match
      [] e.kind = "artifact_digest" -> c.digest = e.match
      [] e.kind = "file_digest" -> e.match \in c.files
      [] OTHER -> c.name = e.match

Affects(e, c) ==
    /\ Names(e, c)
    /\ \/ c.version = NoVersion
       \/ e.versions \cup e.ranges = {}
       \/ /\ Parsed(c.version)
          /\ \/ \E w \in e.versions : Weight(w) = Weight(c.version)
             \/ \E r \in e.ranges : Inside(r, c.version)

Undecided(e, c) ==
    Names(e, c) /\ c.version # NoVersion /\ ~Parsed(c.version) /\ e.versions \cup e.ranges # {}

Listed == IF checked.list = None THEN {} ELSE {checked.list.entries[i] : i \in DOMAIN checked.list.entries}
Valid == checked.list # None /\ Problems(checked.list.entries) = {}
Told(r, p) == \E v \in viols : v.rule = r /\ v.place = p

\* A list whose entries pass validation names a component as malicious only when
\* an entry covers its version (version.go: "a list that cannot tell those apart
\* would accuse every clean install").
NoFalseAccusation == Valid =>
    \A v \in viols : v.rule = "known_bad" /\ ~v.open =>
        \E c \in inv, e \in Listed : c.place = v.place /\ Affects(e, c)

\* No listed component is passed over, and none whose version cannot be compared
\* with the list is.
NoSilentMiss == Valid /\ pc \in {"save", "output"} /\ pol.level["known_bad"] # "ignore" =>
    \A c \in inv, e \in Listed :
        Affects(e, c) \/ Undecided(e, c) => Told("known_bad", c.place)

\* A green gate, over a repository and a feed that stayed as they were, means
\* that what the policy makes an error is not there or has a waiver that has not
\* run out, and is listed all the same.  It says so of what the gate could read, and
\* of no more: not of configurations that cannot be parsed nor of places whose files
\* it was refused, which it passes over in silence; nor of runs whose budget was
\* spent, of a root that is a file, or of --no-feed.
Excused(r, p) ==
    \/ pol.level[r] # "error"
    \/ \E v \in viols : v.rule = r /\ v.place = p /\ v.waived

Clean(p) ==
    LET c == Component(p, TRUE, TRUE)
    IN  /\ repo[p].danger => Excused("risk_indicator", p)
        /\ \A e \in Listed : Valid /\ Affects(e, c) => Excused("known_bad", p)
        /\ repo[p].unpinned => Excused("unpinned_package", p)

GreenMeansClean ==
    (exit = 0 /\ calm /\ ~cut /\ opt.root = "dir" /\ ~opt.noFeed) =>
        /\ policyFile # Unreadable /\ lockFile # Unreadable
        /\ "error" \in {pol.level["risk_indicator"], pol.level["known_bad"]} => ruled
        /\ \A p \in Present \ missed : repo[p].parses => Clean(p)

\* Content in the inventory that no --write-lock run has recorded under its ID is
\* reported, once there is a lockfile: it was never reviewed.  The rule that reports
\* it is the one for its ID, which the policy can ignore.
LockRule(lock, c) == IF c.id \in {l.id : l \in lock} THEN "lock_drift" ELSE "unlocked_component"

ReviewedOrTold ==
    (pc = "done" /\ exit # 2 /\ checked.lock # Absent /\ ~opt.write) =>
        \A c \in inv :
            \/ [id |-> c.id, digest |-> c.digest] \in reviewed
            \/ LET rule == LockRule(checked.lock, c)
               IN  pol.level[rule] = "ignore" \/ Told(rule, c.place)

\* A repository that is as it was when it was recorded is not reported as
\* changed, whatever happened to policy and feed: if its IDs are distinct, and both
\* runs could read all of it.
AcceptedIsQuiet ==
    (/\ exit \in {0, 1} /\ checked.agreed /\ calm /\ ~cut /\ missed = {}
     /\ opt.root = "dir" /\ DistinctIds(inv)) =>
        \A p \in Places : ~Told("lock_drift", p) /\ ~Told("unlocked_component", p)

\* A waiver rests on an exemption that names the component, its package or its
\* path, and that the same report does not call expired, also when it expires
\* while the gate runs.
WaiverIsOnRecord ==
    \A v \in viols : v.waived => \E c \in inv, e \in pol.exemptions \ lapsed :
        /\ c.place = v.place /\ e.rule = v.rule
        /\ \/ e.component = c.name
           \/ e.package # None /\ e.package = c.package
           \/ e.path # None /\ c.place \in Under[e.path]

\* ci.go: "A hit whose version could not be compared is a question, not a verdict.
\* Failing a build on it would be asserting the half that was never established".
UnresolvedNeverFails ==
    exit = 1 => \E v \in viols : v.level = "error" /\ ~v.waived /\ ~v.open
=============================================================================
