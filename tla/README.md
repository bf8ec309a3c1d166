# A verification project for aiexpose

aiexpose scans a machine for local AI services and for the components an AI
stack installs (ComfyUI nodes, MCP servers, agent skills), reports what is
exposed or changed, and can gate a repository in CI. This directory holds TLA+
models of its parts, the TLC configurations that check them, and TLAPS proofs.
All paths below are relative to the repository root.

To run: `tlc -config drift_one_run.cfg MCDrift` for a run (PROJECT.json names
module and configuration of each), `tlapm Drift_proofs.tla` for the proofs.

## 1. The system

| component | state it keeps | operations | what is hard | what makes it correct |
|---|---|---|---|---|
| inventory (`internal/supply/inventory.go`, `indicators.go`) | the inventory being taken, one time and file budget | `TakeWith`: walk the roots, `hashTree` and `scanTree` each directory | two reads of each directory, the machine changes meanwhile; the budget runs out anywhere; what cannot be read is passed over in silence; IDs are names | a report says what was on disk, or says that it is incomplete |
| drift check (`diff.go`, `baseline.go`, `checks/supply.go`) | `~/.aiexpose/baseline.json`, the state last accepted | load, compare, record first, `--accept`, prompt | several runs at once, crashes, failed saves, damage, new rules between two scans | nothing is accepted without a report of it; "match" is true; a rug-pull is called one |
| rule feed (`internal/feed`, `checks/rules.go`) | `~/.aiexpose/feed.json` and `.sig`, the pair beside the executable, the built-in document | `--install-rules`, `--update-feed`, `Load` | a pair of files replaced one by one, shared temporary names, readers in between | only verified rules, the latest of those on offer |
| feed matching (`match.go`, `version.go`, `validate.go`) | none | `Match`, `CompareVersions`, `Validate` | version shapes, the third verdict "unresolved" | no false accusation, no silent miss |
| repository gate (`internal/ci`, `internal/policy`) | `.aiexpose.json`, `aiexpose.lock.json` | `Run`, `--write-lock` | what counts when the rules or the feed are missing; expiring exemptions | a green build means the policy was evaluated |
| malware hash index (`internal/hashdb`, `checks/hashdb.go`) | the index file and its metadata file | build, sign, install, `Contains` | boundaries of the bucket search, crashes between the two files | `Contains` is membership; no half-written index is read |
| credential search (`checks/secrets.go`, `secretwalk.go`) | the file budget | walk the folders | sharing the budget out | each key in reach is counted once; a limit that stopped the search is told |
| service identification (`internal/probe`, `internal/catalog`) | the list of services | parallel HTTP probes | shared slices, the order probes finish in, all of them sent to loopback | each listener is listed as it would be if it were alone |
| listeners, processes, firewall, router and configuration checks (`internal/checks`) | none | read the system | helper programs with timeouts, answers that end in the middle | a check that could not run leaves a word in the report |
| report model and writers (`model`, `report`, `control`, `aibom`, `advice`) | the report | add findings, `Finalize`, write | what one reads alone: grade, exit code, a row of the control table | none of them is better than the findings |
| `cmd/aiexpose` | none | one process per scan or command | several can be alive at once | it says what it did |

**How they interact.** `run` in `cmd/aiexpose/main.go` is one sequential process.
It loads the rules from the feed (`LoadRules`), takes the inventory, loads the
feed again for the list of known-bad components, compares the inventory with
the baseline, writes the report, may ask the person at the terminal, and exits.
Processes share nothing but files: the component directories, the baseline, the
rule cache, the hash index, in a repository the policy and the lockfile. Nothing
locks any of them. The hard behaviour is therefore between processes, and between
a process and the machine it scans. Inside one process only the service
identification runs concurrently, one goroutine per listener.

PROJECT.json lists the hazards of the code, each at its line, with the property
that covers it or the reason none does yet.

## 2. Modules

| module | models |
|---|---|
| `Ledger` | what the drift check promises, with no files or processes: what was shown, what is accepted |
| `Drift` | the drift check: machine, walk, comparison, baseline, prompts, faults; its refinement of `Ledger` |
| `RuleFeed` | the rule cache: installs, the two loads of a scan, version order |
| `FeedMatch` | versions, ranges, the known-bad list, its validation: pure definitions |
| `Gate` | `aiexpose ci` over a repository that changes; extends `FeedMatch` |
| `HashIndex` | the layout of the malware index and the search in it: pure definitions |
| `HashStore` | the index on disk: builds, installs, scans, faults; extends `HashIndex` |
| `Identify` | the goroutines of the service identification |
| `KeySearch` | the credential search and its budget of files |
| `ScanReport` | findings, score, grade, control table: pure definitions |
| `Scan` | one scan from flags to exit code, composed of the last three |
| `MCDrift`, `MCRuleFeed`, `MCGate`, `MCHashStore`, `MCScan` | small instances |
| `LeastNumber` | the least number principle, which four of the proof modules share |
| `Drift_proofs`, `RuleFeed_proofs`, `Gate_proofs`, `HashIndex_proofs`, `HashStore_proofs`, `KeySearch_proofs`, `Scan_proofs` | TLAPS proofs; `KeySearch_proofs` has the lemmas about the key search that `Scan_proofs` lifts to a scan |

A definition whose comment begins with "Mutant:" is not part of a model: it is a
plausible error beside the definition it would replace.

### Drift

State and code:

| variable | in the code |
|---|---|
| `content`, `rules` | the component directories; the rules the newest rule file carries |
| `baseline` | `baseline.json`: an inventory, `NoBaseline` (`ErrNoBaseline`), or `Unreadable` (any other error of `LoadBaseline`) |
| `pc`, `mode` | where in `run` the process is; started plainly, with `--accept`, or at a terminal |
| `at`, `listed`, `held`, `inv` | the directory of the walk, what its root was found to hold, the artifact hashed but not scanned, the inventory |
| `base`, `verdict` | what `Diff` was given, and what `reportChanges` said |
| `touched`, `missed` | history only: directories edited during a run; directories it was refused, all or some of it |
| `shown`, `owed`, `unseen` | history only: IDs and digests in a report that was written, accepted ahead of a report still to come, and accepted by a run whose report never came |

A component's content is abstracted to what the properties tell apart: a digest,
a git origin and the sequence of its dangerous lines. `Seen` is what a scan
finds of those under given rules, up to `Cap` matches. A digest is a pair: of
which content, and whether all files were read. `Root` says which directory lies in
which root. The walk is an action for each root (`ReadRoot`) and for each directory and read
(`HashTree`, `ScanTree`, or `Skip`), each with what can go wrong there: the budget is
spent (`HashTreeInPart`, `ScanTreeInPart`), of which the report says that it may be
incomplete, or the machine refuses a root, a directory or a file, which the code passes
over without a word (`inventory.go:277`, `329`, `367`). `EndTake` builds the index of `Diff`,
where equal IDs leave one artifact, any of them, because the sort is unstable. `Compare` is
`Diff` with `reportChanges`; `RecordFirst`, `SaveAccepted` and `Answer` are the
three calls of `SaveBaseline`, the first two of them before `Output` writes the report, which
can fail. `Edit` and `InstallRules` change the machine at any moment, `Crash` ends a run at any
moment.

`Ledger` is the promise in terms of items. A scan that found nothing accepted may accept
whatever it finds, and owes a report of it; every other scan adds only what it owes a
report of, or what is known already; what a scan owes is shown, or the scan fails and
leaves it among the unseen.

Simplifications: one save is one step (the shared `baseline.json.tmp` is not
split; `RuleFeed` models that protocol for the rule cache); a directory is read
in one step per pass; MCP servers, which have no second pass, are not told apart; where the
roots are is a constant.

### RuleFeed

`live` and `tmp` are the cache files and their temporary files, each a signed
document (a signature is written as the document it signs), `Empty`, or `Torn`.
An install is a sequence of single calls: obtain and verify, then for each file
open, write, rename. Two installs use the same temporary names. `fd` says where
the file an install has open is now: an open file follows its rename, as it does
on POSIX systems, and a later rename over it leaves the writer with a `replaced`
file. `Abort` is a failed call or a killed process at any point, with what was being
written there in part. A scan reads document and signature in two steps, twice.
`Builtin` has no version and no rules in a default build, so a scan can be left with
nothing (RULE-001); `Beside` is whatever pair lies beside the executable, which can be old
(RULE-002). What a scan ought to use is measured by the date a version stands for
(`Signed`), not by the part-by-part comparison of the code (`Newer`).
Not modelled: `--feed FILE`, which reads a pair the user names and no other; a power loss
(`writeAtomic` does not sync); and Windows, where a rename over an open file fails.

### FeedMatch and Gate

`FeedMatch` has a version as its segments and what follows its dash, each segment as
the number it starts with and the rest: that is all `parseVersion` looks at. A number
beyond `MaxInt` is one `strconv.Atoi` refuses. `Below` is
`CompareVersions`, `Covers` and `VersionAffected` are `Range.covers` and `versionAffected` with
their three verdicts, `Hits` is `Feed.Match`, `Problems` is `Validate`.

| variable of `Gate` | in the code |
|---|---|
| `repo` | the directories and configuration files of the repository that hold components |
| `policyFile`, `lockFile`, `feed` | `.aiexpose.json`, `aiexpose.lock.json`, what `feed.Load` would return now |
| `day` | the date exemptions are compared with |
| `pc`, `opt`, `pol`, `ruled`, `inv`, `cut` | where `ci.Run` is, its flags and its locals |
| `viols`, `notes`, `lapsed`, `exit` | `Result.Violations`, `Notes`, `ExpiredExemptions`, the exit code of `runCI` |
| `reviewed`, `agreed`, `checked`, `missed`, `calm` | history only; `missed` are the places whose files the run was refused |

The run is a step for each thing it reads: `LoadPolicy`, `InstallRules` (the first load of
the feed), `TakeProject`, `Assess`, `MatchFeed` (the second load), `CompareLock`, `SaveLock`,
`Output`. Between any two of them a commit, a new policy, a merged or deleted
lockfile, another feed or midnight can come; a budget can run out (`TakeProjectCut`), files can
be refused without a word (`TakeProjectRefused`), a write can fail, the job can be killed.
`Indexes` are the maps `policy.Lock.Index` can build when components share an ID.

The properties about the list use a reference that does not compare part by part: a
version is one number of a positional system, with its parts and then the characters of its
suffix as digits (`Digit`, `Weight`), and what an entry affects is a set of such numbers
(`Affects`). How many digits there are and how large they get is a constant; any finite set of
versions has a system that holds it. One point is taken from the code and not from the
world: every suffix is below its release, also that of a post-release.

Simplifications: one run at a time works in a checkout; an
exemption's date is a day number; SARIF and JSON are not written out.

### HashIndex and HashStore

`HashIndex` has the sizes of the format as constants (2^16 buckets, 48 bits of
entry and 32-bit offsets in the code), `Offsets` and `Entries` as `writeIndex` writes them, and
`Found` as the binary search of `Contains` decides.

| variable of `HashStore` | in the code |
|---|---|
| `machine` | the files a scan looks up, with their size as far as it decides whether they are hashed, and `--hash-all` |
| `disk`, `live`, `tmp` | the content of inodes, and which of them are called `hashdb.bin` and `hashdb.bin.tmp` |
| `meta`, `download` | `hashdb.meta.json`; the downloaded index with its signed manifest |
| `wpc`, `wfd`, `job` | of each build or install: the next call, the open file, the corpus |
| `spc`, `sfd`, `table`, `quoted`, `at`, `hits`, `checked`, `verdict` | of each scan: the open index, what it has read of it, how far it is, what it found |
| `synced` | what a power loss spares |
| `made`, `sealed`, `fault`, `due`, `lone`, `promise` | history only |

A build opens, truncates and writes the shared temporary file, renames it and
removes what then has the temporary name, also after a failure; an install verifies the
download, opens it, reads it once more into a file of its own, syncs and renames it. Both
write the metadata last and in place. A build that cannot write it says that it succeeded all
the same (`Unlabelled`), an install does not. Every call is a step, each can fail, of a scan
too (`OpenFails`, `LengthUnknown`, `MetaFails`, `LookUpFails`), the process can
be killed in between, the machine can lose power, the download can be replaced,
and somebody can copy a file over the index. A name leads to an inode and an open
file keeps its inode, as on POSIX systems. Boundaries of what the code promises,
which the properties leave out by name: two builds that share the temporary file
can leave a mixed index that `Open` accepts, since it compares lengths only; a build
does not sync, so after a power loss its index can be of zeros; an install reads
the download again after it verified it; `Open` uses an index whose length it could not
be told. The history variables `made`, `sealed` and `fault` mark exactly these.

### Identify, KeySearch, ScanReport and Scan

`Identify` has what listens (`machine`) apart from what the scan was shown of it (`sockets`):
all, a part, or nothing when the enumeration fails. It has a goroutine per listener shown
(`gor`), the semaphore (`Talking`), what each has settled on (`best`, `open`) and the shared
list (`services`), which takes a service only once for each name and socket (`Listed`). A
process is two sets: the signatures whose fingerprint it shows, and those whose API it
answers without credentials; a slow one lets any request time out. All requests go to
loopback, so it is another process that may answer (`Behind`). `slot` is the place behind the
claimants of a port in the slice `PortIndex` made: `append` writes a listener's hint
there when the slice has room (`Room`), and then every goroutine of the port reads it.
The list is a set: its order is that in which the probes finish, and decides only the
order of findings of one severity.

`KeySearch` has a folder as the sequence of entries a walk meets: text files it opens,
others it passes, folders it cannot read. The home folder can refuse to be listed
(`disk.shut`), a file to be opened, or to be read beyond a line (`disk.legible`), and one folder
can have two paths. `ReadKnown`, `ReadHome`, `WalkRoot` and `Dedupe` are
the parts of `Secrets` in order, `Share` and `Charged` the arithmetic of the budget. A walk
with `n` files to spend reads the text files before which fewer than `n` were (`Walk`), which
is what the counter of `walkForKeys` comes to; `SearchRoots` leaves one of the roots
whose paths differ in case only, and `Deduped` one hit for each place.

`ScanReport` has findings with their severity and mark, `Score`, `Grade`, and `Coverage`, the
OWASP half of the control table.

`Scan` is `run` in `cmd/aiexpose/main.go`: rules, listeners, identification, then exposure,
configuration, firewall, router, credentials, models, supply chain, and the exit
code. What a check reads of the machine is chosen when it reads it, from a
constant set: what listens and what is on the disk is chosen at the start, what a router, the
firewall or the configuration says at its step. The supply chain check enters with
its outcome (`Supplies`); `Drift` and `RuleFeed` have its inside.

## 3. Runs

| run | bounds | shows |
|---|---|---|
| `drift_one_run` | 1 run at a time, 2 components in one root, 3 contents (harmless, harmless with a script that is scanned and not hashed, dangerous), rule set empty or full, 2 changes, 1 fault | a report tells the truth (`MatchIsTrue`, `RecordedRugPullIsCritical`, `FalseAlarmHasCause`, `RemovedIsGone`), nothing is accepted without a report (`NoSilentAcceptance`), the first run is the first (`FirstRunIsFirst`) |
| `drift_two_runs` | 2 runs at once with `--accept` or a prompt, 1 component that comes and goes, 2 changes, 1 fault, fair | under all interleavings of two runs `NoSilentAcceptance`, the refinement of `Ledger` (`ImplementsLedger`), and `DriftIsReported` |
| `drift_shared_id` | 2 components with one ID | finding: "all match" with a changed component |
| `drift_new_rules` | rules installed between two scans | finding: "has been modified" of an unchanged component |
| `drift_damaged` | an unreadable baseline, runs with `--accept`, fair | finding: nothing is ever recorded again |
| `feed_install` | 2 installs at once, 3 installs in all, 1 scan, 4 documents (the built-in one is empty), the pair of an earlier release beside the executable, 2 faults | `LatestIsUsed`, `CacheFilesAreWhole` |
| `feed_two_loads` | 1 install, 1 scan | finding: one scan, two feed versions |
| `gate` | 3 places (2 share an ID and a name), 7 contents, 1 policy, 3 feeds, 4 sets of flags, 2 events, 1 midnight | `NoFalseAccusation`, `NoSilentMiss`, `GreenMeansClean`, `ReviewedOrTold`, `AcceptedIsQuiet`, `WaiverIsOnRecord` |
| `gate_unresolved` | the same with 1 event | finding: a build fails over a version nobody could compare |
| `hash_store` | 2 writers, 1 scan, 2 corpora, 3 downloads, 2 machines, 2 writes, 2 events | `OpenedIsWhole`, `VerdictIsTrue`, `FinishedIsUsed`, `OnlySignedInstalled` |
| `scan` | 5 machines of 2 or 3 listeners (one of them shown in three ways), 2 goroutines at a time, 4 disks, 3 hosts, 4 sets of flags, 5 rule files, a budget of 7 files | `EveryAnswerIsListed`, `AGoodReportIsTrue`, `BudgetHolds`, `EveryRootIsReached`, `KeysInReachAreCounted`, `UnreadIsTold`, `NoSilentGap`, `TableShowsTheWorst` |
| `scan_scope` | as `scan` | finding: keys found in shell history alone are reported without the sentence on scope |

`drift_one_run`, `feed_install`, `gate`, `hash_store` and `scan` check the `TypeOK` of their
module as well.

**Bounds.** Two changes of the machine are enough for the patterns that matter: an
edit inside the accepted scan followed by one inside the comparing scan, or an
edit and new rules. One fault hits each point of a run in turn, since every
behaviour with one fault is explored; a second one finds the run gone or the
budget already spent. The number of runs after each other is not bounded. The
contents are: one without dangerous lines, one with more than `Cap`
finds, and one that differs from the first only in a `.zsh` file, which `scanTree` reads and
`hashTree` does not. With one component in `drift_two_runs` every report is about it, so two
scans, an answer and an edit between any of them are what there is to interleave. Three installs
are one that leaves the cache in any state, and two that
overlap after it; versions are such that one has more parts (26.9.1) and one has
a part above 9 (26.10).

In `gate` a lockfile, a change and a comparison need one event, a second one lets a
fault or another change fall between any two steps of either run; the number of
runs is not bounded. The versions of its lists and components are 8.3.9, 8.3.41, 8.3.100, 8.4,
8.5, 2026.4.0, 8.5rc1, 8.5rc2, 8.5000, none, and one that is no version: parts above 9 and of three
digits, suffixes, a number beyond `MaxInt` (3000 here), and a comparison that must stay open.
`DigitsAssumption` and `ScaleAssumption` have TLC check that the digits given for them are theirs.
The policy file is absent, unreadable, or one that ignores `unlocked_component` and not
`lock_drift`. The third feed has a range whose
bounds are swapped, which validation must reject. The flags are none, `--write-lock`, `--no-feed`
and a root that is gone; a root that is a file is in the module, and in what is proved, but
not in this instance.

In `hash_store` two writes are two
builds, two installs or one of each at once, or one after the other; the two buckets
of three entries hold key 0, the last key, and corpora of one length, so that
neither a length nor a zero gives an error away. Of the downloads one is
not what its manifest says, one is, but its signed manifest names the wrong corpus, and one is of
an older format; the two writers are alike, so that TLC takes them as one (`SYMMETRY`).
One machine is scanned with `--hash-all`, the other has only files that are too small or too
large. The writers stop when their bound
is used up, the scans go on. There is an inode for each process and each name and one
more, so that a new file always finds one nobody has open.

In `scan` two of three listeners of a
network share a port, a socket or an answer, one is bound to a LAN address, and on one machine a
service open to all is shown to the scan, hidden from it, or hidden with everything else. The
disks have folders that overlap, cannot be read, are links or differ in case, a folder under
two paths, files that cannot be opened or not be read to their end, a home folder larger than the
budget and one that cannot be listed, and folders larger than their share.

**Fairness.** `FairSpec` asks weak fairness of the steps of each live run: `run` is
sequential code in which no step waits for another run, so a live process goes
on. It asks weak fairness of `Start`: scans keep being started, which is how the
tool is meant to be used. It does not ask that anyone answers a prompt
(`Answer` is not in `Step`), which is why `DriftIsReported` excepts a machine on which every
run waits at one, nor that a machine stops changing: edits are bounded.

**Violations.** Each of the six runs that end in a violation states what a
comment, a help text or a message of the code says; PROJECT.json quotes it under
"findings". They are three boundaries of what the drift check can promise (IDs are
names; indicators depend on the rules; an unreadable baseline is final), one of
the feed, one of the gate (an unresolved hit carries the level of `known_bad`, so
it fails the build though the comment above it says that it must not), and one of the
search for keys (`ScopeIsAlwaysSaid`: the sentence on scope goes "on every credential finding",
says its comment, and SEC-001 has none). The passing
runs say what holds instead: with distinct IDs a match is true; a false SUP-010 has
one of the causes `FalseAlarmHasCause` lists; a violation that is not marked unresolved
is one the list really covers (`NoFalseAccusation`).

**Boundaries of the passing runs.** Some properties name what they leave out, where the code
does no more than that:

- `NoSilentAcceptance` and `ImplementsLedger`: a run that saves before it reports, and is killed
  or cannot write its report in between, has accepted what nobody was told of (`unseen`);
- `RemovedIsGone` and `RecordedRugPullIsCritical`: directories the machine refused to the scan, which
  the report then calls removed, or unchanged, without a word;
- `LatestIsUsed`: installs that overlap promise nothing, and with neither an install nor a
  pair beside the executable a default build has no rules;
- `GreenMeansClean`: configurations that cannot be parsed, refused places, runs with a spent
  budget, `--no-feed`, and a root that is a file;
- `AcceptedIsQuiet`: components that share an ID, and runs that could not read everything;
- `OpenedIsWhole` and `VerdictIsTrue`: the four boundaries of section 2; `FinishedIsUsed`: the
  name of an index whose metadata a build could not write;
- `AGoodReportIsTrue`: services the scan was not shown; a LAN-bound service costs too little to
  move the grade, so of these it speaks only for a score above 90 or `--fail-on medium`;
- `KeysInReachAreCounted`: roots that are links or differ in case only, what cannot be opened or
  listed; a folder with two paths counts twice;
- `UnreadIsTold`: keys in shell history alone, see `scan_scope`; a home folder that cannot be
  listed counts as searched;
- `NoSilentGap`: the model check without a home folder or out of time, launch scripts without a
  home folder, rules with patterns for keys and none for code, an empty list beside other rules;
- `TableShowsTheWorst`: SUP-034 and SUP-051, which are in no row.

Each property of a passing run has a mutant in PROJECT.json, an operator beside
the definition it replaces: a digest that is not compared, a missing loop, an
error taken for a first run, a prompt that saves a new scan, a cache used
unverified or in preference to newer rules (as an earlier version of `Load` did),
a temporary file not truncated or not used, a lockfile that grows instead of being
replaced, an exemption whose date is not read, a copy that is not synced, a slice
made with room to grow, a budget that is not charged.

## 4. Proofs

TLC shows the properties on small instances; these theorems hold for every
number of runs, installs, components, contents and faults. Every invariant and every
action property of a passing run is stated by a theorem, and so is the refinement of
`Ledger`; PROJECT.json pairs them.

**Drift.** `TypeCorrect` proves the types, from `TypeOK` with what `pc` says of `held` and
`inv`. `AcceptedWasShown` proves `NoSilentAcceptance` and `MatchTold` proves `MatchIsTrue`, both
for concurrent runs and under one hypothesis, `DistinctIds`: without it they are
false, as `drift_shared_id` shows. `NoSilentAcceptance` is not inductive: what a run is
about to save must be known to be in its report, or reviewed before. The invariant `AcceptInv`
therefore follows an inventory through a run: each artifact of the walk comes from
a directory already passed; after `EndTake` the inventory is well indexed (each
artifact is the one its ID leads to); after `Compare` all of it is either in the
baseline compared with, all of which was reviewed, or named by the report. The
lemma `DiffIsComplete` is the heart: `Diff` names every artifact of the new inventory
that the old one does not have with the same digest; `ReviewsGrow` says that nothing accepted is
forgotten, whatever becomes of a report.
`KeepsLedger` proves the refinement of `Ledger` for any number of runs at once. Besides `AcceptInv`
it needs that a run that compared with a baseline still finds one (`SavedInv`), and as its last
hypothesis `MarksAreDistinct`: the constants that stand for a missing and a damaged
file are not inventories.

What a report says of single components needs the other direction: not where an artifact
comes from, but what became of a directory. `StillInv` follows every directory nobody touches
and the machine does not refuse (`Unsure`) through the walk, whatever the other runs do meanwhile:
each of them that is there is in the listing of its root (`ListInv`), what the walk has said of it
is so (`Truthful`), with each of its two reads (`HeldInv`), and unless the walk was cut short
nothing it has passed is missing (`Complete`). From it follow `RemovedIsTrue`
(`RemovedIsGone`), `AlarmHasCause` (`FalseAlarmHasCause`), both also for components that share an ID, and, with
`DistinctIds` and the invariant above, `RugPullIsTold` (`RecordedRugPullIsCritical`). The last
cause of a false alarm, a file that is scanned and not hashed, came out of that proof.
`FirstIsFirst` (`FirstRunIsFirst`) has `OneAtATime`: a run that found no baseline still finds none
when it records its own (`FirstInv`), which two runs can break.

**RuleFeed.** `NewerTransitive` proves that the order of versions is transitive, the
deciding part being the earlier of the two; `ConsiderKeepsNewest` and `LoadIsNewest` lift
that to what `Load` chooses. `LaterIsNewer` ties it to the reference: of two documents the one
signed later has the newer version, since the first digit that differs decides both (`DateAssumption`
is what versions made of dates have in common).
For `ReplacedWhole` (`CacheFilesAreWhole`) and `LatestIsLoaded` (`LatestIsUsed`) the invariant `CacheInv` says
what an install that has the cache to itself has achieved at each of its steps
(`Stage`), and that a promise of an install stands only while no install is alive and
is what the cache holds; a load that started under such a promise reads both files of it.

**Gate.** `TypeCorrect` proves the types. `WaiversHold` (`WaiverIsOnRecord`) rests on days only
passing: what `lapsed` lists has expired for good (`ExpiredStays`), so an exemption that
still applies when a later step asks again is not in it; `WaiverInv` keeps that the list
was taken before any waiver was granted. `ReviewedIsTold` (`ReviewedOrTold`) needs that a
lockfile holds nothing that no `--write-lock` run recorded, whoever replaced or
emptied it since, and that whatever map `Index` builds of it, content that is not
recorded is either new to it or differs (`ComparedIsReviewed`). `AcceptedStaysQuiet`
(`AcceptedIsQuiet`) follows an agreement between lockfile and repository (`QuietInv`)
through every change that can end it; its heart is `OwnLockIsQuiet`, an inventory with
distinct IDs differs in nothing from its own lockfile.

What `Gate` says of the list is measured against the positional reference of section 2.
`VersionsAreOrdered` proves for all versions, of any length, that
`CompareVersions` is a strict order and that what it calls equal is above and below the same
versions. `Weighed` proves that this order is that of the numbers: where two versions first have
different digits, both are decided (`FirstDigitDecides`, `BelowHasADigit`), and before it both agree
(`DigitsAgree`); this is the argument why comparing part by part, with missing parts as zeros and
suffixes below none, is comparing one number. The assumptions `DigitsAssumption` and
`ScaleAssumption` ask only for digits enough and say how the number is computed; they leave out no
version. `VersionVerdict` and `MatchesMeansAffects` lift that to ranges and entries.
`AccusationsAreTrue` (`NoFalseAccusation`) then needs only that nothing is said in the name of the list before it was
asked (`AccuseInv`). `NothingListedIsMissed` (`NoSilentMiss`) and `GreenIsClean` (`GreenMeansClean`)
rest on `VerdictInv`, what a run that has come to a step and has not failed knows: its files could
be read, its inventory is the repository, but for the places it was refused, when that stayed as
it was, and everything each rule found is among its violations, at the level of the policy.

**HashIndex.** For sizes and corpora of any size, as long as there are fewer keys than offsets can count (2^32): `SortedIsInOrder`, the keys of a corpus are
put in increasing order, each once; `IndexIsReadable`, `Open` accepts what is built from
them and no search reads past its end; `FoundIsMember`, a search in it finds a key
exactly when it is one of them; `IndexIsMembership` puts them together. The argument: for
every bucket the pass over the keys stops at one place (`StopsOnce`, by the least
number principle of `LeastNumber`), so the keys of a bucket are those between two offsets
(`BucketIsBetween`), and in one bucket keys and entries are in the same order (`KeyOrder`).
That the numbers of keys below a key take every value (`EveryRank`) is a pigeonhole.

**HashStore.** All four safety properties of the run are proved, for any writers, scans, corpora,
downloads and machines. `IndInv` says what is in every inode nobody spoiled (nothing, a begun or a
whole index, a whole download), that the temporary name and the index are different files and no scan
reads the first (`NamesInv`), and what each process knows of its own file: a build what it has written
there as long as it has that to itself, an install, whose file nobody shares, that it is the download
it verified (`WriterInv`); a scan that it opened a whole index and which of the files it has looked up
are in the corpus (`ScanInv`). From it follow `WholeIsOpened` (`OpenedIsWhole`), `SignedIsInstalled`
(`OnlySignedInstalled`) and, with `IndexIsMembership`, `TruthIsReported` (`VerdictIsTrue`). A step that
begins an index cannot be seen by a scan although a build can lose the name of its file while it still
writes: an index without entries is accepted only when the whole index has none (`IndexIsGood`).
`FinishedIsFound` (`FinishedIsUsed`) adds `DueInv`: what a command without company can rely on at each
step (`Along`), that what it promised, a file and the name its metadata gives or none, stands while no
command is under way, and that no writer has the file of a scan it was promised to. Of a download it
assumes nothing but that it is a file and its manifest names some corpus: an install promises the file
that was signed under the name that was signed, whether or not the two belong together.
`InodesAssumption`, enough inodes for every open
file, is what lets a new file always be one nobody has (`FreshIsUnused`). `TypeCorrect` (`TypeOK`) needs
the same invariant, with the names of open files, and that what a scan has checked is behind where
it is (`CountInv`).

**Scan.** `AnswersAreListed` (`EveryAnswerIsListed`): on any machine, whatever of it the scan is
shown, with any number of goroutines and any order of their steps, each listener that answers in
time is listed as it would be alone. The hypothesis is `Roomless`: the claimants of a port fill
the slice they are in. It is true of the catalog as it is, whose ports have one,
two or four claimants, and not of one with three on a port: then `append` writes the
hint of one listener where the goroutine of another reads it, which the mutant of this
property shows. The invariant `IdentifyInv` says how far each listener is and that
only its own steps move it; since the sockets shown differ, no listing of one can pass for that of
another (`SocketsDiffer`).

What a scan says is followed step by step. `ReportInv` keeps the findings finite and each one
`Proper`: with a severity, and in a row of the table when it costs points, but for the two kinds
that are in none; `WorstIsShown` (`TableShowsTheWorst`) is then about the table alone (`WorstOf`). `Told`
lists for each step what the checks before it have left in the report, the four silent gaps
excepted; nothing is ever taken back (`FindingsStay`), so `NoCheckIsSilent` (`NoSilentGap`) is a case
for each check. `Weighed` says that each listed service has its finding and each forwarded one a
critical finding by the time the exit code is chosen, and
`GoodReportsAreTrue` (`AGoodReportIsTrue`, again with `Roomless`) that one critical finding costs grade A and
B. Its three parts: a listener open to all is listed as open (`OpenIsListed`); one on a LAN address
with a hint, or alone in claiming its port, is listed under some name however slow it is (`Sure`,
`SureIsSettled`), and costs ten points (`LANIsTold`); and a row of the router that is delivered before
any fault is one `listMappings` has (`TableIsRead`, `MappingIsRead`), where `Forwarded` speaks of the router's
table and not of the rows the code has read.
For all of this the score must be known to be a sum. It is a fold over the set of findings, which the
prover knows only by its definition; `SumsExist` shows that the fold is defined, by the least
size at which it is not, and from it that no summand exceeds the sum. `TypeCorrect` proves the types,
the score among them.

**KeySearch.** `SearchInv` holds at every step of a search in any folders with any budget. Its arithmetic is
`Spent`: the budget left covers the roots left, or no root read more than one file. `Greatest` and
`Least` give what a walk reads and whether it was stopped (`Honest`), the rest is what the
walks come to together. `BudgetIsHeld` (`BudgetHolds`) and `RootsAreReached` (`EveryRootIsReached`) follow;
`UnreadIsAlwaysTold` (`UnreadIsTold`) adds that a file of the home folder or of a walked root that was not
read left its mark (`Walking`), and `KeysAreCounted` (`KeysInReachAreCounted`) that the places found are those of
the files read, each counted once, up to the sentence of the report (`KeyStage`).

Each model names its assumptions on constants with `ASSUME`; TLC evaluates them in every
run of a module that extends the one they are in. Four hypotheses are stated where they are used:
`DistinctIds`, `OneAtATime` (of `FirstIsFirst` only) and `MarksAreDistinct` of `Drift`, `Roomless` of `Scan`. Of each
TLC runs an instance that satisfies it, and of the first two also one that does not.

**Only model-checked:** `DriftIsReported`, since liveness under fairness is beyond the
proof system used here, and the runs that end in a violation.

## 5. Plan

Done: `Ledger` and `Drift`, `RuleFeed`, `FeedMatch` and `Gate`, `HashIndex` and `HashStore`, `Identify`,
`KeySearch`, `ScanReport` and `Scan`, with the runs and proofs above. Left:

1. `SharedFile`: the temporary-file protocol of `RuleFeed` as a module of its own, used for
   the baseline too, and composed with `Drift`.
2. `Roomless` as a fact about the catalog: proved of its tables, instead of assumed.

## 6. Not modelled

- Parsing of operating system output (`internal/netstat`, `internal/procinfo`) and the helper
  programs with their timeouts: what they yield is chosen from a set.
- What a key looks like (`keyshape.go`, the patterns), and regular expressions in
  general: a rule either matches a line or does not.
- Advice texts, report writers, the browser, the bill of materials, the ATLAS labels:
  wording and layout.
- Readers of Ollama manifests and node metadata, the self check, flag parsing: they
  name things or read them, and keep no state.
- The signing tool. Cryptography: a signature is a perfect verdict on what it comes
  with.
- The baseline's temporary file: `Drift` saves in one step (plan, 1).
