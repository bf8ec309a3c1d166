------------------------------- MODULE Drift -------------------------------
(***************************************************************************)
(* The drift check of aiexpose: the inventory of installed components, the *)
(* baseline file that remembers the state the user last accepted, and the  *)
(* runs of the program that compare one with the other                     *)
(* (internal/supply, internal/checks/supply.go, cmd/aiexpose/main.go).     *)
(*                                                                         *)
(* The machine changes under the runs: a component directory is edited, or *)
(* new detection rules are installed, at any moment, in the middle of a    *)
(* scan too.  Several runs can be alive at once.  A run walks the          *)
(* roots one after the other, and reads each component directory of a root *)
(* twice, once for its digest (hashTree) and once for its risk indicators  *)
(* (scanTree).  What the machine refuses to be read, a root, a directory   *)
(* or a file, the walk passes over without a word.                         *)
(*                                                                         *)
(* The baseline file is one register here: SaveBaseline replaces it whole  *)
(* or fails.                                                               *)
(***************************************************************************)
EXTENDS Naturals, FiniteSets

CONSTANTS
    Runs,         \* invocations of the program that may be alive at once
    NPlaces,      \* component directories, numbered in the order of the walk
    Root,         \* Root[p]: the root directory p lies in
    Id,           \* Id[p]: the artifact ID given to directory p
    Versions,     \* contents a component directory can have
    Digest,       \* Digest[v]: hash of those files of v that hashedExts names
    Origin,       \* Origin[v]: its git origin, or NoOrigin
    Marks,        \* Marks[v]: the sequence of dangerous lines of v, in the files
                  \* scannedExts names: not all of them have a part in Digest
    RuleSets,     \* sets of indicator rules that can be installed
    Cap,          \* maxIndicatorsPerItem
    Modes,        \* how runs are started: "plain", "accept", "prompt"
    MaxEdits,     \* bound on the changes of the machine
    MaxFaults,    \* bound on crashes, spent budgets, failed reads and writes
    Absent, NoOrigin, NoBaseline, Unreadable, None

Places  == 1..NPlaces
Indicators == UNION RuleSets

ASSUME BoundsAssumption ==
    NPlaces \in Nat /\ Cap \in Nat /\ MaxEdits \in Nat /\ MaxFaults \in Nat
ASSUME NamesAssumption ==
    /\ Absent \notin Versions
    /\ Modes \subseteq {"plain", "accept", "prompt"}
    /\ None \notin Modes \cup {"match", "drift", "first", "unread"}

VARIABLES
    content,      \* content[p]: what directory p holds now, or Absent
    rules,        \* the indicator rules the newest rule file carries
    baseline,     \* the accepted inventory, NoBaseline, or Unreadable
    pc,           \* pc[r]: the next step of run r
    mode,         \* mode[r]: how run r was started
    at,           \* at[r]: the directory the walk has reached
    listed,       \* listed[r]: the directories the last root was found to hold
    held,         \* held[r]: the directory hashed but not yet pattern scanned
    inv,          \* inv[r]: the inventory run r is taking
    base,         \* base[r]: the baseline run r compared against, or None
    verdict,      \* verdict[r]: what its report says of drift, or None
    edits, faults,\* used up bounds
    touched,      \* history: touched[r], directories edited while r was alive
    missed,       \* history: missed[r], directories r failed to read in full
                  \* and says nothing of
    shown,        \* history: <<ID, digest>> pairs in a report that was written
    owed,         \* history: owed[r], pairs r accepted ahead of its report
    unseen        \* history: pairs accepted by runs whose report never came

machine == <<content, rules, edits>>
past    == <<touched, missed>>
reviews == <<shown, owed, unseen>>
vars == <<content, rules, baseline, pc, mode, at, listed, held, inv, base, verdict,
          edits, faults, touched, missed, shown, owed, unseen>>

-----------------------------------------------------------------------------
(* Inventories. *)

\* The indicator IDs a full scan of content v finds under the rules R: the
\* scan stops after Cap matches, so later dangerous lines leave no trace.
Hit(v, R, i) == i \in DOMAIN Marks[v] /\ Marks[v][i] \in R
MarksOf(v) == {Marks[v][i] : i \in DOMAIN Marks[v]}
Seen(v, R) ==
    {Marks[v][i] : i \in {j \in DOMAIN Marks[v] :
        /\ Hit(v, R, j)
        /\ Cardinality({k \in 1..j : Hit(v, R, k)}) <= Cap}}

\* A digest covers all the files of a directory, or (FALSE) only those that
\* were read before the budget ran out.
Digests   == {Digest[v] : v \in Versions} \X BOOLEAN
Ids       == {Id[p] : p \in Places}
Artifact  == [id : Ids, place : Places, digest : Digests,
              origin : {Origin[v] : v \in Versions}, inds : SUBSET Indicators]

\* Mutant: the ID is built from the path.
HashedIdByPath(p, v, whole) ==
    [id |-> <<p, Id[p]>>, place |-> p, digest |-> <<Digest[v], whole>>,
     origin |-> Origin[v], inds |-> {}]

Hashed(p, v, whole) ==
    [id |-> Id[p], place |-> p, digest |-> <<Digest[v], whole>>,
     origin |-> Origin[v], inds |-> {}]

\* index() keeps the last artifact of each ID in a slice that sort.Slice, which
\* is not stable, ordered by ID alone: any one of a set of equal IDs.
Indexes(arts) ==
    {f \in [{a.id : a \in arts} -> arts] : \A i \in DOMAIN f : f[i].id = i}

EmptyInventory(R) == [arts |-> {}, index |-> [i \in {} |-> None], rules |-> R, cut |-> FALSE]
Recorded == baseline \notin {NoBaseline, Unreadable}

-----------------------------------------------------------------------------
(* Diff: prev and cur are artifacts, b and c inventories. *)

\* Mutants: the difference taken the wrong way round, or not at all.
LostIndicators(prev, cur) == prev.inds \ cur.inds
AllIndicators(prev, cur)  == cur.inds

NewIndicators(prev, cur) == cur.inds \ prev.inds

\* Mutant: the digest is not compared.
DescribeNoDigest(prev, cur) ==
    \/ prev.origin # cur.origin /\ cur.origin # NoOrigin
    \/ NewIndicators(prev, cur) # {}

Describe(prev, cur) ==
    \/ prev.digest # cur.digest
    \/ prev.origin # cur.origin /\ cur.origin # NoOrigin
    \/ NewIndicators(prev, cur) # {}

Added(b, c)    == DOMAIN c.index \ DOMAIN b.index
Removed(b, c)  == DOMAIN b.index \ DOMAIN c.index
Modified(b, c) == {i \in DOMAIN b.index \cap DOMAIN c.index :
                       Describe(b.index[i], c.index[i])}

\* Mutant: the second loop of Diff is missing.
DiffNoRemoved(b, c) == Added(b, c) \cup Modified(b, c)

Diff(b, c) == Added(b, c) \cup Removed(b, c) \cup Modified(b, c)

\* Reported as "changed and now contains dangerous code" (SUP-010).
Critical(b, c) == {i \in Modified(b, c) : NewIndicators(b.index[i], c.index[i]) # {}}

Pairs(arts)  == {<<a.id, a.digest>> : a \in arts}
Named(b, c)  == Pairs({c.index[i] : i \in Added(b, c) \cup Modified(b, c)})

\* What was accepted with a report, or with one that is or was on its way.
Reviewed == shown \cup unseen \cup UNION {owed[r] : r \in Runs}

-----------------------------------------------------------------------------
Init ==
    /\ content \in [Places -> Versions \cup {Absent}]
    /\ rules \in RuleSets
    /\ baseline = NoBaseline
    /\ pc = [r \in Runs |-> "idle"]
    /\ mode = [r \in Runs |-> None]
    /\ at = [r \in Runs |-> 1]
    /\ listed = [r \in Runs |-> {}]
    /\ held = [r \in Runs |-> None]
    /\ inv = [r \in Runs |-> None]
    /\ base = [r \in Runs |-> None]
    /\ verdict = [r \in Runs |-> None]
    /\ edits = 0 /\ faults = 0
    /\ touched = [r \in Runs |-> {}] /\ missed = [r \in Runs |-> {}]
    /\ shown = {} /\ owed = [r \in Runs |-> {}] /\ unseen = {}

Goto(r, l) == pc' = [pc EXCEPT ![r] = l]
Fault == faults < MaxFaults /\ faults' = faults + 1

\* The process is gone; nothing of it is left but the baseline file.
Exit(r) ==
    /\ Goto(r, "idle")
    /\ mode' = [mode EXCEPT ![r] = None]
    /\ at' = [at EXCEPT ![r] = 1]
    /\ listed' = [listed EXCEPT ![r] = {}]
    /\ held' = [held EXCEPT ![r] = None]
    /\ inv' = [inv EXCEPT ![r] = None]
    /\ base' = [base EXCEPT ![r] = None]
    /\ verdict' = [verdict EXCEPT ![r] = None]
    /\ touched' = [touched EXCEPT ![r] = {}]
    /\ missed' = [missed EXCEPT ![r] = {}]
    /\ UNCHANGED machine

\* Its report reaches the user, or never will.
Told(r) ==
    /\ shown' = shown \cup owed[r] \cup IF verdict[r] = "drift" THEN Named(base[r], inv[r]) ELSE {}
    /\ owed' = [owed EXCEPT ![r] = {}]
    /\ UNCHANGED unseen
Untold(r) ==
    /\ unseen' = unseen \cup owed[r]
    /\ owed' = [owed EXCEPT ![r] = {}]
    /\ UNCHANGED shown

-----------------------------------------------------------------------------
(* The machine. *)

\* A component is installed, updated, tampered with or removed.
Edit(p, v) ==
    /\ edits < MaxEdits /\ v # content[p]
    /\ content' = [content EXCEPT ![p] = v]
    /\ edits' = edits + 1
    /\ touched' = [r \in Runs |-> IF pc[r] = "idle" THEN {} ELSE touched[r] \cup {p}]
    /\ UNCHANGED <<rules, baseline, pc, mode, at, listed, held, inv, base, verdict, faults,
                   missed, reviews>>

\* --install-rules or --update-feed.  A run that already loaded its rules
\* keeps them.
InstallRules(R) ==
    /\ edits < MaxEdits /\ R # rules
    /\ rules' = R
    /\ edits' = edits + 1
    /\ UNCHANGED <<content, baseline, pc, mode, at, listed, held, inv, base, verdict, faults,
                   past, reviews>>

\* The baseline file is left unreadable.  SaveBaseline does not sync before it
\* renames, so a power cut can leave an empty file behind the name.
Damage ==
    /\ Recorded /\ Fault
    /\ baseline' = Unreadable
    /\ UNCHANGED <<machine, pc, mode, at, listed, held, inv, base, verdict, past, reviews>>

-----------------------------------------------------------------------------
(* A run.  LoadRules is the first thing it does, once. *)

Start(r) == \E m \in Modes :
    /\ pc[r] = "idle"
    /\ mode' = [mode EXCEPT ![r] = m]
    /\ inv' = [inv EXCEPT ![r] = EmptyInventory(rules)]
    /\ Goto(r, "root")
    /\ UNCHANGED <<machine, baseline, at, listed, held, base, verdict, faults, past, reviews>>

\* The directories of p's root, and those of them that are there.
Siblings(p) == {q \in Places : Root[q] = Root[p]}
There(D) == {q \in D : content[q] # Absent}

Miss(r, D) == missed' = [missed EXCEPT ![r] = @ \cup D]

\* dirArtifacts lists a root.  One it cannot read, and one whose os.Stat fails,
\* holds nothing, without a note.
ReadRoot(r) ==
    /\ pc[r] = "root" /\ at[r] \in Places
    /\ LET there == There(Siblings(at[r])) IN
       \/ /\ listed' = [listed EXCEPT ![r] = there]
          /\ UNCHANGED <<faults, missed>>
       \/ /\ Fault
          /\ listed' = [listed EXCEPT ![r] = {}]
          /\ Miss(r, there)
    /\ Goto(r, "hash")
    /\ UNCHANGED <<machine, baseline, mode, at, held, inv, base, verdict, touched, reviews>>

\* On to the next directory, if it lies in the same root.
Advance(r) ==
    /\ at' = [at EXCEPT ![r] = at[r] + 1]
    /\ Goto(r, IF at[r] + 1 \in Siblings(at[r]) THEN "hash" ELSE "root")

\* Mutant: the loop stops at the first directory it passes over.
SkipBreaks(r) ==
    /\ pc[r] = "hash" /\ (at[r] \notin listed[r] \/ inv[r].cut)
    /\ at' = [at EXCEPT ![r] = NPlaces + 1]
    /\ Goto(r, "root")
    /\ UNCHANGED <<machine, baseline, mode, listed, held, inv, base, verdict, faults,
                   past, reviews>>

\* A directory the root was not found to hold does not come up; once the budget
\* is spent every directory left is passed over.
Skip(r) ==
    /\ pc[r] = "hash" /\ (at[r] \notin listed[r] \/ inv[r].cut)
    /\ Advance(r)
    /\ UNCHANGED <<machine, baseline, mode, listed, held, inv, base, verdict, faults,
                   past, reviews>>

Hashing(r) == pc[r] = "hash" /\ at[r] \in listed[r] /\ ~inv[r].cut

\* hashTree, and the metadata read right after it.  A directory that has gone
\* since its root was listed has no file to hash and is no component.
HashTree(r) ==
    /\ Hashing(r)
    /\ \/ /\ content[at[r]] # Absent
          /\ held' = [held EXCEPT ![r] = Hashed(at[r], content[at[r]], TRUE)]
          /\ Goto(r, "scan")
          /\ UNCHANGED at
       \/ content[at[r]] = Absent /\ Advance(r) /\ UNCHANGED held
    /\ UNCHANGED <<machine, baseline, mode, listed, inv, base, verdict, faults, past, reviews>>

\* The budget runs out inside hashTree, or the machine refuses a directory or a
\* file: the digest covers what was read, or there is nothing to list.  Only of
\* the budget does the report say anything.
HashTreeInPart(r) ==
    /\ Hashing(r) /\ content[at[r]] # Absent
    /\ Fault
    /\ \/ inv' = [inv EXCEPT ![r].cut = TRUE] /\ UNCHANGED missed
       \/ Miss(r, {at[r]}) /\ UNCHANGED inv
    /\ \/ /\ held' = [held EXCEPT ![r] = Hashed(at[r], content[at[r]], FALSE)]
          /\ Goto(r, "scan")
          /\ UNCHANGED at
       \/ Advance(r) /\ UNCHANGED held
    /\ UNCHANGED <<machine, baseline, mode, listed, base, verdict, touched, reviews>>

AddArtifact(r, inds, cut) ==
    /\ inv' = [inv EXCEPT ![r].arts = @ \cup {[held[r] EXCEPT !.inds = inds]},
                          ![r].cut = cut]
    /\ held' = [held EXCEPT ![r] = None]
    /\ Advance(r)

\* scanTree reads the directory again, as it is now.
ScanTree(r) ==
    /\ pc[r] = "scan"
    /\ LET v == content[at[r]] IN
       AddArtifact(r, IF inv[r].cut \/ v = Absent THEN {} ELSE Seen(v, inv[r].rules), inv[r].cut)
    /\ UNCHANGED <<machine, baseline, mode, listed, base, verdict, faults, past, reviews>>

\* The budget runs out inside scanTree: only the first matches are found.  Or a
\* file is refused: matches are missing, and some that the cap hides from a full
\* scan may show.
ScanTreeInPart(r) ==
    /\ pc[r] = "scan" /\ ~inv[r].cut /\ content[at[r]] # Absent
    /\ Fault
    /\ LET v == content[at[r]] IN
       \/ /\ \E found \in SUBSET Seen(v, inv[r].rules) : AddArtifact(r, found, TRUE)
          /\ UNCHANGED missed
       \/ /\ \E found \in SUBSET (MarksOf(v) \cap inv[r].rules) : AddArtifact(r, found, FALSE)
          /\ Miss(r, {at[r]})
    /\ UNCHANGED <<machine, baseline, mode, listed, base, verdict, touched, reviews>>

\* The inventory is sorted; from here on it does not change.
EndTake(r) ==
    /\ pc[r] = "root" /\ at[r] \notin Places
    /\ \E f \in Indexes(inv[r].arts) : inv' = [inv EXCEPT ![r].index = f]
    /\ Goto(r, "load")
    /\ UNCHANGED <<machine, baseline, mode, at, listed, held, base, verdict, faults, past, reviews>>

\* LoadBaseline finds no file: this run is the first.
LoadNone(r) ==
    /\ pc[r] = "load" /\ baseline = NoBaseline
    /\ Goto(r, "record")
    /\ UNCHANGED <<machine, baseline, mode, at, listed, held, inv, base, verdict, faults, past,
                   reviews>>

\* Mutant: every error of LoadBaseline is taken for a first run.
LoadFailsAsFirst(r) ==
    /\ pc[r] = "load" /\ baseline = Unreadable
    /\ Goto(r, "record")
    /\ UNCHANGED <<machine, baseline, mode, at, listed, held, inv, base, verdict, faults, past,
                   reviews>>

\* LoadBaseline fails: a note, and nothing is compared or saved, with --accept
\* too.
LoadFails(r) ==
    /\ pc[r] = "load" /\ baseline = Unreadable
    /\ verdict' = [verdict EXCEPT ![r] = "unread"]
    /\ Goto(r, "output")
    /\ UNCHANGED <<machine, baseline, mode, at, listed, held, inv, base, faults, past, reviews>>

\* Diff and reportChanges.
Compare(r) ==
    /\ pc[r] = "load" /\ Recorded
    /\ base' = [base EXCEPT ![r] = baseline]
    /\ verdict' = [verdict EXCEPT ![r] = IF Diff(baseline, inv[r]) = {} THEN "match" ELSE "drift"]
    /\ Goto(r, IF mode[r] = "accept" THEN "save" ELSE "output")
    /\ UNCHANGED <<machine, baseline, mode, at, listed, held, inv, faults, past, reviews>>

\* The inventory of run r becomes the accepted one, before the report that names
\* these pairs is written.
Accept(r, named) ==
    /\ baseline' = inv[r]
    /\ owed' = [owed EXCEPT ![r] = @ \cup named]

\* The first run accepts what it found; its report will say so (SUP-000).
RecordFirst(r) ==
    /\ pc[r] = "record"
    /\ \/ /\ Accept(r, Pairs(inv[r].arts))
          /\ verdict' = [verdict EXCEPT ![r] = "first"]
          /\ UNCHANGED faults
       \/ /\ Fault
          /\ UNCHANGED <<baseline, verdict, owed>>
    /\ Goto(r, "output")
    /\ UNCHANGED <<machine, mode, at, listed, held, inv, base, past, shown, unseen>>

\* --accept: saved before the report is shown.
SaveAccepted(r) ==
    /\ pc[r] = "save"
    /\ \/ Accept(r, Named(base[r], inv[r])) /\ UNCHANGED faults
       \/ Fault /\ UNCHANGED <<baseline, owed>>
    /\ Goto(r, "output")
    /\ UNCHANGED <<machine, mode, at, listed, held, inv, base, verdict, past, shown, unseen>>

\* The report is written.  A person at a terminal is asked about the changes it
\* lists; every other run ends, and so does one whose report cannot be written.
Output(r) ==
    /\ pc[r] = "output"
    /\ \/ /\ Told(r) /\ UNCHANGED faults
          /\ \/ /\ mode[r] = "prompt" /\ verdict[r] = "drift"
                /\ Goto(r, "prompt")
                /\ UNCHANGED <<machine, mode, at, listed, held, inv, base, verdict, past>>
             \/ ~(mode[r] = "prompt" /\ verdict[r] = "drift") /\ Exit(r)
       \/ Fault /\ Untold(r) /\ Exit(r)
    /\ UNCHANGED baseline

\* Mutant: the yes saves a new inventory.
AnswerRescans(r) ==
    /\ pc[r] = "prompt"
    /\ baseline' = [inv[r] EXCEPT !.arts =
           {Hashed(p, content[p], TRUE) : p \in There(Places)}]
    /\ Exit(r) /\ UNCHANGED <<faults, reviews>>

\* confirmAccept: yes saves the inventory the report was made from.
Answer(r) ==
    /\ pc[r] = "prompt"
    /\ \/ baseline' = inv[r] /\ UNCHANGED faults
       \/ Fault /\ UNCHANGED baseline
       \/ UNCHANGED <<baseline, faults>>
    /\ Exit(r) /\ UNCHANGED reviews

\* The process is killed.
Crash(r) ==
    /\ pc[r] # "idle"
    /\ Fault /\ Exit(r) /\ Untold(r) /\ UNCHANGED baseline

Step(r) ==
    \/ ReadRoot(r) \/ Skip(r) \/ HashTree(r) \/ HashTreeInPart(r)
    \/ ScanTree(r) \/ ScanTreeInPart(r)
    \/ EndTake(r) \/ LoadNone(r) \/ LoadFails(r) \/ Compare(r)
    \/ RecordFirst(r) \/ SaveAccepted(r) \/ Output(r)

Next ==
    \/ \E r \in Runs : Start(r) \/ Step(r) \/ Answer(r) \/ Crash(r)
    \/ \E p \in Places, v \in Versions \cup {Absent} : Edit(p, v)
    \/ \E R \in RuleSets : InstallRules(R)
    \/ Damage

Spec == Init /\ [][Next]_vars

\* A live run goes on (run() is sequential code, no step of it waits for
\* another run), and scans keep being started.  Nobody has to answer a prompt.
Fairness == \A r \in Runs : WF_vars(Step(r)) /\ WF_vars(Start(r))
FairSpec == Spec /\ Fairness

-----------------------------------------------------------------------------
(* Types. *)

Inventory == [arts : SUBSET Artifact, rules : RuleSets, cut : BOOLEAN,
              index : UNION {[D -> Artifact] : D \in SUBSET Ids}]

\* Every variable has its type.
TypeOK ==
    /\ content \in [Places -> Versions \cup {Absent}]
    /\ rules \in RuleSets
    /\ baseline \in Inventory \cup {NoBaseline, Unreadable}
    /\ pc \in [Runs -> {"idle", "root", "hash", "scan", "load", "record", "save", "output", "prompt"}]
    /\ mode \in [Runs -> Modes \cup {None}]
    /\ at \in [Runs -> 1..NPlaces + 1]
    /\ listed \in [Runs -> SUBSET Places]
    /\ held \in [Runs -> Artifact \cup {None}]
    /\ inv \in [Runs -> Inventory \cup {None}]
    /\ base \in [Runs -> Inventory \cup {None}]
    /\ verdict \in [Runs -> {"match", "drift", "first", "unread", None}]
    /\ edits \in 0..MaxEdits /\ faults \in 0..MaxFaults
    /\ touched \in [Runs -> SUBSET Places] /\ missed \in [Runs -> SUBSET Places]
    /\ shown \subseteq Ids \X Digests /\ unseen \subseteq Ids \X Digests
    /\ owed \in [Runs -> SUBSET (Ids \X Digests)]

-----------------------------------------------------------------------------
(* Safety. *)

\* What diff.go:59 assumes: no two components share an ID.
DistinctIds == \A p, q \in Places : Id[p] = Id[q] => p = q

\* Nothing becomes part of the accepted state behind the user's back: each
\* component of the baseline, with the digest recorded for it, is in a report
\* that was written (as added or modified, or in the first run's record), or in
\* the report of a run that has accepted it already and is about to write it, or
\* it was accepted so by a run that was killed or could not write its report
\* (--accept and a first run save before they report).  SaveBaseline must save
\* what was compared (SupplyChain, main's prompt), and describe must not miss a
\* changed digest.
NoSilentAcceptance == Recorded => Pairs(baseline.arts) \subseteq Reviewed

\* "All N installed component(s) match the accepted baseline" (SUP-002) is
\* printed only when each component has the digest it was accepted with, and
\* none is missing.
MatchIsTrue == \A r \in Runs :
    verdict[r] = "match" => Pairs(inv[r].arts) = Pairs(base[r].arts)

\* a is a complete record of content v under rules R, taken while v stood still.
IsRecordOf(a, v, R) ==
    /\ a.digest = <<Digest[v], TRUE>> /\ a.origin = Origin[v]
    /\ a.inds = Seen(v, R)

\* The directories whose state at the time of the report is known: the run's
\* walk was complete, it could read them, and nobody touched them since it
\* started.
Still(r) == IF inv[r].cut THEN {} ELSE Places \ (touched[r] \cup missed[r])

\* Accepted content u of directory p was replaced by content that carries a
\* mark u does not have, which a full scan under this run's rules finds.
RugPull(r, p, u) ==
    /\ verdict[r] = "drift" /\ p \in Still(r) /\ content[p] # Absent
    /\ Id[p] \in DOMAIN base[r].index
    /\ base[r].index[Id[p]].digest = <<Digest[u], TRUE>>
    /\ ~(Seen(content[p], inv[r].rules) \subseteq MarksOf(u))

\* A component that gained dangerous code after it was accepted is reported as
\* such (SUP-010), not as an ordinary update (SUP-011), when its accepted record
\* was taken while it stood still.  Without that condition it is false: an edit
\* between hashTree and scanTree of the accepted scan, or a mark beyond Cap,
\* gives the record indicators its digest knows nothing of.
RecordedRugPullIsCritical == \A r \in Runs, p \in Places, u \in Versions :
    RugPull(r, p, u) /\ IsRecordOf(base[r].index[Id[p]], u, base[r].rules)
        => Id[p] \in Critical(base[r], inv[r])

\* SUP-010 says of a component that it "has been modified": its digest differs.
CriticalIsModified == \A r \in Runs : verdict[r] = "drift" =>
    \A i \in Critical(base[r], inv[r]) : base[r].index[i].digest # inv[r].index[i].digest

\* SUP-010 for a component whose digest did not change has one of five causes:
\* other rules than those of the accepted scan, an edit during this scan, a file
\* this scan could not read (so that the cap hides other lines), an accepted
\* record that mixes two contents (or is incomplete), or a change in a file that
\* is scanned and not hashed (.zsh: indicators.go:72, inventory.go:91).
FalseAlarmHasCause == \A r \in Runs : verdict[r] = "drift" =>
    \A i \in Critical(base[r], inv[r]) :
        LET b == base[r].index[i]
            c == inv[r].index[i] IN
        \/ b.digest # c.digest
        \/ base[r].rules # inv[r].rules
        \/ c.place \in touched[r] \cup missed[r]
        \/ \A v \in Versions : IsRecordOf(b, v, base[r].rules)
                                    => Marks[v] # Marks[content[c.place]]

\* A component reported as removed (SUP-013) is not there, unless the report
\* also says the inventory may be incomplete, or the machine refused to let the
\* scan read the component or its root.  Of that last case no report has a word
\* (inventory.go:277, 329 and 367), and it calls removed what is there.
RemovedIsGone == \A r \in Runs : verdict[r] = "drift" =>
    \A i \in Removed(base[r], inv[r]) : \A p \in Still(r) :
        Id[p] = i => content[p] = Absent

-----------------------------------------------------------------------------
(* Action properties. *)

\* A run that reports "This is the first run" (SUP-000) found nothing accepted
\* before it.
FirstRunIsFirst ==
    [][\A r \in Runs : verdict'[r] = "first" /\ verdict[r] # "first" => baseline = NoBaseline]_vars

-----------------------------------------------------------------------------
(* Liveness, under FairSpec. *)

Unreviewed(p, v) ==
    content[p] = v /\ <<Id[p], <<Digest[v], TRUE>>>> \notin shown \cup unseen

\* A component whose content nobody has been told of is named by a report that is
\* written, as long as it stays, unless a run accepts it and then fails to report
\* it, the baseline cannot be read, or every scan alive waits at its prompt.
DriftIsReported == \A p \in Places, v \in Versions :
    Recorded /\ Unreviewed(p, v)
        ~> \/ ~Unreviewed(p, v)
           \/ baseline = Unreadable
           \/ \A r \in Runs : pc[r] = "prompt"

\* --accept "records the current components as the new known-good baseline",
\* also when the recorded one has become unreadable.
AcceptRecovers == baseline = Unreadable ~> Recorded

-----------------------------------------------------------------------------
(* The ledger of reviews the runs keep together, any number of them at once. *)

L == INSTANCE Ledger WITH
        accepted <- IF Recorded THEN Pairs(baseline.arts) ELSE baseline,
        early    <- {r \in Runs : pc[r] = "record"},
        Scans    <- Runs,
        Nothing  <- NoBaseline,
        Lost     <- Unreadable

ImplementsLedger == L!Spec
=============================================================================
