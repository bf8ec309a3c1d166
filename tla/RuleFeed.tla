------------------------------ MODULE RuleFeed ------------------------------
(***************************************************************************)
(* The signed rule file of aiexpose (internal/feed): the cache that        *)
(* --install-rules and --update-feed write, and the two loads a scan makes *)
(* of it, LoadRules (checks/rules.go) and reportKnownBad                   *)
(* (checks/supply.go).                                                     *)
(*                                                                         *)
(* The cache is a pair of files, the document and its signature.  Each is  *)
(* replaced by writing path.tmp and renaming it; the pair is not replaced  *)
(* as one.  The names of the temporary files are shared by all processes.  *)
(* Several installs and scans can be alive at once, and each can be        *)
(* stopped or fail between any two system calls.                           *)
(*                                                                         *)
(* A signature is written as the document it signs.                        *)
(***************************************************************************)
EXTENDS Naturals, Sequences

CONSTANTS
    Writers,      \* invocations with --install-rules or --update-feed
    Scans,        \* invocations that scan
    Docs,         \* the documents the key holder has signed
    Version,      \* Version[d]: its dotted numbers, or Unversioned
    Base,         \* a number no part of a version reaches
    Builtin,      \* the document compiled into the program: of no version and
                  \* empty, unless the build bundles its rules
    Beside,       \* the pair beside the executable, [doc |-> d, sig |-> s]
    MaxWrites,    \* bound on the installs
    MaxFaults,    \* bound on failed calls and killed processes
    Missing, Torn, Empty, Unversioned, None

Files    == {"doc", "sig"}
Contents == Docs \cup {Torn, Empty}    \* Torn: the bytes of no whole file
Pair     == [Files -> Docs \cup {Torn, Missing}]

ASSUME VersionAssumption ==
    /\ Version \in [Docs -> Seq(Nat) \cup {Unversioned}]
    /\ Unversioned \notin Seq(Nat)
\* Versions are dates, with a number for the day when there is more than one
\* (2026.09.11.1, feed.go:291).
ASSUME DateAssumption ==
    /\ Base \in Nat \ {0}
    /\ \A d \in Docs : Version[d] # Unversioned =>
          Len(Version[d]) <= 4 /\ \A i \in DOMAIN Version[d] : Version[d][i] < Base
ASSUME ShippedAssumption == Builtin \in Docs /\ Beside \in Pair
ASSUME LimitsAssumption == MaxWrites \in Nat /\ MaxFaults \in Nat
ASSUME DistinctAssumption ==
    {Missing, Torn, Empty, None} \cap Docs = {} /\ None # Missing

VARIABLES
    live,         \* live[f]: content of the cache file f, or Missing
    tmp,          \* tmp[f]: content of f.tmp, or Missing
    wpc,          \* wpc[w]: the next call of install w, <<"open", f>> for one
    payload,      \* payload[w]: the verified pair w is writing
    fd,           \* fd[w]: where the file w has open is now
    spc,          \* spc[s]: the next step of scan s
    read,         \* read[s]: the cached document s has read
    used,         \* used[s]: what each of its two loads returned
    writes, faults,\* used up bounds
    overlapped,   \* history: the installs of this stretch that had company
    crowded,      \* history: two installs have been alive at once
    promise,      \* history: the document the last install reported, None once
                  \* another one started
    due           \* history: due[s], the promise when the load of s started

cache == <<live, tmp>>
installs == <<writes, overlapped, crowded>>
writerVars == <<wpc, payload, fd, installs>>
scanVars == <<spc, read, used>>
vars == <<cache, writerVars, scanVars, faults, promise, due>>

-----------------------------------------------------------------------------
(* Versions and documents. *)

Part(v, i) == IF i \in DOMAIN v THEN v[i] ELSE 0

\* Mutant: only the parts both versions have are compared.
NewerInCommon(a, b) ==
    /\ a # Unversioned
    /\ \/ b = Unversioned
       \/ \E i \in DOMAIN a \cap DOMAIN b :
              /\ Part(a, i) > Part(b, i)
              /\ \A j \in 1..i - 1 : Part(a, j) = Part(b, j)

\* newerVersion: the first part that differs decides, a missing part is 0, and a
\* version that is not dotted numbers is older than every other.
NewerVersion(a, b) ==
    /\ a # Unversioned
    /\ \/ b = Unversioned
       \/ \E i \in DOMAIN a \cup DOMAIN b :
              /\ Part(a, i) > Part(b, i)
              /\ \A j \in 1..i - 1 : Part(a, j) = Part(b, j)

Newer(d, e) == NewerVersion(Version[d], Version[e])

Verify(doc, sig) == doc \in Docs /\ sig = doc

\* consider: a candidate replaces the best one so far when it verifies and is
\* newer.
Consider(best, doc, sig) ==
    IF Verify(doc, sig) /\ (best = None \/ Newer(doc, best)) THEN doc ELSE best

\* Mutants: the cache is taken as it is, or the moment it verifies.
LoadUnverified(doc, sig) == IF doc # Missing THEN doc ELSE Builtin

LoadFirst(doc, sig) ==
    IF Verify(doc, sig) THEN doc
    ELSE Consider(Consider(None, Beside["doc"], Beside["sig"]), Builtin, Builtin)

\* Load without an explicit path, for what it read from the cache: the cache,
\* the pair beside the executable, the builtin document.
Load(doc, sig) ==
    Consider(Consider(Consider(None, doc, sig), Beside["doc"], Beside["sig"]),
             Builtin, Builtin)

-----------------------------------------------------------------------------
Init ==
    /\ live = [f \in Files |-> Missing]
    /\ tmp = [f \in Files |-> Missing]
    /\ wpc = [w \in Writers |-> <<"idle">>]
    /\ payload = [w \in Writers |-> None]
    /\ fd = [w \in Writers |-> None]
    /\ spc = [s \in Scans |-> "idle"]
    /\ read = [s \in Scans |-> None]
    /\ used = [s \in Scans |-> [rules |-> None, list |-> None]]
    /\ writes = 0 /\ faults = 0
    /\ overlapped = {}
    /\ crowded = FALSE
    /\ promise = None
    /\ due = [s \in Scans |-> None]

Fault == faults < MaxFaults /\ faults' = faults + 1

WriterAt(w, l) == wpc' = [wpc EXCEPT ![w] = l]
Alive == {w \in Writers : wpc[w] # <<"idle">>}

-----------------------------------------------------------------------------
(* Installing: InstallFromFile and Update, then cache. *)

\* The pair is read or downloaded.  A pair that does not verify ends the install
\* here, with the cache as it was.
Obtain(w, doc, sig) ==
    /\ wpc[w] = <<"idle">> /\ writes < MaxWrites
    /\ Verify(doc, sig)
    /\ WriterAt(w, <<"open", "doc">>)
    /\ payload' = [payload EXCEPT ![w] = [doc |-> doc, sig |-> sig]]
    /\ writes' = writes + 1
    /\ overlapped' = IF Alive = {} THEN {} ELSE overlapped \cup Alive \cup {w}
    /\ crowded' = (crowded \/ Alive # {})
    /\ promise' = None
    /\ due' = [s \in Scans |-> None]
    /\ UNCHANGED <<cache, fd, scanVars, faults>>

\* Mutant: the live file is opened, not the temporary one.
OpenLive(w, f) ==
    /\ wpc[w] = <<"open", f>>
    /\ live' = [live EXCEPT ![f] = Empty]
    /\ fd' = [fd EXCEPT ![w] = "live"]
    /\ WriterAt(w, <<"write", f>>)
    /\ UNCHANGED <<tmp, payload, installs, scanVars, faults, promise, due>>

\* Mutant: a temporary file that is there is not truncated.
OpenKeeps(w, f) ==
    /\ wpc[w] = <<"open", f>>
    /\ tmp' = [tmp EXCEPT ![f] = IF @ = Missing THEN Empty ELSE @]
    /\ fd' = [fd EXCEPT ![w] = "tmp"]
    /\ WriterAt(w, <<"write", f>>)
    /\ UNCHANGED <<live, payload, installs, scanVars, faults, promise, due>>

\* os.WriteFile creates or truncates the temporary file.
Open(w, f) ==
    /\ wpc[w] = <<"open", f>>
    /\ tmp' = [tmp EXCEPT ![f] = Empty]
    /\ fd' = [fd EXCEPT ![w] = "tmp"]
    /\ WriterAt(w, <<"write", f>>)
    /\ UNCHANGED <<live, payload, installs, scanVars, faults, promise, due>>

\* The content of a file after w has written it, from its start: the rest of a
\* longer content another install has put there can remain.
Written(old, new) == IF old \in {Empty, new} THEN {new} ELSE {new, Torn}

Write(w, f) ==
    /\ wpc[w] = <<"write", f>>
    /\ \/ /\ fd[w] = "tmp"
          /\ \E c \in Written(tmp[f], payload[w][f]) : tmp' = [tmp EXCEPT ![f] = c]
          /\ UNCHANGED live
       \/ /\ fd[w] = "live"
          /\ \E c \in Written(live[f], payload[w][f]) : live' = [live EXCEPT ![f] = c]
          /\ UNCHANGED tmp
       \/ fd[w] = "replaced" /\ UNCHANGED cache
    /\ fd' = [fd EXCEPT ![w] = None]
    /\ WriterAt(w, <<"rename", f>>)
    /\ UNCHANGED <<payload, installs, scanVars, faults, promise, due>>

\* Where the file v has open is, after the temporary file f was renamed.
Moved(v, f) ==
    IF wpc[v] # <<"write", f>> THEN fd[v]
    ELSE IF fd[v] = "tmp" THEN "live" ELSE "replaced"

Replace(w, f) ==
    /\ wpc[w] = <<"rename", f>> /\ tmp[f] # Missing
    /\ live' = [live EXCEPT ![f] = tmp[f]]
    /\ tmp' = [tmp EXCEPT ![f] = Missing]
    /\ fd' = [v \in Writers |-> Moved(v, f)]

Quit(w) ==
    /\ WriterAt(w, <<"idle">>)
    /\ payload' = [payload EXCEPT ![w] = None]

\* The document is in place, its signature comes next.
RenameDoc(w) ==
    /\ Replace(w, "doc")
    /\ WriterAt(w, <<"open", "sig">>)
    /\ UNCHANGED <<payload, installs, scanVars, faults, promise, due>>

\* "Signature verified. Every scan from now on uses these."
RenameSig(w) ==
    /\ Replace(w, "sig")
    /\ promise' = IF w \notin overlapped THEN payload[w]["doc"] ELSE None
    /\ Quit(w)
    /\ UNCHANGED <<installs, scanVars, faults, due>>

\* The temporary file is gone: another install has renamed it.
RenameFails(w, f) ==
    /\ wpc[w] = <<"rename", f>> /\ tmp[f] = Missing
    /\ Quit(w)
    /\ UNCHANGED <<cache, fd, installs, scanVars, faults, promise, due>>

\* A call fails, and the install returns its error, or the process is killed.
\* What it was writing can be there in part.
Abort(w) ==
    /\ wpc[w] # <<"idle">> /\ Fault
    /\ \/ UNCHANGED cache
       \/ \E f \in Files :
             /\ wpc[w] = <<"write", f>>
             /\ \/ fd[w] = "tmp" /\ tmp' = [tmp EXCEPT ![f] = Torn] /\ UNCHANGED live
                \/ fd[w] = "live" /\ live' = [live EXCEPT ![f] = Torn] /\ UNCHANGED tmp
    /\ fd' = [fd EXCEPT ![w] = None]
    /\ Quit(w)
    /\ UNCHANGED <<installs, scanVars, promise, due>>

-----------------------------------------------------------------------------
(* A scan.  It loads the rules, walks the machine, and loads the feed a       *)
(* second time for its list of known-bad components.                         *)

ScanAt(s, l) == spc' = [spc EXCEPT ![s] = l]

\* loadCache reads the document.
ReadDoc(s) ==
    /\ \/ spc[s] = "idle" /\ ScanAt(s, "rules")
          /\ used' = [used EXCEPT ![s] = [rules |-> None, list |-> None]]
       \/ spc[s] = "scan" /\ ScanAt(s, "list") /\ UNCHANGED used
    /\ read' = [read EXCEPT ![s] = live["doc"]]
    /\ due' = [due EXCEPT ![s] = promise]
    /\ UNCHANGED <<cache, writerVars, faults, promise>>

\* It reads the signature, and Load chooses.
LoadRules(s) ==
    /\ spc[s] = "rules"
    /\ used' = [used EXCEPT ![s].rules = Load(read[s], live["sig"])]
    /\ read' = [read EXCEPT ![s] = None]
    /\ ScanAt(s, "scan")
    /\ UNCHANGED <<cache, writerVars, faults, promise, due>>

LoadList(s) ==
    /\ spc[s] = "list"
    /\ used' = [used EXCEPT ![s].list = Load(read[s], live["sig"])]
    /\ read' = [read EXCEPT ![s] = None]
    /\ ScanAt(s, "report")
    /\ UNCHANGED <<cache, writerVars, faults, promise, due>>

\* The report is written, or the process is killed.
EndScan(s) ==
    /\ spc[s] \in {"scan", "report"}
    /\ ScanAt(s, "idle")
    /\ read' = [read EXCEPT ![s] = None]
    /\ used' = [used EXCEPT ![s] = [rules |-> None, list |-> None]]
    /\ due' = [due EXCEPT ![s] = None]
    /\ UNCHANGED <<cache, writerVars, faults, promise>>

WriterNext(w) ==
    \/ \E d, s \in Docs \cup {Torn} : Obtain(w, d, s)
    \/ \E f \in Files : Open(w, f) \/ Write(w, f) \/ RenameFails(w, f)
    \/ RenameDoc(w) \/ RenameSig(w) \/ Abort(w)

ScanNext(s) == ReadDoc(s) \/ LoadRules(s) \/ LoadList(s) \/ EndScan(s)

Next ==
    \/ \E w \in Writers : WriterNext(w)
    \/ \E s \in Scans : ScanNext(s)

Spec == Init /\ [][Next]_vars

-----------------------------------------------------------------------------
\* Every variable has its type.
TypeOK ==
    /\ live \in [Files -> Contents \cup {Missing}]
    /\ tmp \in [Files -> Contents \cup {Missing}]
    /\ wpc \in [Writers -> {<<"idle">>} \cup ({"open", "write", "rename"} \X Files)]
    /\ payload \in [Writers -> [Files -> Docs] \cup {None}]
    /\ fd \in [Writers -> {"tmp", "live", "replaced", None}]
    /\ spc \in [Scans -> {"idle", "rules", "scan", "list", "report"}]
    /\ read \in [Scans -> Contents \cup {Missing, None}]
    /\ used \in [Scans -> [rules : Docs \cup {None}, list : Docs \cup {None}]]
    /\ writes \in 0..MaxWrites /\ faults \in 0..MaxFaults
    /\ overlapped \subseteq Writers /\ crowded \in BOOLEAN
    /\ promise \in Docs \cup {None}
    /\ due \in [Scans -> Docs \cup {None}]

-----------------------------------------------------------------------------
(* Safety. *)

\* A load in progress has its result in no field yet; after it, this is the
\* document it returned.
Loaded(s) ==
    CASE spc[s] = "scan"   -> {used[s].rules}
      [] spc[s] = "report" -> {used[s].list}
      [] OTHER             -> {}

\* Reference: when a document was signed, as one number.
Signed(d) ==
    LET v == Version[d] IN
    IF v = Unversioned THEN 0
    ELSE 1 + ((Part(v, 1) * Base + Part(v, 2)) * Base + Part(v, 3)) * Base + Part(v, 4)

\* What the load of s cannot have missed: a pair that verifies beside the
\* executable, and what an install that had the cache to itself reported as
\* installed, as long as no other one has started since.
Offered(s) ==
    {d \in Docs : \/ d = due[s]
                  \/ Verify(Beside["doc"], Beside["sig"]) /\ d = Beside["doc"]}

\* A scan works with the latest signed of these documents, or with a later one:
\* an old cache does not shadow a release, a release does not shadow what was
\* installed later, and installs that stopped half way before leave nothing that
\* could.  When there is neither, or while an install is being written, a scan
\* can be left with the built-in document, which has no rules in the default
\* build (RULE-001), or with an old file beside the executable (RULE-002).
LatestIsUsed == \A s \in Scans : \A d \in Loaded(s) :
    \A e \in Offered(s) : Signed(e) <= Signed(d)

\* Installs that do not overlap replace each cache file whole: a reader never
\* sees a part of one, whatever call of an install fails and whenever it is
\* killed.  (The machine keeps its power here: writeAtomic does not sync.)
CacheFilesAreWhole == ~crowded => \A f \in Files : live[f] \in Docs \cup {Missing}

\* The rules a scan works with and the list it checks components against are
\* the same document: the feed is "loaded once, before any check runs".
OneFeedPerScan == \A s \in Scans : spc[s] = "report" => used[s].list = used[s].rules
=============================================================================
