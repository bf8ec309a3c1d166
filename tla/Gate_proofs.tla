---------------------------- MODULE Gate_proofs ----------------------------
(***************************************************************************)
(* Proofs about the gate: its types, what it reports of waivers, of the    *)
(* lockfile and of the known-bad list, and what a green build means.       *)
(***************************************************************************)
EXTENDS Gate, LeastNumber

\* A hit is about a component of the inventory.
LEMMA HitsAreOfComponents ==
    ASSUME NEW E, NEW C, NEW h \in Hits(E, C)
    PROVE  h.comp \in C /\ h.unresolved \in BOOLEAN
<1>1. PICK p \in E \X C : h = [entry |-> p[1], comp |-> p[2],
                               unresolved |-> Matches(p[1], p[2]) = "unresolved"]
  BY DEF Hits
<1> QED BY <1>1

\* What is raised is about one of the given components, is not ignored, and has a
\* waiver exactly when an exemption holds.
LEMMA RaisedIsAbout ==
    ASSUME NEW r, NEW S, NEW open, NEW v \in Raised(r, S, open)
    PROVE  \E c \in S : /\ v = [rule |-> r, place |-> c.place, level |-> pol.level[r],
                                waived |-> Exempt(r, c), open |-> open]
                        /\ pol.level[r] # "ignore"
BY DEF Raised

\* What is raised is raised under the rule it was asked for.
LEMMA RaisedRule == \A r, S, open : \A v \in Raised(r, S, open) : v.rule = r
BY DEF Raised

\* The gate that could not be asked is told as a violation of its own.
LEMMA UnevaluableIsTyped ==
    Unevaluable \subseteq Violations /\ \A v \in Unevaluable : ~v.waived /\ v.rule = "risk_indicator"
<1> DEFINE one == [rule |-> "risk_indicator", place |-> None,
                   level |-> IF "error" \in Asked THEN "error" ELSE "warn",
                   waived |-> FALSE, open |-> FALSE]
<1>1. one \in Violations
  BY DEF Violations, Levels, Rules
<1>2. Unevaluable \subseteq {one}
  BY DEF Unevaluable
<1>3. ~one.waived /\ one.rule = "risk_indicator"
  OBVIOUS
<1> HIDE DEF one
<1> QED BY <1>1, <1>2, <1>3

\* Raised yields violations of known rules, places and levels.
LEMMA RaisedIsTyped ==
    ASSUME NEW r \in Rules, NEW S \in SUBSET Components, NEW open \in BOOLEAN, IsPolicy(pol)
    PROVE  Raised(r, S, open) \subseteq Violations
<1>1. SUFFICES ASSUME NEW v \in Raised(r, S, open) PROVE v \in Violations
  OBVIOUS
<1>2. PICK c \in S : /\ v = [rule |-> r, place |-> c.place, level |-> pol.level[r],
                             waived |-> Exempt(r, c), open |-> open]
                     /\ pol.level[r] # "ignore"
  BY <1>1, RaisedIsAbout
<1>3. c.place \in Places
  BY <1>2 DEF Components
<1>4. pol.level[r] \in Levels \ {"ignore"}
  BY <1>2 DEF IsPolicy
<1>5. Exempt(r, c) \in BOOLEAN
  BY DEF Exempt
<1> QED BY <1>2, <1>3, <1>4, <1>5 DEF Violations

\* What a walk records of a place is a component.
LEMMA ComponentIsTyped ==
    ASSUME NEW p \in Places, repo[p] \in Contents, ruled \in BOOLEAN,
           NEW w \in BOOLEAN, NEW s \in BOOLEAN
    PROVE  Component(p, w, s) \in Components
<1>1. /\ repo[p].danger \in BOOLEAN /\ repo[p].server \in BOOLEAN
      /\ repo[p].unpinned \in BOOLEAN
  BY ContentsAssumption
<1>2. <<repo[p].digest, w \/ repo[p].server>> \in {c.digest : c \in Contents} \X BOOLEAN
  BY <1>1
<1>3. (repo[p].danger /\ s /\ ruled) \in BOOLEAN
  BY <1>1
<1> QED BY <1>1, <1>2, <1>3, PlacesAssumption DEF Component, Components

\* A lockfile of components holds entries.
LEMMA LockIsTyped ==
    ASSUME NEW S \in SUBSET Components
    PROVE  NewLock(S) \subseteq Entry
BY DEF NewLock, Entry, Components

\* A repository starts with every variable of its type.
LEMMA InitTyped == Init => TypeOK
<1> SUFFICES ASSUME Init PROVE TypeOK
  OBVIOUS
<1>1. IsPolicy(DefaultPolicy)
  BY DEF IsPolicy, DefaultPolicy, Levels, Rules
<1>2. repo \in [Places -> Contents \cup {Absent}] /\ feed \in Feeds \cup {None}
  BY StartAssumption DEF Init
<1>3. NoFlags \in Flags
  BY DEF NoFlags, Flags
<1>4. checked \in [lock : (SUBSET Entry) \cup {None, Absent}, agreed : BOOLEAN, list : Feeds \cup {None}]
  BY DEF Init, Unchecked
<1>5. day \in 0..MaxDay /\ events \in 0..MaxEvents
  BY LimitsAssumption DEF Init
<1>6. policyFile \in Policies \cup {Absent, Unreadable} /\ lockFile \in (SUBSET Entry) \cup {Absent, Unreadable}
  BY DEF Init
<1>7. pc \in Stages
  BY DEF Init, Stages
<1> QED BY <1>1, <1>2, <1>3, <1>4, <1>5, <1>6, <1>7 DEF Init, TypeOK

-----------------------------------------------------------------------------
(* Types.  The parts of TypeOK are those an action leaves alone together. *)

FilesTyped ==
    /\ repo \in [Places -> Contents \cup {Absent}]
    /\ policyFile \in Policies \cup {Absent, Unreadable}
    /\ lockFile \in (SUBSET Entry) \cup {Absent, Unreadable}
    /\ feed \in Feeds \cup {None} /\ day \in 0..MaxDay

RunTyped ==
    /\ pc \in Stages /\ opt \in Flags
    /\ IsPolicy(pol)
    /\ ruled \in BOOLEAN /\ cut \in BOOLEAN /\ inv \subseteq Components

ResultTyped ==
    /\ viols \subseteq Violations
    /\ notes \subseteq {"no rules", "cut", "no list", "no lock"} /\ lapsed \subseteq Exemptions
    /\ exit \in {None, 0, 1, 2}

HistoryTyped ==
    /\ reviewed \subseteq Entry
    /\ agreed \in BOOLEAN /\ calm \in BOOLEAN /\ missed \subseteq Places
    /\ checked \in [lock : (SUBSET Entry) \cup {None, Absent}, agreed : BOOLEAN,
                    list : Feeds \cup {None}]

\* The type invariant falls into the parts a step can disturb.
LEMMA TypeParts ==
    TypeOK => FilesTyped /\ RunTyped /\ ResultTyped /\ HistoryTyped /\ events \in 0..MaxEvents
BY DEF TypeOK, FilesTyped, RunTyped, ResultTyped, HistoryTyped

\* The parts together are the type invariant of the next state.
LEMMA TypeWhole ==
    FilesTyped' /\ RunTyped' /\ ResultTyped' /\ HistoryTyped' /\ events' \in 0..MaxEvents => TypeOK'
BY DEF TypeOK, FilesTyped, RunTyped, ResultTyped, HistoryTyped

\* Steps that leave the files alone keep their types.
LEMMA FilesKept == FilesTyped /\ UNCHANGED files => FilesTyped'
BY DEF FilesTyped, files

\* Steps that leave the history alone keep its types.
LEMMA HistoryKept == HistoryTyped /\ UNCHANGED history => HistoryTyped'
BY DEF HistoryTyped, history

\* Steps that report nothing keep the types of the report.
LEMMA ResultKept == ResultTyped /\ UNCHANGED <<viols, notes, lapsed, exit>> => ResultTyped'
BY DEF ResultTyped

\* The default policy has a level for every rule.
LEMMA DefaultIsPolicy == IsPolicy(DefaultPolicy)
BY DEF IsPolicy, DefaultPolicy, Levels, Rules

\* An event stays within its bound.
LEMMA EventCounts == events \in 0..MaxEvents /\ Event => events' \in 0..MaxEvents
BY LimitsAssumption DEF Event

\* A run that returns an error keeps the types of its state.
LEMMA FailsTyped == RunTyped /\ ResultTyped /\ Fails => RunTyped' /\ ResultTyped'
BY DEF RunTyped, ResultTyped, Fails, Stages, IsPolicy

\* A started run has a typed state.
LEMMA StartRunTyped ==
    ASSUME TypeOK, NEW o \in Options, StartRun(o)
    PROVE  TypeOK'
<1>1. FilesTyped /\ HistoryTyped /\ events \in 0..MaxEvents
  BY TypeParts
<1>2. pc' \in Stages /\ opt' \in Flags
  BY OptionsAssumption DEF StartRun, Stages
<1>3. ruled' \in BOOLEAN /\ cut' \in BOOLEAN /\ inv' \subseteq Components
  BY DEF StartRun
<1>4. IsPolicy(pol)'
  BY DefaultIsPolicy DEF StartRun, IsPolicy
<1>5. RunTyped'
  BY <1>2, <1>3, <1>4 DEF RunTyped
<1>6. ResultTyped'
  BY DEF StartRun, ResultTyped
<1>7. HistoryTyped'
  BY <1>1 DEF StartRun, HistoryTyped, Unchecked
<1>8. FilesTyped' /\ events' \in 0..MaxEvents
  BY <1>1, FilesKept DEF StartRun
<1> QED BY <1>5, <1>6, <1>7, <1>8, TypeWhole

\* A loaded policy is complete: what the file does not name has its default.
LEMMA LoadPolicyTyped ==
    ASSUME TypeOK, LoadPolicy
    PROVE  TypeOK'
<1>1. FilesTyped /\ RunTyped /\ ResultTyped /\ HistoryTyped /\ events \in 0..MaxEvents
  BY TypeParts
<1>2. UNCHANGED <<files, history, events>>
  BY DEF LoadPolicy
<1>3. ResultTyped' /\ RunTyped'
  <2>1. CASE Fails
    BY <1>1, <2>1, FailsTyped
  <2>2. CASE Step("policy", "rules") /\ policyFile # Unreadable /\ ~Fails
    <3>1. ASSUME policyFile \in Policies
          PROVE  IsPolicy([level |-> [r \in Rules |-> IF r \in DOMAIN policyFile.level
                                         THEN policyFile.level[r] ELSE DefaultPolicy.level[r]],
                           exemptions |-> policyFile.exemptions])
      <4>1. PICK R \in SUBSET Rules : policyFile.level \in [R -> Levels]
        BY <3>1, PoliciesAssumption
      <4>2. policyFile.exemptions \subseteq Exemptions
        BY <3>1, PoliciesAssumption
      <4> QED BY DefaultIsPolicy, <4>1, <4>2 DEF IsPolicy
    <3>2. IsPolicy(pol')
      BY <1>1, <2>2, <3>1, DefaultIsPolicy DEF LoadPolicy, FilesTyped
    <3>3. UNCHANGED <<ruled, inv, cut, viols, notes, lapsed, exit>>
      BY <2>2 DEF LoadPolicy
    <3>4. RunTyped'
      BY <1>1, <2>2, <3>2, <3>3 DEF Step, RunTyped, Stages, IsPolicy
    <3> QED BY <1>1, <3>3, <3>4, ResultKept
  <2> QED BY <2>1, <2>2 DEF LoadPolicy
<1> QED BY <1>1, <1>2, <1>3, FilesKept, HistoryKept, TypeWhole

\* Installing rules keeps the types.
LEMMA InstallRulesTyped ==
    ASSUME TypeOK, InstallRules
    PROVE  TypeOK'
<1>1. FilesTyped /\ RunTyped /\ ResultTyped /\ HistoryTyped /\ events \in 0..MaxEvents
  BY TypeParts
<1>2. ruled' \in BOOLEAN
  <2>1. ruled' = (~opt.noFeed /\ feed # None /\ feed.rules)
    BY DEF InstallRules
  <2> QED BY <2>1
<1>3. RunTyped'
  BY <1>1, <1>2 DEF InstallRules, Step, RunTyped, Stages, IsPolicy
<1>4. ResultTyped'
  BY <1>1 DEF InstallRules, ResultTyped
<1> QED BY <1>1, <1>3, <1>4, FilesKept, HistoryKept, TypeWhole DEF InstallRules

\* An inventory holds components.
LEMMA TakeProjectTyped ==
    ASSUME TypeOK, TakeProject
    PROVE  TypeOK'
<1>1. FilesTyped /\ RunTyped /\ ResultTyped /\ HistoryTyped /\ events \in 0..MaxEvents
  BY TypeParts
<1>2. UNCHANGED <<files, history, events>>
  BY DEF TakeProject
<1>3. RunTyped' /\ ResultTyped'
  <2>1. CASE Fails
    BY <1>1, <2>1, FailsTyped
  <2>2. CASE ~Fails
    <3>1. \A p \in Present : repo[p] \in Contents /\ p \in Places
      BY <1>1 DEF FilesTyped, Present
    <3>2. inv' \subseteq Components
      <4>1. inv' = {Component(p, TRUE, TRUE) :
                      p \in {q \in Present : opt.root = "dir" /\ repo[q].parses}}
        BY <2>2 DEF TakeProject
      <4>2. \A p \in Present : Component(p, TRUE, TRUE) \in Components
        BY <1>1, <3>1, ComponentIsTyped DEF RunTyped
      <4> QED BY <4>1, <4>2
    <3>3. UNCHANGED <<pol, ruled, cut, viols, notes, lapsed, exit>>
      BY <2>2 DEF TakeProject
    <3>4. RunTyped'
      BY <1>1, <2>2, <3>2, <3>3 DEF TakeProject, Step, RunTyped, Stages, IsPolicy
    <3> QED BY <1>1, <3>3, <3>4, ResultKept
  <2> QED BY <2>1, <2>2
<1> QED BY <1>1, <1>2, <1>3, FilesKept, HistoryKept, TypeWhole

\* So does one whose budget ran out.
LEMMA TakeProjectCutTyped ==
    ASSUME TypeOK, TakeProjectCut
    PROVE  TypeOK'
<1>1. FilesTyped /\ RunTyped /\ ResultTyped /\ HistoryTyped /\ events \in 0..MaxEvents
  BY TypeParts
<1>2. \A p \in Present : repo[p] \in Contents /\ p \in Places
  BY <1>1 DEF FilesTyped, Present
<1>3. inv' \subseteq Components
  <2>1. PICK S \in SUBSET {q \in Present : repo[q].parses}, last \in Places, whole \in BOOLEAN :
            inv' = {Component(p, p # last \/ whole, p # last) : p \in S}
    BY DEF TakeProjectCut
  <2>2. ASSUME NEW p \in S
        PROVE  Component(p, p # last \/ whole, p # last) \in Components
    BY <1>1, <1>2, ComponentIsTyped DEF RunTyped
  <2> QED BY <2>1, <2>2
<1>4. UNCHANGED <<pol, ruled>> /\ cut' = TRUE /\ Step("walk", "assess")
  BY DEF TakeProjectCut
<1>5. RunTyped'
  BY <1>1, <1>3, <1>4 DEF Step, RunTyped, Stages, IsPolicy
<1>6. ResultTyped'
  BY <1>1 DEF TakeProjectCut, ResultTyped
<1> QED BY <1>1, <1>5, <1>6, FilesKept, HistoryKept, EventCounts, TypeWhole DEF TakeProjectCut

\* So does one that was refused some of its files.
LEMMA TakeProjectRefusedTyped ==
    ASSUME TypeOK, TakeProjectRefused
    PROVE  TypeOK'
<1>1. FilesTyped /\ RunTyped /\ ResultTyped /\ HistoryTyped /\ events \in 0..MaxEvents
  BY TypeParts
<1>2. \A p \in Present : repo[p] \in Contents /\ p \in Places
  BY <1>1 DEF FilesTyped, Present
<1>3. inv' \subseteq Components /\ missed' \subseteq Places
  <2>1. PICK M \in SUBSET {q \in Present : repo[q].parses} : \E partly \in SUBSET M, blind \in SUBSET M :
            /\ inv' = {Component(p, p \notin M, p \notin blind) :
                         p \in {q \in Present : repo[q].parses} \ (M \ partly)}
            /\ missed' = M
    BY DEF TakeProjectRefused
  <2>2. PICK partly \in SUBSET M, blind \in SUBSET M :
            /\ inv' = {Component(p, p \notin M, p \notin blind) :
                         p \in {q \in Present : repo[q].parses} \ (M \ partly)}
            /\ missed' = M
    BY <2>1
  <2>3. ASSUME NEW p \in Present
        PROVE  Component(p, p \notin M, p \notin blind) \in Components
    BY <1>1, <1>2, ComponentIsTyped DEF RunTyped
  <2>4. M \subseteq Places
    BY <1>2
  <2> QED BY <2>2, <2>3, <2>4
<1>4. UNCHANGED <<pol, ruled, cut>> /\ Step("walk", "assess")
  BY DEF TakeProjectRefused
<1>5. RunTyped'
  BY <1>1, <1>3, <1>4 DEF Step, RunTyped, Stages, IsPolicy
<1>6. ResultTyped'
  BY <1>1 DEF TakeProjectRefused, ResultTyped
<1>7. HistoryTyped'
  BY <1>1, <1>3 DEF TakeProjectRefused, HistoryTyped
<1> QED BY <1>1, <1>5, <1>6, <1>7, FilesKept, EventCounts, TypeWhole DEF TakeProjectRefused

\* What the inventory alone shows are violations.
LEMMA AssessTyped ==
    ASSUME TypeOK, Assess
    PROVE  TypeOK'
<1>1. FilesTyped /\ RunTyped /\ ResultTyped /\ HistoryTyped /\ events \in 0..MaxEvents
  BY TypeParts
<1>2. IsPolicy(pol) /\ inv \subseteq Components
  BY <1>1 DEF RunTyped
<1>3. Raised("risk_indicator", {c \in inv : c.danger}, FALSE) \subseteq Violations
  BY <1>2, RaisedIsTyped DEF Rules
<1>4. Raised("unpinned_package", {c \in inv : c.unpinned}, FALSE) \subseteq Violations
  BY <1>2, RaisedIsTyped DEF Rules
<1>5. viols' \subseteq Violations
  BY <1>3, <1>4, UnevaluableIsTyped DEF Assess
<1>6. lapsed' \subseteq Exemptions
  BY <1>2 DEF Assess, IsPolicy
<1>7. ResultTyped'
  BY <1>1, <1>5, <1>6 DEF Assess, ResultTyped
<1>8. RunTyped'
  BY <1>1 DEF Assess, Step, RunTyped, Stages, IsPolicy
<1> QED BY <1>1, <1>7, <1>8, FilesKept, HistoryKept, TypeWhole DEF Assess

\* What the known-bad list raises is about components of the inventory.
LEMMA ListRaises ==
    ASSUME NEW E, NEW v \in UNION {Raised("known_bad", {h.comp}, h.unresolved) : h \in Hits(E, inv)}
    PROVE  \E c \in inv, open \in BOOLEAN : v \in Raised("known_bad", {c}, open)
<1>1. PICK h \in Hits(E, inv) : v \in Raised("known_bad", {h.comp}, h.unresolved)
  OBVIOUS
<1> QED BY <1>1, HitsAreOfComponents

\* What the known-bad list adds are violations.
LEMMA MatchFeedTyped ==
    ASSUME TypeOK, MatchFeed
    PROVE  TypeOK'
<1>1. FilesTyped /\ RunTyped /\ ResultTyped /\ HistoryTyped /\ events \in 0..MaxEvents
  BY TypeParts
<1>2. RunTyped'
  BY <1>1 DEF MatchFeed, Step, RunTyped, Stages, IsPolicy
<1>3. FilesTyped' /\ events' \in 0..MaxEvents
  BY <1>1, FilesKept DEF MatchFeed
<1>4. HistoryTyped'
  BY <1>1 DEF MatchFeed, HistoryTyped, FilesTyped
<1>5. ResultTyped'
  <2>1. CASE UNCHANGED viols
    BY <1>1, <2>1 DEF MatchFeed, ResultTyped
  <2>2. CASE ~UNCHANGED viols
    <3> DEFINE new == UNION {Raised("known_bad", {h.comp}, h.unresolved) :
                               h \in Hits({feed.entries[i] : i \in DOMAIN feed.entries}, inv)}
    <3>1. viols' = viols \cup new /\ UNCHANGED <<notes, lapsed, exit>>
      BY <2>2 DEF MatchFeed
    <3>2. new \subseteq Violations
      <4>1. SUFFICES ASSUME NEW v \in new PROVE v \in Violations
        OBVIOUS
      <4>2. PICK c \in inv, open \in BOOLEAN : v \in Raised("known_bad", {c}, open)
        BY <4>1, ListRaises
      <4> QED BY <1>1, <4>2, RaisedIsTyped DEF RunTyped, Rules
    <3> QED BY <1>1, <3>1, <3>2 DEF ResultTyped
  <2> QED BY <2>1, <2>2
<1> QED BY <1>2, <1>3, <1>4, <1>5, TypeWhole

\* What comparing with the lockfile raises.
LockRaised(locked) ==
    Raised("unlocked_component", {c \in inv : c.id \notin DOMAIN locked}, FALSE)
    \cup Raised("lock_drift", {c \in inv : Drifted(locked, c)}, FALSE)

\* A comparison that succeeds adds what one index of the lockfile raises.
LEMMA CompareLockSteps ==
    ASSUME CompareLock, ~Fails
    PROVE  /\ Step("lock", IF opt.write THEN "save" ELSE "output")
           /\ lockFile # Unreadable
           /\ IF lockFile = Absent THEN UNCHANGED viols
              ELSE \E locked \in Indexes(lockFile) : viols' = viols \cup LockRaised(locked)
           /\ notes' \in {notes, notes \cup {"no lock"}}
           /\ checked' = [checked EXCEPT !.lock = lockFile, !.agreed = agreed]
           /\ UNCHANGED <<files, pol, ruled, inv, cut, lapsed, exit, events, reviewed, agreed, missed, calm>>
<1>1. ASSUME NEW locked
      PROVE  viols \cup Raised("unlocked_component", {c \in inv : c.id \notin DOMAIN locked}, FALSE)
                   \cup Raised("lock_drift", {c \in inv : Drifted(locked, c)}, FALSE)
             = viols \cup LockRaised(locked)
  BY DEF LockRaised
<1> QED BY <1>1 DEF CompareLock

\* A comparison that fails changes no file.
LEMMA CompareLockFails ==
    ASSUME CompareLock, Fails
    PROVE  UNCHANGED <<files, events, history>>
BY DEF CompareLock, Fails, Step

\* What the comparison adds are violations.
LEMMA CompareLockTyped ==
    ASSUME TypeOK, CompareLock
    PROVE  TypeOK'
<1>1. FilesTyped /\ RunTyped /\ ResultTyped /\ HistoryTyped /\ events \in 0..MaxEvents
  BY TypeParts
<1>2. CASE Fails
  BY <1>1, <1>2, FailsTyped, CompareLockFails, FilesKept, HistoryKept, TypeWhole
<1>3. CASE ~Fails
  <2>1. RunTyped'
    BY <1>1, <1>3, CompareLockSteps DEF Step, RunTyped, Stages, IsPolicy
  <2>2. HistoryTyped'
    BY <1>1, <1>3, CompareLockSteps DEF HistoryTyped, FilesTyped
  <2>3. viols' \subseteq Violations
    <3>1. CASE lockFile = Absent
      BY <1>1, <1>3, <3>1, CompareLockSteps DEF ResultTyped
    <3>2. CASE lockFile # Absent
      <4>1. PICK locked : viols' = viols \cup LockRaised(locked)
        BY <1>3, <3>2, CompareLockSteps
      <4>2. LockRaised(locked) \subseteq Violations
        BY <1>1, RaisedIsTyped DEF LockRaised, RunTyped, Rules
      <4> QED BY <1>1, <4>1, <4>2 DEF ResultTyped
    <3> QED BY <3>1, <3>2
  <2>4. ResultTyped'
    BY <1>1, <1>3, <2>3, CompareLockSteps DEF ResultTyped
  <2>5. FilesTyped' /\ events' \in 0..MaxEvents
    BY <1>1, <1>3, CompareLockSteps, FilesKept
  <2> QED BY <2>1, <2>2, <2>4, <2>5, TypeWhole
<1> QED BY <1>2, <1>3

\* A written lockfile holds entries.
LEMMA SaveLockTyped ==
    ASSUME TypeOK, SaveLock
    PROVE  TypeOK'
<1>1. FilesTyped /\ RunTyped /\ ResultTyped /\ HistoryTyped /\ events \in 0..MaxEvents
  BY TypeParts
<1>2. NewLock(inv) \subseteq Entry
  BY <1>1, LockIsTyped DEF RunTyped
<1>3. FilesTyped'
  BY <1>1, <1>2 DEF SaveLock, FilesTyped
<1>4. HistoryTyped'
  <2>1. (calm /\ ~cut /\ missed = {} /\ opt.root = "dir") \in BOOLEAN
    OBVIOUS
  <2> QED BY <1>1, <1>2, <2>1 DEF SaveLock, HistoryTyped
<1>5. RunTyped'
  BY <1>1 DEF SaveLock, Step, result, RunTyped, Stages, IsPolicy
<1>6. ResultTyped'
  BY <1>1, ResultKept DEF SaveLock, result
<1> QED BY <1>1, <1>3, <1>4, <1>5, <1>6, TypeWhole DEF SaveLock

\* One that could not be written is the old one or unreadable.
LEMMA SaveLockFailsTyped ==
    ASSUME TypeOK, SaveLockFails
    PROVE  TypeOK'
<1>1. FilesTyped /\ RunTyped /\ ResultTyped /\ HistoryTyped /\ events \in 0..MaxEvents
  BY TypeParts
<1>2. FilesTyped'
  BY <1>1 DEF SaveLockFails, FilesTyped
<1>3. HistoryTyped'
  BY <1>1 DEF SaveLockFails, HistoryTyped
<1> QED BY <1>1, <1>2, <1>3, FailsTyped, EventCounts, TypeWhole DEF SaveLockFails

\* A run exits with 0, 1 or 2.
LEMMA OutputTyped ==
    ASSUME TypeOK, Output
    PROVE  TypeOK'
<1>1. FilesTyped /\ RunTyped /\ ResultTyped /\ HistoryTyped /\ events \in 0..MaxEvents
  BY TypeParts
<1>2. CASE Fails
  <2>1. UNCHANGED <<files, history>> /\ (UNCHANGED events \/ Event)
    BY <1>2 DEF Output
  <2> QED BY <1>1, <1>2, <2>1, FailsTyped, FilesKept, HistoryKept, EventCounts, TypeWhole
<1>3. CASE ~Fails
  <2>1. RunTyped' /\ ResultTyped'
    BY <1>1, <1>3 DEF Output, Step, RunTyped, ResultTyped, Stages, IsPolicy
  <2>2. UNCHANGED <<files, events, history>>
    BY <1>3 DEF Output
  <2> QED BY <1>1, <2>1, <2>2, FilesKept, HistoryKept, TypeWhole
<1> QED BY <1>2, <1>3

\* A killed job leaves a typed state.
LEMMA KilledTyped ==
    ASSUME TypeOK, Killed
    PROVE  TypeOK'
<1>1. FilesTyped /\ RunTyped /\ ResultTyped /\ HistoryTyped /\ events \in 0..MaxEvents
  BY TypeParts
<1>2. FilesTyped'
  BY <1>1 DEF Killed, FilesTyped
<1>3. HistoryTyped'
  BY <1>1 DEF Killed, HistoryTyped, Unchecked
<1>4. pc' \in Stages /\ opt' \in Flags
  BY DEF Killed, Stages, NoFlags, Flags
<1>5. IsPolicy(pol)'
  BY DefaultIsPolicy DEF Killed, IsPolicy
<1>6. RunTyped'
  BY <1>4, <1>5 DEF Killed, RunTyped
<1>7. ResultTyped'
  BY DEF Killed, ResultTyped
<1> QED BY <1>1, <1>2, <1>3, <1>6, <1>7, EventCounts, TypeWhole DEF Killed

\* Steps around the run keep the types of its state.
LEMMA RunKept == RunTyped /\ ResultTyped /\ UNCHANGED run => RunTyped' /\ ResultTyped'
BY DEF RunTyped, ResultTyped, run, result, IsPolicy

\* A file of the repository, the feed or the day changes around the run.
Around ==
    \/ \E p \in Places, c \in Contents \cup {Absent} : ChangeComponent(p, c)
    \/ \E f \in Policies \cup {Absent, Unreadable} : ChangePolicy(f)
    \/ \E f \in {Absent, Unreadable} : ChangeLock(f)
    \/ \E f \in Feeds \cup {None} : ChangeFeed(f)
    \/ Midnight

\* What the steps around a run can do, in one formula.
LEMMA AroundSteps ==
    ASSUME Around
    PROVE  /\ UNCHANGED <<run, reviewed, checked, missed>>
           /\ Event \/ UNCHANGED events
           /\ lockFile' \in {lockFile, Absent, Unreadable}
           /\ agreed' \in {agreed, FALSE} /\ calm' \in {calm, FALSE}
           /\ calm' # FALSE => UNCHANGED <<repo, lockFile, agreed>>
           /\ agreed' # FALSE => UNCHANGED <<repo, lockFile>>
           /\ UNCHANGED day \/ (day < MaxDay /\ day' = day + 1)
BY DEF Around, ChangeComponent, ChangePolicy, ChangeLock, ChangeFeed, Midnight, Change, history, run

\* Steps around the run keep the types.
LEMMA AroundTyped ==
    ASSUME TypeOK, Around
    PROVE  TypeOK'
<1>1. FilesTyped /\ RunTyped /\ ResultTyped /\ HistoryTyped /\ events \in 0..MaxEvents
  BY TypeParts
<1>2. FilesTyped'
  BY <1>1, LimitsAssumption
     DEF Around, ChangeComponent, ChangePolicy, ChangeLock, ChangeFeed, Midnight, Change, FilesTyped
<1>3. HistoryTyped'
  BY <1>1, AroundSteps DEF HistoryTyped
<1>4. RunTyped' /\ ResultTyped'
  BY <1>1, AroundSteps, RunKept
<1>5. events' \in 0..MaxEvents
  BY <1>1, AroundSteps, EventCounts
<1> QED BY <1>2, <1>3, <1>4, <1>5, TypeWhole

\* Every step keeps the types.
LEMMA StepTyped == TypeOK /\ [Next]_vars => TypeOK'
<1> SUFFICES ASSUME TypeOK, [Next]_vars PROVE TypeOK'
  OBVIOUS
<1>1. CASE UNCHANGED vars
  BY <1>1, TypeParts, FilesKept, HistoryKept, RunKept, TypeWhole DEF vars
<1>2. CASE RunNext
  BY <1>2, StartRunTyped, LoadPolicyTyped, InstallRulesTyped, TakeProjectTyped, TakeProjectRefusedTyped,
     TakeProjectCutTyped, AssessTyped, MatchFeedTyped, CompareLockTyped, SaveLockTyped, SaveLockFailsTyped, OutputTyped,
     KilledTyped DEF RunNext
<1>3. CASE Around
  BY <1>3, AroundTyped
<1> QED BY <1>1, <1>2, <1>3 DEF Next, Around

\* Every variable of the gate has its type, for any repository, policies, feeds,
\* flags and bounds.
THEOREM TypeCorrect == Spec => []TypeOK
<1>1. Init => TypeOK
  BY InitTyped
<1>2. TypeOK /\ [Next]_vars => TypeOK'
  BY StepTyped
<1> QED BY <1>1, <1>2, PTL DEF Spec
-----------------------------------------------------------------------------
(* Waivers. *)

\* An expired exemption stays expired: days only pass.
LEMMA ExpiredStays ==
    ASSUME NEW e \in Exemptions, day \in Nat, day' \in Nat, day <= day', Expired(e)
    PROVE  Expired(e)'
<1>1. e.expires \in Nat \cup {None, Malformed}
  BY DEF Exemptions
<1> QED BY <1>1 DEF Expired

\* What a waiver rests on: a component of I and an exemption of E that names it.
Rests(v, I, E) == \E c \in I, e \in E :
    /\ c.place = v.place /\ e.rule = v.rule
    /\ \/ e.component = c.name
       \/ e.package # None /\ e.package = c.package
       \/ e.path # None /\ c.place \in Under[e.path]

OnRecord(v) == Rests(v, inv, pol.exemptions \ lapsed)

\* A run has no violations before it assesses its inventory, and what it calls
\* expired is.
WaiverInv ==
    /\ TypeOK
    /\ pc \in {"policy", "rules", "walk", "assess"} => viols = {}
    /\ \A e \in lapsed : Expired(e)
    /\ WaiverIsOnRecord

\* The exemption a waiver rests on has not expired, so it is none of those that
\* have.
LEMMA RaisedOnRecord ==
    ASSUME NEW r, NEW S \in SUBSET inv, NEW open, NEW v \in Raised(r, S, open), v.waived,
           NEW X, \A e \in X : Expired(e)
    PROVE  Rests(v, inv, pol.exemptions \ X)
<1>1. PICK c \in S : v = [rule |-> r, place |-> c.place, level |-> pol.level[r],
                          waived |-> Exempt(r, c), open |-> open]
  BY RaisedIsAbout
<1>2. PICK e \in pol.exemptions : e.rule = r /\ Applies(e, c) /\ ~Expired(e)
  BY <1>1 DEF Exempt
<1>3. e \notin X
  BY <1>2
<1> QED BY <1>1, <1>2, <1>3 DEF Rests, Applies

\* A run takes no days.
LEMMA RunKeepsDay == RunNext => UNCHANGED day
<1> SUFFICES ASSUME RunNext PROVE UNCHANGED day
  OBVIOUS
<1>1. (\E o \in Options : StartRun(o)) \/ LoadPolicy \/ InstallRules \/ TakeProject => UNCHANGED day
  BY DEF StartRun, LoadPolicy, InstallRules, TakeProject, files
<1>2. TakeProjectRefused \/ TakeProjectCut \/ Assess \/ MatchFeed \/ CompareLock => UNCHANGED day
  BY DEF TakeProjectRefused, TakeProjectCut, Assess, MatchFeed, CompareLock, files
<1>3. SaveLock \/ SaveLockFails \/ Output \/ Killed => UNCHANGED day
  BY DEF SaveLock, SaveLockFails, Output, Killed, files
<1> QED BY <1>1, <1>2, <1>3 DEF RunNext

\* Every step keeps the waivers on record.
LEMMA WaiverStep == WaiverInv /\ [Next]_vars => WaiverInv'
<1> SUFFICES ASSUME WaiverInv, [Next]_vars PROVE WaiverInv'
  OBVIOUS
<1>1. TypeOK /\ TypeOK'
  BY StepTyped DEF WaiverInv
<1>2. day \in Nat /\ lapsed \subseteq Exemptions
  <2>1. day \in 0..MaxDay /\ lapsed \subseteq Exemptions /\ MaxDay \in Nat
    BY <1>1, TypeParts, LimitsAssumption DEF FilesTyped, ResultTyped
  <2> QED BY <2>1
<1>3. \A v \in viols : v.waived => OnRecord(v)
  BY DEF WaiverInv, WaiverIsOnRecord, OnRecord, Rests
<1>4. ASSUME \A v \in viols' : v.waived => OnRecord(v)'
      PROVE  WaiverIsOnRecord'
  BY <1>4 DEF WaiverIsOnRecord, OnRecord, Rests
<1>5. ASSUME UNCHANGED <<pol, inv, viols, lapsed, pc>>
      PROVE  WaiverInv'
  <2>1. day' \in Nat /\ day <= day'
    <3>1. CASE UNCHANGED day
      BY <1>2, <3>1
    <3>2. CASE ~UNCHANGED day
      <4>1. Around
        BY <3>2, RunKeepsDay DEF Next, Around, vars, files
      <4>2. day' = day + 1
        BY <3>2, <4>1, AroundSteps
      <4> QED BY <1>2, <4>2
    <3> QED BY <3>1, <3>2
  <2>2. \A e \in lapsed' : Expired(e)'
    BY <1>2, <1>5, <2>1, ExpiredStays DEF WaiverInv
  <2>3. WaiverIsOnRecord'
    BY <1>5 DEF WaiverInv, WaiverIsOnRecord
  <2> QED BY <1>1, <1>5, <2>2, <2>3 DEF WaiverInv
<1>6. ASSUME viols' = {}, UNCHANGED day, lapsed' \in {lapsed, {}}
      PROVE  WaiverInv'
  BY <1>1, <1>6 DEF WaiverInv, WaiverIsOnRecord, Expired
<1>7. ASSUME UNCHANGED <<pol, inv, lapsed, day>>,
             pc \notin {"policy", "rules", "walk"}, pc' \notin {"policy", "rules", "walk", "assess"},
             \A v \in viols' \ viols : v.waived => OnRecord(v)
      PROVE  WaiverInv'
  <2>1. \A v \in viols' : v.waived => OnRecord(v)'
    BY <1>3, <1>7 DEF OnRecord, Rests
  <2>2. \A e \in lapsed' : Expired(e)'
    BY <1>7 DEF WaiverInv, Expired
  <2> QED BY <1>1, <1>4, <1>7, <2>1, <2>2 DEF WaiverInv
<1>8. ASSUME NEW o \in Options, StartRun(o) PROVE WaiverInv'
  BY <1>6, <1>8 DEF StartRun, files
<1>9. CASE LoadPolicy
  <2>1. CASE Fails
    BY <1>5, <1>9, <2>1, <1>6 DEF LoadPolicy, Fails, Step, files, WaiverInv
  <2>2. CASE ~Fails
    BY <1>6, <1>9, <2>2 DEF LoadPolicy, Step, files, WaiverInv
  <2> QED BY <2>1, <2>2
<1>10. CASE InstallRules
  BY <1>6, <1>10 DEF InstallRules, Step, files, WaiverInv
<1>11. CASE TakeProject
  <2>1. viols' = {} /\ UNCHANGED <<day, lapsed>>
    BY <1>11 DEF TakeProject, Fails, Step, files, WaiverInv
  <2> QED BY <1>6, <2>1
<1>12. CASE TakeProjectRefused \/ TakeProjectCut
  BY <1>6, <1>12 DEF TakeProjectRefused, TakeProjectCut, Step, files, WaiverInv
<1>13. CASE Assess
  <2>1. \A e \in lapsed' : Expired(e)
    BY <1>13 DEF Assess
  <2>2. UNCHANGED <<day, pol, inv>> /\ pc' = "feed"
    BY <1>13 DEF Assess, Step, files
  <2>3. \A v \in viols' : \/ v \in Unevaluable
                          \/ v \in Raised("risk_indicator", {c \in inv : c.danger}, FALSE)
                          \/ v \in Raised("unpinned_package", {c \in inv : c.unpinned}, FALSE)
    BY <1>13 DEF Assess
  <2>4. \A v \in viols' : v.waived => Rests(v, inv, pol.exemptions \ lapsed')
    <3>1. {c \in inv : c.danger} \in SUBSET inv /\ {c \in inv : c.unpinned} \in SUBSET inv
      OBVIOUS
    <3> QED BY <2>1, <2>3, <3>1, RaisedOnRecord, UnevaluableIsTyped
  <2>5. \A v \in viols' : v.waived => OnRecord(v)'
    BY <2>2, <2>4 DEF OnRecord, Rests
  <2>6. \A e \in lapsed' : Expired(e)'
    BY <2>1, <2>2 DEF Expired
  <2> QED BY <1>1, <1>4, <2>2, <2>5, <2>6 DEF WaiverInv
<1>14. CASE MatchFeed
  <2>1. \A v \in viols' \ viols : v.waived => OnRecord(v)
    <3>1. SUFFICES ASSUME NEW v \in viols' \ viols, v.waived PROVE OnRecord(v)
      OBVIOUS
    <3>2. v \in UNION {Raised("known_bad", {h.comp}, h.unresolved) :
                         h \in Hits({feed.entries[i] : i \in DOMAIN feed.entries}, inv)}
      BY <1>14, <3>1 DEF MatchFeed
    <3>3. PICK c \in inv, open \in BOOLEAN : v \in Raised("known_bad", {c}, open)
      BY <3>2, ListRaises
    <3> QED BY <3>1, <3>3, RaisedOnRecord DEF WaiverInv, OnRecord
  <2> QED BY <1>7, <1>14, <2>1 DEF MatchFeed, Step, files
<1>15. CASE CompareLock
  <2>1. CASE Fails
    BY <1>5, <1>7, <1>15, <2>1 DEF CompareLock, Fails, Step, files
  <2>2. CASE ~Fails
    <3>1. \A v \in viols' \ viols : v.waived => OnRecord(v)
      <4>1. SUFFICES ASSUME NEW v \in viols' \ viols, v.waived PROVE OnRecord(v)
        OBVIOUS
      <4>2. PICK locked : v \in LockRaised(locked)
        BY <1>15, <2>2, <4>1, CompareLockSteps
      <4>3. {c \in inv : c.id \notin DOMAIN locked} \in SUBSET inv /\ {c \in inv : Drifted(locked, c)} \in SUBSET inv
        OBVIOUS
      <4> QED BY <4>1, <4>2, <4>3, RaisedOnRecord DEF WaiverInv, LockRaised, OnRecord
    <3> QED BY <1>7, <1>15, <2>2, <3>1, CompareLockSteps DEF Step, files
  <2> QED BY <2>1, <2>2
<1>16. CASE SaveLock
  BY <1>7, <1>16 DEF SaveLock, Step, result
<1>17. CASE SaveLockFails
  BY <1>7, <1>17 DEF SaveLockFails, Fails
<1>18. CASE Output
  BY <1>7, <1>18 DEF Output, Step, Fails, files
<1>19. CASE Killed
  BY <1>6, <1>19 DEF Killed
<1>20. CASE Around
  BY <1>5, <1>20, AroundSteps DEF run, result
<1>21. CASE UNCHANGED vars
  BY <1>5, <1>21 DEF vars, run, result
<1> QED BY <1>8, <1>9, <1>10, <1>11, <1>12, <1>13, <1>14, <1>15, <1>16, <1>17, <1>18, <1>19, <1>20, <1>21
        DEF Next, RunNext, Around

\* No violation is waived by an exemption that the report calls expired, or by one
\* that does not name the component: whatever the dates, and whenever midnight
\* passes.
THEOREM WaiversHold == Spec => []WaiverIsOnRecord
<1>1. Init => WaiverInv
  BY InitTyped DEF Init, WaiverInv, WaiverIsOnRecord
<1>2. WaiverInv /\ [Next]_vars => WaiverInv'
  BY WaiverStep
<1>3. WaiverInv => WaiverIsOnRecord
  BY DEF WaiverInv
<1> QED BY <1>1, <1>2, <1>3, PTL DEF Spec
-----------------------------------------------------------------------------
(* The lockfile: what was never reviewed is told. *)

Recorded(c) == [id |-> c.id, digest |-> c.digest] \in reviewed

ReviewedOrToldNow ==
    \A c \in inv : \/ Recorded(c)
                   \/ pol.level[LockRule(checked.lock, c)] = "ignore"
                   \/ Told(LockRule(checked.lock, c), c.place)

\* A lockfile that can be read holds reviewed entries only, and once it has been
\* compared with the inventory every component is reviewed or told.
ReviewInv ==
    /\ TypeOK
    /\ lockFile \notin {Absent, Unreadable} => lockFile \subseteq reviewed
    /\ (pc \in {"save", "output"} \/ (pc = "done" /\ exit # 2)) /\ checked.lock # Absent =>
           ReviewedOrToldNow

\* What a comparison with a lockfile of reviewed entries leaves untold is reviewed.
LEMMA ComparedIsReviewed ==
    ASSUME NEW locked \in Indexes(lockFile), lockFile \subseteq reviewed, NEW c \in inv
    PROVE  \/ Recorded(c)
           \/ pol.level[LockRule(lockFile, c)] = "ignore"
           \/ \E v \in LockRaised(locked) : v.rule = LockRule(lockFile, c) /\ v.place = c.place
<1>0. DOMAIN locked = {l.id : l \in lockFile}
  BY DEF Indexes
<1>1. CASE c.id \notin DOMAIN locked
  <2> DEFINE v == [rule |-> "unlocked_component", place |-> c.place,
                   level |-> pol.level["unlocked_component"],
                   waived |-> Exempt("unlocked_component", c), open |-> FALSE]
  <2>1. pol.level["unlocked_component"] # "ignore" => v \in LockRaised(locked)
    BY <1>1 DEF LockRaised, Raised
  <2>2. v.rule = "unlocked_component" /\ v.place = c.place
    OBVIOUS
  <2> HIDE DEF v
  <2> QED BY <1>0, <1>1, <2>1, <2>2 DEF LockRule
<1>2. CASE Drifted(locked, c)
  <2> DEFINE v == [rule |-> "lock_drift", place |-> c.place, level |-> pol.level["lock_drift"],
                   waived |-> Exempt("lock_drift", c), open |-> FALSE]
  <2>1. pol.level["lock_drift"] # "ignore" => v \in LockRaised(locked)
    BY <1>2 DEF LockRaised, Raised
  <2>2. v.rule = "lock_drift" /\ v.place = c.place
    OBVIOUS
  <2> HIDE DEF v
  <2> QED BY <1>0, <1>2, <2>1, <2>2 DEF Drifted, LockRule
<1>3. CASE c.id \in DOMAIN locked /\ ~Drifted(locked, c)
  <2>1. locked[c.id] = c.digest
    BY <1>3 DEF Drifted
  <2>2. [id |-> c.id, digest |-> locked[c.id]] \in lockFile
    BY <1>3 DEF Indexes
  <2> QED BY <2>1, <2>2 DEF Recorded
<1> QED BY <1>1, <1>2, <1>3

\* Every step keeps what is untold reviewed.
LEMMA ReviewStep == ReviewInv /\ [Next]_vars => ReviewInv'
<1> SUFFICES ASSUME ReviewInv, [Next]_vars PROVE ReviewInv'
  OBVIOUS
<1> TypeOK /\ TypeOK'
  BY StepTyped DEF ReviewInv
<1>1. ASSUME UNCHANGED <<inv, pol, viols, checked, exit>>, reviewed \subseteq reviewed',
             pc' \in {"save", "output"} => pc \in {"save", "output"},
             pc' = "done" => pc = "done",
             lockFile' \notin {Absent, Unreadable} => lockFile' \subseteq reviewed'
      PROVE  ReviewInv'
  BY <1>1 DEF ReviewInv, ReviewedOrToldNow, Recorded, Told
<1>2. ASSUME UNCHANGED <<lockFile, reviewed>>,
             pc' \notin {"save", "output", "done"} \/ (pc' = "done" /\ exit' = 2)
      PROVE  ReviewInv'
  BY <1>2 DEF ReviewInv
<1>3. ASSUME NEW o \in Options, StartRun(o) PROVE ReviewInv'
  BY <1>2, <1>3 DEF StartRun, files
<1>4. CASE LoadPolicy
  BY <1>2, <1>4 DEF LoadPolicy, Step, Fails, files, history
<1>5. CASE InstallRules
  BY <1>2, <1>5 DEF InstallRules, Step, files, history
<1>6. CASE TakeProject
  BY <1>2, <1>6 DEF TakeProject, Step, Fails, files, history
<1>7. CASE TakeProjectRefused \/ TakeProjectCut
  BY <1>2, <1>7 DEF TakeProjectRefused, TakeProjectCut, Step, files, history
<1>8. CASE Assess
  BY <1>2, <1>8 DEF Assess, Step, files, history
<1>9. CASE MatchFeed
  BY <1>2, <1>9 DEF MatchFeed, Step, files
<1>10. CASE CompareLock
  <2>1. CASE Fails
    BY <1>2, <1>10, <2>1, CompareLockFails DEF Fails, files, history
  <2>2. CASE ~Fails /\ lockFile = Absent
    <3>1. checked'.lock = Absent
      BY <1>10, <2>2, CompareLockSteps, TypeParts DEF HistoryTyped
    <3>2. UNCHANGED <<lockFile, reviewed>>
      BY <1>10, <2>2, CompareLockSteps DEF files
    <3> QED BY <3>1, <3>2 DEF ReviewInv
  <2>3. CASE ~Fails /\ lockFile # Absent
    <3>1. lockFile \subseteq reviewed
      BY <1>10, <2>3, CompareLockSteps DEF ReviewInv
    <3>2. PICK locked \in Indexes(lockFile) : viols' = viols \cup LockRaised(locked)
      BY <1>10, <2>3, CompareLockSteps
    <3>3. UNCHANGED <<lockFile, reviewed, inv, pol>>
      BY <1>10, <2>3, CompareLockSteps DEF files
    <3>4. ReviewedOrToldNow'
      <4>1. SUFFICES ASSUME NEW c \in inv
                     PROVE  \/ Recorded(c)
                            \/ pol.level[LockRule(lockFile, c)] = "ignore"
                            \/ Told(LockRule(lockFile, c), c.place)'
        <5>1. checked'.lock = lockFile
          BY <1>10, <2>3, CompareLockSteps, TypeParts DEF HistoryTyped
        <5> QED BY <3>3, <5>1 DEF ReviewedOrToldNow, Recorded, Told
      <4>2. \A r, v : v \in LockRaised(locked) /\ v.rule = r /\ v.place = c.place => Told(r, c.place)'
        BY <3>2 DEF Told
      <4>3. LockRule(lockFile, c)' = LockRule(lockFile, c)
        BY <3>3 DEF LockRule
      <4> QED BY <3>1, <4>2, <4>3, ComparedIsReviewed DEF Told
    <3> QED BY <3>1, <3>3, <3>4 DEF ReviewInv
  <2> QED BY <2>1, <2>2, <2>3
<1>11. CASE SaveLock
  BY <1>1, <1>11 DEF SaveLock, Step, result
<1>12. CASE SaveLockFails
  BY <1>12 DEF SaveLockFails, Fails, ReviewInv
<1>13. CASE Output
  <2>1. CASE Fails
    BY <1>2, <1>13, <2>1 DEF Output, Fails, Step, files, history
  <2>2. CASE ~Fails
    <3>1. ReviewedOrToldNow => ReviewedOrToldNow'
      BY <1>13, <2>2 DEF Output, history, ReviewedOrToldNow, Recorded, Told
    <3> QED BY <1>13, <2>2, <3>1 DEF Output, Step, files, history, ReviewInv
  <2> QED BY <2>1, <2>2
<1>14. CASE Killed
  BY <1>14 DEF Killed, ReviewInv
<1>15. CASE Around
  BY <1>1, <1>15, AroundSteps DEF run, result, ReviewInv
<1>16. CASE UNCHANGED vars
  BY <1>1, <1>16 DEF vars, files, run, result, history, ReviewInv
<1> QED BY <1>3, <1>4, <1>5, <1>6, <1>7, <1>8, <1>9, <1>10, <1>11, <1>12, <1>13, <1>14, <1>15, <1>16
        DEF Next, RunNext, Around

\* Content that was never recorded under its ID is reported, once there is a
\* lockfile: by every run that ends with a verdict, whatever happened to the files
\* since the lockfile was written.
THEOREM ReviewedIsTold == Spec => []ReviewedOrTold
<1>1. Init => ReviewInv
  BY InitTyped DEF Init, ReviewInv
<1>2. ReviewInv /\ [Next]_vars => ReviewInv'
  BY ReviewStep
<1>3. ReviewInv => ReviewedOrTold
  BY DEF ReviewInv, ReviewedOrTold, ReviewedOrToldNow, Recorded
<1> QED BY <1>1, <1>2, <1>3, PTL DEF Spec
-----------------------------------------------------------------------------
(* The lockfile: what was recorded, and is as it was, is quiet. *)

Readable == {q \in Present : repo[q].parses}

\* The inventory of the whole repository, and the lockfile of it.
Whole == {Component(p, TRUE, TRUE) : p \in Readable}
WholeLock == {[id |-> Id[p], digest |-> <<repo[p].digest, TRUE>>] : p \in Readable}

Steady == calm /\ ~cut /\ opt.root = "dir"
Untouched == Steady /\ missed = {}

Silent == \A p \in Places : ~Told("lock_drift", p) /\ ~Told("unlocked_component", p)

\* Agreed means what it says; a steady run that was refused nothing has the whole
\* repository in its inventory from the walk on; nothing is told of the lockfile before it was compared with,
\* and nothing after it when the two agreed.
QuietInv ==
    /\ TypeOK
    /\ agreed => lockFile = WholeLock
    /\ pc \in {"assess", "feed", "lock", "save"} /\ Untouched => inv = Whole
    /\ pc \in {"policy", "rules", "walk", "assess", "feed", "lock"} => ~checked.agreed /\ Silent
    /\ checked.agreed /\ Untouched /\ DistinctIds(inv) => Silent

\* The lockfile of the whole repository is the one its places make.
LEMMA WholeIsLocked == TypeOK => NewLock(Whole) = WholeLock
<1> SUFFICES ASSUME TypeOK PROVE NewLock(Whole) = WholeLock
  OBVIOUS
<1>1. ASSUME NEW p \in Readable
      PROVE  /\ Component(p, TRUE, TRUE).id = Id[p]
             /\ Component(p, TRUE, TRUE).digest = <<repo[p].digest, TRUE>>
  <2>1. (TRUE \/ repo[p].server) = TRUE
    OBVIOUS
  <2> QED BY <2>1 DEF Component
<1>2. NewLock(Whole) = {[id |-> Component(p, TRUE, TRUE).id,
                         digest |-> Component(p, TRUE, TRUE).digest] : p \in Readable}
  BY DEF NewLock, Whole
<1> QED BY <1>1, <1>2 DEF WholeLock

\* An inventory whose IDs are distinct differs in nothing from its own lockfile.
LEMMA OwnLockIsQuiet ==
    ASSUME DistinctIds(inv), lockFile = NewLock(inv), NEW locked \in Indexes(lockFile)
    PROVE  LockRaised(locked) = {}
<1>1. ASSUME NEW c \in inv PROVE c.id \in DOMAIN locked
  <2>1. [id |-> c.id, digest |-> c.digest] \in lockFile
    BY DEF NewLock
  <2> QED BY <2>1 DEF Indexes
<1>2. ASSUME NEW c \in inv PROVE ~Drifted(locked, c)
  <2>1. [id |-> c.id, digest |-> locked[c.id]] \in lockFile
    BY <1>1 DEF Indexes
  <2>2. PICK d \in inv : [id |-> c.id, digest |-> locked[c.id]] = [id |-> d.id, digest |-> d.digest]
    BY <2>1 DEF NewLock
  <2>3. d.id = c.id /\ d.digest = locked[c.id]
    BY <2>2
  <2>4. d = c
    BY <2>3 DEF DistinctIds
  <2> QED BY <2>3, <2>4 DEF Drifted
<1>3. {c \in inv : c.id \notin DOMAIN locked} = {} /\ {c \in inv : Drifted(locked, c)} = {}
  BY <1>1, <1>2
<1>4. \A r : Raised(r, {}, FALSE) = {}
  BY DEF Raised
<1> QED BY <1>3, <1>4 DEF LockRaised

\* Other rules say nothing of the lockfile.
LEMMA OthersAreSilent ==
    ASSUME Silent, \A v \in viols' \ viols : v.rule \notin {"lock_drift", "unlocked_component"}
    PROVE  Silent'
BY DEF Silent, Told

\* Every step keeps an accepted repository quiet.
LEMMA QuietStep == QuietInv /\ [Next]_vars => QuietInv'
<1> SUFFICES ASSUME QuietInv, [Next]_vars PROVE QuietInv'
  OBVIOUS
<1> TypeOK /\ TypeOK'
  BY StepTyped DEF QuietInv
\* Lockfile and repository stay together, or are no longer said to agree.
<1>1. (agreed' => agreed /\ UNCHANGED <<repo, lockFile>>) => (agreed' => lockFile' = WholeLock')
  BY DEF QuietInv, WholeLock, Readable, Present
<1>2. ASSUME UNCHANGED <<viols, inv, checked, cut, opt, ruled, missed>>, pc' = pc \/ pc' \in {"output", "done"},
             calm' => calm /\ UNCHANGED repo, agreed' => agreed /\ UNCHANGED <<repo, lockFile>>
      PROVE  QuietInv'
  <2>1. Untouched' => Untouched /\ UNCHANGED repo
    BY <1>2 DEF Untouched, Steady
  <2>2. UNCHANGED Silent /\ UNCHANGED DistinctIds(inv)
    BY <1>2 DEF Silent, Told, DistinctIds
  <2>3. UNCHANGED repo => UNCHANGED Whole
    BY <1>2 DEF Whole, Readable, Present, Component
  <2> QED BY <1>1, <1>2, <2>1, <2>2, <2>3 DEF QuietInv
<1>3. ASSUME viols' = {}, checked' = Unchecked, agreed' => agreed /\ UNCHANGED <<repo, lockFile>>,
             pc' \in {"policy", "idle"}
      PROVE  QuietInv'
  BY <1>1, <1>3 DEF QuietInv, Unchecked, Silent, Told
<1>4. ASSUME pc \in {"policy", "rules", "walk", "assess", "feed", "lock"}, Silent', ~checked'.agreed,
             UNCHANGED <<repo, lockFile, agreed>>,
             pc' \in {"assess", "feed", "lock"} /\ Untouched' => inv' = Whole',
             pc' # "save"
      PROVE  QuietInv'
  BY <1>1, <1>4 DEF QuietInv
<1>5. ASSUME NEW o \in Options, StartRun(o) PROVE QuietInv'
  BY <1>3, <1>5 DEF StartRun, files
<1>6. CASE LoadPolicy
  BY <1>4, <1>6 DEF LoadPolicy, Step, Fails, files, history, QuietInv, Silent, Told
<1>7. CASE InstallRules
  BY <1>4, <1>7 DEF InstallRules, Step, files, history, QuietInv, Silent, Told
<1>8. CASE TakeProject
  <2>1. Silent' /\ ~checked'.agreed
    BY <1>8 DEF TakeProject, Step, Fails, history, QuietInv, Silent, Told
  <2>2. pc' = "assess" /\ Untouched' => inv' = Whole'
    BY <1>8 DEF TakeProject, Step, Fails, files, Untouched, Steady, Whole, Readable, Present, Component
  <2> QED BY <1>4, <1>8, <2>1, <2>2 DEF TakeProject, Step, Fails, files, history
<1>9. CASE TakeProjectRefused \/ TakeProjectCut
  <2>1. Silent' /\ ~checked'.agreed /\ pc = "walk" /\ pc' = "assess" /\ UNCHANGED <<repo, lockFile, agreed>>
    BY <1>9 DEF TakeProjectRefused, TakeProjectCut, Step, files, history, QuietInv, Silent, Told
  <2>2. Untouched' => inv' = Whole'
    <3>1. CASE TakeProjectCut
      BY <3>1 DEF TakeProjectCut, Untouched, Untouched, Steady
    <3>2. CASE TakeProjectRefused
      <4>1. ASSUME missed' = {} PROVE inv' = Whole
        <5>1. inv' = {Component(p, TRUE, TRUE) : p \in {q \in Present : repo[q].parses}}
          BY <3>2, <4>1 DEF TakeProjectRefused
        <5> QED BY <5>1 DEF Whole, Readable
      <4>2. Whole' = Whole
        BY <3>2 DEF TakeProjectRefused, files, Whole, Readable, Present, Component
      <4> QED BY <4>1, <4>2 DEF Untouched, Steady
    <3> QED BY <1>9, <3>1, <3>2
  <2> QED BY <1>4, <2>1, <2>2
<1>10. ASSUME UNCHANGED <<inv, repo, ruled, cut, opt, missed, calm>> PROVE Untouched' => Untouched /\ Whole' = Whole
  BY <1>10 DEF Untouched, Steady, Whole, Readable, Present, Component
<1>11. CASE Assess
  <2>1. SUFFICES ASSUME Silent' PROVE QuietInv'
    <3>1. \A v \in viols' : v.rule \in {"risk_indicator", "unpinned_package"}
      BY <1>11, UnevaluableIsTyped, RaisedRule DEF Assess
    <3>2. Silent'
      BY <3>1 DEF Silent, Told
    <3> QED BY <3>2
  <2> QED BY <1>4, <1>10, <1>11, <2>1 DEF Assess, Step, files, history, QuietInv
<1>12. CASE MatchFeed
  <2>1. \A v \in viols' \ viols : v.rule \notin {"lock_drift", "unlocked_component"}
    <3>1. SUFFICES ASSUME NEW v \in viols' \ viols PROVE v.rule = "known_bad"
      OBVIOUS
    <3>2. v \in UNION {Raised("known_bad", {h.comp}, h.unresolved) :
                         h \in Hits({feed.entries[i] : i \in DOMAIN feed.entries}, inv)}
      BY <1>12, <3>1 DEF MatchFeed
    <3>3. PICK c \in inv, open \in BOOLEAN : v \in Raised("known_bad", {c}, open)
      BY <3>2, ListRaises
    <3> QED BY <3>3, RaisedIsAbout
  <2>2. Silent'
    BY <1>12, <2>1, OthersAreSilent DEF QuietInv, MatchFeed, Step
  <2>3. ~checked'.agreed
    BY <1>12, TypeParts DEF QuietInv, MatchFeed, Step, HistoryTyped
  <2> QED BY <1>4, <1>10, <1>12, <2>2, <2>3 DEF MatchFeed, Step, files, QuietInv
<1>13. CASE CompareLock
  <2>1. CASE Fails
    BY <1>4, <1>13, <2>1, CompareLockFails DEF CompareLock, Step, Fails, files, history, QuietInv, Silent, Told
  <2>2. CASE ~Fails
    <3>1. /\ pc = "lock" /\ pc' \in {"save", "output"}
          /\ UNCHANGED <<files, opt, pol, ruled, inv, cut, agreed, missed, calm>>
      BY <1>13, <2>2, CompareLockSteps DEF Step
    <3>2. checked'.agreed = agreed
      BY <1>13, <2>2, CompareLockSteps, TypeParts DEF HistoryTyped
    <3>3. Untouched' => Untouched /\ inv = Whole /\ inv' = Whole'
      BY <1>10, <3>1 DEF QuietInv, files
    <3>4. Silent
      BY <3>1 DEF QuietInv
    <3>5. ASSUME agreed, Untouched, DistinctIds(inv) PROVE Silent'
      <4>1. lockFile = NewLock(inv)
        BY <3>1, <3>5, WholeIsLocked DEF QuietInv
      <4>2. CASE lockFile = Absent
        BY <1>13, <2>2, <3>4, <4>2, CompareLockSteps DEF Silent, Told
      <4>3. CASE lockFile # Absent
        BY <1>13, <2>2, <3>4, <3>5, <4>1, <4>3, CompareLockSteps, OwnLockIsQuiet DEF Silent, Told
      <4> QED BY <4>2, <4>3
    <3>6. DistinctIds(inv)' => DistinctIds(inv)
      BY <3>1 DEF DistinctIds
    <3>7. Untouched' => Untouched
      BY <3>1 DEF Untouched, Steady
    <3> QED BY <1>1, <3>1, <3>2, <3>3, <3>5, <3>6, <3>7 DEF QuietInv, files
  <2> QED BY <2>1, <2>2
<1>14. CASE SaveLock
  <2>1. agreed' => Untouched
    BY <1>14 DEF SaveLock, Untouched, Steady
  <2>2. Untouched => lockFile' = WholeLock
    BY <1>14, WholeIsLocked DEF SaveLock, Step, QuietInv
  <2>3. UNCHANGED <<repo, viols, inv, checked, cut, opt, missed, calm>> /\ pc' = "output"
    BY <1>14 DEF SaveLock, Step, result
  <2>4. UNCHANGED WholeLock
    BY <2>3 DEF WholeLock, Readable, Present
  <2> QED BY <2>1, <2>2, <2>3, <2>4 DEF QuietInv, Silent, Told, Untouched, Steady, DistinctIds
<1>15. CASE SaveLockFails
  BY <1>2, <1>15 DEF SaveLockFails, Fails
<1>16. CASE Output
  BY <1>2, <1>16 DEF Output, Step, Fails, files, history
<1>17. CASE Killed
  BY <1>3, <1>17 DEF Killed
<1>18. CASE Around
  <2>1. agreed' => agreed /\ UNCHANGED <<repo, lockFile>>
    BY <1>18, AroundSteps
  <2>2. calm' => calm /\ UNCHANGED repo
    BY <1>18, AroundSteps
  <2> QED BY <1>2, <1>18, <2>1, <2>2, AroundSteps DEF run, result
<1>19. CASE UNCHANGED vars
  BY <1>2, <1>19 DEF vars, files, run, result, history
<1> QED BY <1>5, <1>6, <1>7, <1>8, <1>9, <1>11, <1>12, <1>13, <1>14, <1>15, <1>16, <1>17, <1>18, <1>19
        DEF Next, RunNext, Around

\* A repository that is as it was when its lockfile was written is not reported as
\* changed, if its IDs are distinct: whatever happened to policy, feed and date.
THEOREM AcceptedStaysQuiet == Spec => []AcceptedIsQuiet
<1>1. Init => QuietInv
  BY InitTyped DEF Init, QuietInv, Unchecked
<1>2. QuietInv /\ [Next]_vars => QuietInv'
  BY QuietStep
<1>3. QuietInv => AcceptedIsQuiet
  BY DEF QuietInv, AcceptedIsQuiet, Untouched, Steady, Silent
<1> QED BY <1>1, <1>2, <1>3, PTL DEF Spec

-----------------------------------------------------------------------------
(* The order of versions. *)

\* A part that is not there counts as zero, the others are numbers.
Numbered(n) == \E k \in Nat : n \in [1..k -> Nat]

LEMMA PartsAreNumbers ==
    ASSUME NEW n, Numbered(n)
    PROVE  /\ DOMAIN n \subseteq Nat \ {0}
           /\ \A i : Part(n, i) \in Nat
           /\ \A i : Part(n, i) # 0 => i \in DOMAIN n
BY DEF Numbered, Part

\* The numbers of a version end where its first segment that is not a number does.
LEMMA NumbersOfVersion ==
    ASSUME NEW v \in Versions
    PROVE  Numbers(v) \in Nat /\ Nums(v) \in [1..Numbers(v) -> Nat]
<1> DEFINE n == Len(v.segs)
           O == Odd(v)
<1>1. v.segs \in Seq(Segment)
  BY DEF Versions
<1>2. n \in Nat /\ DOMAIN v.segs = 1..n /\ \A i \in 1..n : v.segs[i] \in Segment
  BY <1>1
<1>3. O \subseteq 1..n
  BY <1>2 DEF Odd
<1>4. /\ FirstOdd(v) \in 1..n + 1
      /\ \A i \in 1..n : i < FirstOdd(v) => i \notin O
  <2>1. CASE O = {}
    BY <1>2, <2>1 DEF FirstOdd
  <2>2. CASE O # {}
    <3>1. \E i \in O : \A j \in O : i <= j
      <4>1. O \in SUBSET Nat
        BY <1>2, <1>3
      <4> HIDE DEF O
      <4> QED BY <2>2, <4>1, Least
    <3>2. FirstOdd(v) \in O /\ \A j \in O : FirstOdd(v) <= j
      BY <2>2, <3>1 DEF FirstOdd
    <3>3. FirstOdd(v) \in 1..n
      BY <1>3, <3>2
    <3>4. ASSUME NEW i \in 1..n, i < FirstOdd(v) PROVE i \notin O
      <4> HIDE DEF O
      <4> QED BY <1>2, <3>2, <3>3, <3>4
    <3> HIDE DEF O
    <3> QED BY <1>2, <3>3, <3>4
  <2> QED BY <2>1, <2>2
<1>5. Numbers(v) \in 0..n /\ \A i \in 1..Numbers(v) : i < FirstOdd(v) \/ (i = FirstOdd(v) /\ v.segs[i].lead # None)
  BY <1>2, <1>4 DEF Numbers
<1>6. ASSUME NEW i \in 1..Numbers(v) PROVE v.segs[i].lead \in Nat
  <2>1. i \in 1..n
    BY <1>2, <1>5
  <2>2. v.segs[i].lead \in Nat \cup {None}
    BY <1>2, <2>1 DEF Segment
  <2>3. v.segs[i].lead # None
    BY <1>2, <1>4, <1>5, <2>1 DEF Odd
  <2> QED BY <2>2, <2>3
<1> QED BY <1>2, <1>5, <1>6 DEF Nums

\* So they are numbered from one.
LEMMA NumsAreNumbered == \A v \in Versions : Numbered(Nums(v))
BY NumbersOfVersion DEF Numbered

\* A suffix is a sequence of codes.
LEMMA SuffixOfVersion == ASSUME NEW v \in Versions PROVE Pre(v) \in Seq(Nat)
<1>1. v.segs \in Seq(Segment) /\ v.dash \in Seq(Nat)
  BY DEF Versions
<1>2. CASE Odd(v) = {}
  BY <1>1, <1>2 DEF Pre
<1>3. CASE Odd(v) # {}
  <2>1. Odd(v) \in SUBSET Nat /\ Odd(v) \subseteq DOMAIN v.segs
    BY <1>1 DEF Odd
  <2>2. \E i \in Odd(v) : \A j \in Odd(v) : i <= j
    BY <1>3, <2>1, Least
  <2>3. FirstOdd(v) \in DOMAIN v.segs
    BY <1>3, <2>1, <2>2 DEF FirstOdd
  <2>4. v.segs[FirstOdd(v)].rest \in Seq(Nat)
    <3>1. v.segs[FirstOdd(v)] \in Segment
      BY <1>1, <2>3
    <3> QED BY <3>1 DEF Segment
  <2>5. \A p, q \in Seq(Nat) : JoinPre(p, q) \in Seq(Nat)
    <3> SUFFICES ASSUME NEW p \in Seq(Nat), NEW q \in Seq(Nat) PROVE JoinPre(p, q) \in Seq(Nat)
      OBVIOUS
    <3>1. <<Dot>> \in Seq(Nat)
      BY DEF Dot
    <3>2. p \o <<Dot>> \in Seq(Nat)
      BY <3>1
    <3>3. p \o <<Dot>> \o q \in Seq(Nat)
      BY <3>2
    <3> QED BY <3>3 DEF JoinPre
  <2> QED BY <1>1, <1>3, <2>4, <2>5 DEF Pre
<1> QED BY <1>2, <1>3

\* Numbers are ordered by the first part in which they differ: strictly,
LEMMA NumsAsymmetric ==
    ASSUME NEW m, NEW n, Numbered(m), Numbered(n), NumsBelow(m, n)
    PROVE  ~NumsBelow(n, m)
<1> SUFFICES ASSUME NumsBelow(n, m) PROVE FALSE
  OBVIOUS
<1>1. PICK i \in DOMAIN m \cup DOMAIN n : Part(m, i) < Part(n, i) /\ \A j \in 1..i - 1 : Part(m, j) = Part(n, j)
  BY DEF NumsBelow
<1>2. PICK k \in DOMAIN n \cup DOMAIN m : Part(n, k) < Part(m, k) /\ \A j \in 1..k - 1 : Part(n, j) = Part(m, j)
  BY DEF NumsBelow
<1>3. i \in Nat \ {0} /\ k \in Nat \ {0}
  BY PartsAreNumbers
<1>4. Part(m, i) \in Nat /\ Part(n, i) \in Nat /\ Part(m, k) \in Nat /\ Part(n, k) \in Nat
  BY PartsAreNumbers
<1> QED BY <1>1, <1>2, <1>3, <1>4

\* transitively,
LEMMA NumsTransitive ==
    ASSUME NEW l, NEW m, NEW n, Numbered(l), Numbered(m), Numbered(n), NumsBelow(l, m), NumsBelow(m, n)
    PROVE  NumsBelow(l, n)
<1>1. PICK i \in DOMAIN l \cup DOMAIN m : Part(l, i) < Part(m, i) /\ \A j \in 1..i - 1 : Part(l, j) = Part(m, j)
  BY DEF NumsBelow
<1>2. PICK k \in DOMAIN m \cup DOMAIN n : Part(m, k) < Part(n, k) /\ \A j \in 1..k - 1 : Part(m, j) = Part(n, j)
  BY DEF NumsBelow
<1>3. i \in Nat \ {0} /\ k \in Nat \ {0}
  BY PartsAreNumbers
<1>4. \A j : Part(l, j) \in Nat /\ Part(m, j) \in Nat /\ Part(n, j) \in Nat
  BY PartsAreNumbers
<1>5. PICK h \in {i, k} : h <= i /\ h <= k
  BY <1>3
<1>6. Part(l, h) < Part(n, h) /\ \A j \in 1..h - 1 : Part(l, j) = Part(n, j)
  BY <1>1, <1>2, <1>3, <1>4, <1>5
<1>7. h \in DOMAIN n
  BY <1>4, <1>6, PartsAreNumbers
<1> QED BY <1>6, <1>7 DEF NumsBelow

\* and two of which neither is below the other have the same parts.
LEMMA NumsDecided ==
    ASSUME NEW m, NEW n, Numbered(m), Numbered(n), ~NumsBelow(m, n), ~NumsBelow(n, m)
    PROVE  \A i : Part(m, i) = Part(n, i)
<1> SUFFICES ASSUME NEW i, Part(m, i) # Part(n, i) PROVE FALSE
  OBVIOUS
<1> DEFINE D == {k \in DOMAIN m \cup DOMAIN n : Part(m, k) # Part(n, k)}
<1>1. \A k : Part(m, k) \in Nat /\ Part(n, k) \in Nat
  BY PartsAreNumbers
<1>2. D \in SUBSET (Nat \ {0})
  BY PartsAreNumbers
<1>3. i \in D
  BY <1>1, PartsAreNumbers
<1>4. PICK k \in D : \A j \in D : k <= j
  <2> HIDE DEF D
  <2> QED BY <1>2, <1>3, Least
<1>5. \A j \in 1..k - 1 : Part(m, j) = Part(n, j)
  <2> SUFFICES ASSUME NEW j \in 1..k - 1, Part(m, j) # Part(n, j) PROVE FALSE
    OBVIOUS
  <2>1. j \in D
    BY PartsAreNumbers
  <2> HIDE DEF D
  <2> QED BY <1>2, <1>4, <2>1
<1>6. Part(m, k) < Part(n, k) \/ Part(n, k) < Part(m, k)
  BY <1>1, <1>4
<1> QED BY <1>4, <1>5, <1>6 DEF NumsBelow

\* Versions with the same parts are below, and above, the same others.
LEMMA NumsSame ==
    ASSUME NEW l, NEW m, NEW n, Numbered(l), Numbered(m), Numbered(n), \A i : Part(l, i) = Part(m, i)
    PROVE  /\ NumsBelow(l, n) <=> NumsBelow(m, n)
           /\ NumsBelow(n, l) <=> NumsBelow(n, m)
<1>1. \A a, b : NumsBelow(a, b) <=> \E i \in DOMAIN a \cup DOMAIN b :
          Part(a, i) < Part(b, i) /\ \A j \in 1..i - 1 : Part(a, j) = Part(b, j)
  BY DEF NumsBelow
<1>2. ASSUME NEW a, NEW b, Numbered(a), Numbered(b), NEW i, Part(a, i) < Part(b, i) PROVE i \in DOMAIN b
  <2>1. Part(a, i) \in Nat /\ Part(b, i) \in Nat
    BY <1>2, PartsAreNumbers
  <2> QED BY <1>2, <2>1, PartsAreNumbers
<1>3. NumsBelow(l, n) <=> NumsBelow(m, n)
  BY <1>1, <1>2
<1>4. NumsBelow(n, l) <=> NumsBelow(n, m)
  BY <1>1, <1>2
<1> QED BY <1>3, <1>4

\* Suffixes are ordered as strings: strictly,
LEMMA LexicalIsStrict ==
    ASSUME NEW p \in Seq(Nat), NEW q \in Seq(Nat), Lexical(p, q)
    PROVE  ~Lexical(q, p) /\ p # q
<1>1. PICK i \in DOMAIN q : (\A j \in 1..i - 1 : j \in DOMAIN p /\ p[j] = q[j]) /\ (i \in DOMAIN p => p[i] < q[i])
  BY DEF Lexical
<1>2. /\ DOMAIN p = 1..Len(p) /\ DOMAIN q = 1..Len(q) /\ Len(p) \in Nat /\ Len(q) \in Nat
      /\ (\A k \in DOMAIN p : p[k] \in Nat) /\ (\A k \in DOMAIN q : q[k] \in Nat)
  OBVIOUS
<1>3. ASSUME Lexical(q, p) PROVE FALSE
  <2>1. PICK k \in DOMAIN p : (\A j \in 1..k - 1 : j \in DOMAIN q /\ q[j] = p[j]) /\ (k \in DOMAIN q => q[k] < p[k])
    BY <1>3 DEF Lexical
  <2>2. CASE i < k
    BY <1>1, <1>2, <2>1, <2>2
  <2>3. CASE k < i
    BY <1>1, <1>2, <2>1, <2>3
  <2>4. CASE i = k
    BY <1>1, <1>2, <2>1, <2>4
  <2> QED BY <1>2, <2>2, <2>3, <2>4
<1>4. p # q
  BY <1>1, <1>2
<1> QED BY <1>3, <1>4

\* transitively,
LEMMA LexicalIsTransitive ==
    ASSUME NEW p \in Seq(Nat), NEW q \in Seq(Nat), NEW r \in Seq(Nat), Lexical(p, q), Lexical(q, r)
    PROVE  Lexical(p, r)
<1>1. PICK i \in DOMAIN q : (\A j \in 1..i - 1 : j \in DOMAIN p /\ p[j] = q[j]) /\ (i \in DOMAIN p => p[i] < q[i])
  BY DEF Lexical
<1>2. PICK k \in DOMAIN r : (\A j \in 1..k - 1 : j \in DOMAIN q /\ q[j] = r[j]) /\ (k \in DOMAIN q => q[k] < r[k])
  BY DEF Lexical
<1>3. /\ DOMAIN p = 1..Len(p) /\ DOMAIN q = 1..Len(q) /\ DOMAIN r = 1..Len(r)
      /\ Len(p) \in Nat /\ Len(q) \in Nat /\ Len(r) \in Nat
      /\ (\A j \in DOMAIN p : p[j] \in Nat) /\ (\A j \in DOMAIN q : q[j] \in Nat) /\ (\A j \in DOMAIN r : r[j] \in Nat)
  OBVIOUS
<1>4. CASE i < k
  <2>1. i \in DOMAIN r /\ (\A j \in 1..i - 1 : j \in DOMAIN p /\ p[j] = r[j]) /\ (i \in DOMAIN p => p[i] < r[i])
    <3>1. i \in DOMAIN r /\ i \in 1..k - 1
      BY <1>3, <1>4
    <3>2. q[i] = r[i]
      BY <1>2, <3>1
    <3>3. ASSUME NEW j \in 1..i - 1 PROVE j \in DOMAIN p /\ p[j] = r[j]
      <4>1. j \in 1..k - 1
        BY <1>3, <1>4
      <4> QED BY <1>1, <1>2, <4>1
    <3> QED BY <1>1, <3>1, <3>2, <3>3
  <2> QED BY <2>1 DEF Lexical
<1>5. CASE k <= i
  <2>1. (\A j \in 1..k - 1 : j \in DOMAIN p /\ p[j] = r[j]) /\ (k \in DOMAIN p => p[k] < r[k])
    <3>1. \A j \in 1..k - 1 : j \in DOMAIN p /\ p[j] = r[j]
      BY <1>1, <1>2, <1>3, <1>5
    <3>2. CASE k < i
      <4>1. k \in 1..i - 1 /\ k \in DOMAIN q
        BY <1>3, <3>2
      <4> QED BY <1>1, <1>2, <3>1, <4>1
    <3>3. CASE k = i
      <4>1. i \in DOMAIN p => p[i] \in Nat /\ q[i] \in Nat /\ r[i] \in Nat
        BY <1>3, <3>3
      <4> QED BY <1>1, <1>2, <3>1, <3>3, <4>1
    <3> QED BY <1>3, <1>5, <3>1, <3>2, <3>3
  <2> QED BY <2>1 DEF Lexical
<1> QED BY <1>3, <1>4, <1>5

\* and any two that differ.
LEMMA LexicalIsTotal ==
    ASSUME NEW p \in Seq(Nat), NEW q \in Seq(Nat), p # q
    PROVE  Lexical(p, q) \/ Lexical(q, p)
<1>1. /\ DOMAIN p = 1..Len(p) /\ DOMAIN q = 1..Len(q) /\ Len(p) \in Nat /\ Len(q) \in Nat
      /\ (\A k \in DOMAIN p : p[k] \in Nat) /\ (\A k \in DOMAIN q : q[k] \in Nat)
  OBVIOUS
<1> DEFINE D == {k \in DOMAIN p \cup DOMAIN q : k \notin DOMAIN p \/ k \notin DOMAIN q \/ p[k] # q[k]}
<1>2. D # {}
  <2> SUFFICES ASSUME \A k \in DOMAIN p \cup DOMAIN q : k \in DOMAIN p /\ k \in DOMAIN q /\ p[k] = q[k]
               PROVE  FALSE
    OBVIOUS
  <2>1. DOMAIN p = DOMAIN q
    OBVIOUS
  <2>2. Len(p) = Len(q)
    <3>1. \A m, n \in Nat : 1..m = 1..n => ~(m < n)
      <4> SUFFICES ASSUME NEW m \in Nat, NEW n \in Nat, m < n PROVE 1..m # 1..n
        OBVIOUS
      <4>1. n \in 1..n /\ n \notin 1..m
        OBVIOUS
      <4> QED BY <4>1
    <3>2. \A m, n \in Nat : 1..m = 1..n => m = n
      BY <3>1
    <3>3. Len(p) \in Nat /\ Len(q) \in Nat
      OBVIOUS
    <3>4. 1..Len(p) = 1..Len(q)
      BY <1>1, <2>1
    <3> HIDE DEF D
    <3> QED BY ONLY <3>2, <3>3, <3>4
  <2> QED BY <1>1, <2>1, <2>2
<1>3. D \in SUBSET Nat
  BY <1>1
<1>4. PICK k \in D : \A j \in D : k <= j
  <2> HIDE DEF D
  <2> QED BY <1>2, <1>3, Least
<1>5. k \in Nat \ {0}
  BY <1>1
<1>6. k <= Len(p) \/ k <= Len(q)
  BY <1>1
<1>7. \A j \in 1..k - 1 : j \in DOMAIN p /\ j \in DOMAIN q /\ p[j] = q[j]
  <2> SUFFICES ASSUME NEW j \in 1..k - 1 PROVE j \in DOMAIN p /\ j \in DOMAIN q /\ p[j] = q[j]
    OBVIOUS
  <2>1. j \notin D
    <3> HIDE DEF D
    <3> QED BY <1>3, <1>4, <1>5
  <2>2. j \in DOMAIN p \cup DOMAIN q
    BY <1>1, <1>5, <1>6
  <2> QED BY <2>1, <2>2
<1>8. CASE k \notin DOMAIN p
  BY <1>7, <1>8 DEF Lexical
<1>9. CASE k \notin DOMAIN q
  BY <1>7, <1>9 DEF Lexical
<1>10. CASE k \in DOMAIN p /\ k \in DOMAIN q
  <2>1. p[k] < q[k] \/ q[k] < p[k]
    BY <1>1, <1>10
  <2> QED BY <1>7, <1>10, <2>1 DEF Lexical
<1> QED BY <1>8, <1>9, <1>10

\* One that is there is below none.
LEMMA SuffixOrder ==
    ASSUME NEW p \in Seq(Nat), NEW q \in Seq(Nat), NEW r \in Seq(Nat)
    PROVE  /\ ~(PreBelow(p, q) /\ PreBelow(q, p))
           /\ PreBelow(p, q) /\ PreBelow(q, r) => PreBelow(p, r)
           /\ p = q \/ PreBelow(p, q) \/ PreBelow(q, p)
<1>1. ~(PreBelow(p, q) /\ PreBelow(q, p))
  BY LexicalIsStrict DEF PreBelow
<1>2. PreBelow(p, q) /\ PreBelow(q, r) => PreBelow(p, r)
  BY LexicalIsTransitive DEF PreBelow
<1>3. p = q \/ PreBelow(p, q) \/ PreBelow(q, p)
  BY LexicalIsTotal DEF PreBelow
<1> QED BY <1>1, <1>2, <1>3

\* Two versions are the same exactly when their parts and their suffixes are.
LEMMA SameMeansEqual ==
    ASSUME NEW a \in Versions, NEW b \in Versions
    PROVE  Same(a, b) <=> (\A i : Part(Nums(a), i) = Part(Nums(b), i)) /\ Pre(a) = Pre(b)
<1> DEFINE m == Nums(a)  n == Nums(b)
<1>1. Numbered(m) /\ Numbered(n) /\ Pre(a) \in Seq(Nat) /\ Pre(b) \in Seq(Nat)
  BY NumsAreNumbered, SuffixOfVersion
<1>2. ASSUME Same(a, b) PROVE (\A i : Part(m, i) = Part(n, i)) /\ Pre(a) = Pre(b)
  <2>1. ~NumsBelow(m, n) /\ ~NumsBelow(n, m) /\ ~PreBelow(Pre(a), Pre(b)) /\ ~PreBelow(Pre(b), Pre(a))
    BY <1>2 DEF Same, Below
  <2>2. Pre(a) = Pre(b)
    BY <1>1, <2>1, SuffixOrder
  <2>3. \A i : Part(m, i) = Part(n, i)
    <3> HIDE DEF m, n
    <3> QED BY <1>1, <2>1, NumsDecided
  <2> QED BY <2>2, <2>3
<1>3. ASSUME \A i : Part(m, i) = Part(n, i), Pre(a) = Pre(b) PROVE Same(a, b)
  <2>1. ~NumsBelow(m, n) /\ ~NumsBelow(n, m)
    <3> HIDE DEF m, n
    <3>1. \A i : Part(m, i) \in Nat
      BY <1>1, PartsAreNumbers
    <3> QED BY <1>3, <3>1 DEF NumsBelow
  <2>2. ~PreBelow(Pre(a), Pre(b)) /\ ~PreBelow(Pre(b), Pre(a))
    BY <1>1, <1>3, SuffixOrder
  <2> QED BY <2>1, <2>2 DEF Same, Below
<1> QED BY <1>2, <1>3

\* CompareVersions is an order of all versions, and what it calls equal is below and
\* above the same others: so a range is an interval, and no component of a version
\* inside it is judged otherwise because of how that version is written.
THEOREM VersionsAreOrdered ==
    ASSUME NEW a \in Versions, NEW b \in Versions, NEW c \in Versions
    PROVE  /\ ~(Below(a, b) /\ Below(b, a))
           /\ Below(a, b) /\ Below(b, c) => Below(a, c)
           /\ Same(a, b) => (Below(a, c) <=> Below(b, c)) /\ (Below(c, a) <=> Below(c, b))
<1> DEFINE l == Nums(a)  m == Nums(b)  n == Nums(c)
<1>1. /\ Numbered(l) /\ Numbered(m) /\ Numbered(n)
      /\ Pre(a) \in Seq(Nat) /\ Pre(b) \in Seq(Nat) /\ Pre(c) \in Seq(Nat)
  BY NumsAreNumbered, SuffixOfVersion
<1>2. ~(Below(a, b) /\ Below(b, a))
  <2>1. ~(NumsBelow(l, m) /\ NumsBelow(m, l))
    <3> HIDE DEF l, m
    <3> QED BY <1>1, NumsAsymmetric
  <2> QED BY <1>1, <2>1, SuffixOrder DEF Below
<1>3. ASSUME Below(a, b), Below(b, c) PROVE Below(a, c)
  <2>1. CASE NumsBelow(l, m)
    <3>1. NumsBelow(m, n) => NumsBelow(l, n)
      <4> HIDE DEF l, m, n
      <4> QED BY <1>1, <2>1, NumsTransitive
    <3>2. ~NumsBelow(m, n) /\ ~NumsBelow(n, m) => NumsBelow(l, n)
      <4> HIDE DEF l, m, n
      <4>1. ASSUME ~NumsBelow(m, n), ~NumsBelow(n, m) PROVE \A i : Part(m, i) = Part(n, i)
        BY <1>1, <4>1, NumsDecided
      <4> QED BY <1>1, <2>1, <4>1, NumsSame
    <3> QED BY <1>3, <3>1, <3>2 DEF Below
  <2>2. CASE ~NumsBelow(l, m)
    <3>1. ~NumsBelow(m, l) /\ PreBelow(Pre(a), Pre(b))
      BY <1>3, <2>2 DEF Below
    <3>2. (NumsBelow(l, n) <=> NumsBelow(m, n)) /\ (NumsBelow(n, l) <=> NumsBelow(n, m))
      <4> HIDE DEF l, m, n
      <4>1. \A i : Part(l, i) = Part(m, i)
        BY <1>1, <2>2, <3>1, NumsDecided
      <4> QED BY <1>1, <4>1, NumsSame
    <3>3. PreBelow(Pre(b), Pre(c)) => PreBelow(Pre(a), Pre(c))
      BY <1>1, <3>1, SuffixOrder
    <3> QED BY <1>3, <3>2, <3>3 DEF Below
  <2> QED BY <2>1, <2>2
<1>4. ASSUME Same(a, b) PROVE (Below(a, c) <=> Below(b, c)) /\ (Below(c, a) <=> Below(c, b))
  <2>1. (\A i : Part(l, i) = Part(m, i)) /\ Pre(a) = Pre(b)
    BY <1>4, SameMeansEqual
  <2>2. (NumsBelow(l, n) <=> NumsBelow(m, n)) /\ (NumsBelow(n, l) <=> NumsBelow(n, m))
    <3> HIDE DEF l, m, n
    <3> QED BY <1>1, <2>1, NumsSame
  <2> QED BY <2>1, <2>2 DEF Below
<1> QED BY <1>2, <1>3, <1>4

-----------------------------------------------------------------------------
(* What a list says of a version. *)

\* The digits of a version that is compared are digits, and its value is built of
\* them.
LEMMA DigitsOfVersion ==
    ASSUME NEW v \in Compared, Parsed(v)
    PROVE  /\ \A i \in 1..Digits : Digit(v, i) \in Nat /\ Radix[i] \in Nat /\ Digit(v, i) < Radix[i]
           /\ \A n \in 0..Digits : Scale[v][n] \in Nat
           /\ Scale[v][0] = 0
           /\ \A n \in 1..Digits : Scale[v][n] = Scale[v][n - 1] * Radix[n] + Digit(v, n)
<1>1. v \in Versions /\ NumberDigits \in Nat /\ SuffixDigits \in Nat /\ Digits \in Nat
  BY DigitsAssumption DEF Digits
<1>2. Numbered(Nums(v)) /\ Pre(v) \in Seq(Nat)
  BY <1>1, NumsAreNumbered, SuffixOfVersion
<1>3. ASSUME NEW i \in 1..Digits PROVE Digit(v, i) \in Nat /\ Radix[i] \in Nat /\ Digit(v, i) < Radix[i]
  <2>1. Radix[i] \in Nat \ {0} /\ Digit(v, i) < Radix[i]
    BY DigitsAssumption
  <2>2. Part(Nums(v), i) \in Nat
    BY <1>2, PartsAreNumbers
  <2>3. \A j \in DOMAIN Pre(v) : Pre(v)[j] + 1 \in Nat
    BY <1>2
  <2>4. Radix[i] - 1 \in Nat
    BY <2>1
  <2>5. Digit(v, i) \in Nat
    BY <2>2, <2>3, <2>4 DEF Digit
  <2> QED BY <2>1, <2>5
<1> QED BY <1>3, ScaleAssumption

\* Two numbers with the same digits are the same, as far as the digits agree.
LEMMA DigitsAgree ==
    ASSUME NEW v \in Compared, NEW w \in Compared, Parsed(v), Parsed(w), NEW k \in 0..Digits,
           \A i \in 1..k : Digit(v, i) = Digit(w, i)
    PROVE  Scale[v][k] = Scale[w][k]
<1> DEFINE T == {n \in 0..k : Scale[v][n] # Scale[w][n]}
<1>1. Digits \in Nat
  BY DigitsAssumption DEF Digits
<1>2. SUFFICES ASSUME T # {} PROVE FALSE
  BY <1>1
<1>3. PICK n \in T : \A m \in T : n <= m
  <2>1. T \in SUBSET Nat
    BY <1>1
  <2> HIDE DEF T
  <2> QED BY <1>2, <2>1, Least
<1>4. n \in 1..k /\ n - 1 \in 0..k
  BY <1>1, DigitsOfVersion
<1>5. Scale[v][n - 1] = Scale[w][n - 1]
  <2>1. n - 1 \notin T
    <3> HIDE DEF T
    <3> QED BY <1>3, <1>4
  <2> QED BY <1>4, <2>1
<1>6. /\ Scale[v][n] = Scale[v][n - 1] * Radix[n] + Digit(v, n)
      /\ Scale[w][n] = Scale[w][n - 1] * Radix[n] + Digit(w, n)
  BY <1>1, <1>4, DigitsOfVersion
<1> QED BY <1>4, <1>5, <1>6

\* One step of the comparison: the digits before decide, or this one does.
LEMMA DigitDecides ==
    ASSUME NEW x \in Nat, NEW y \in Nat, NEW p \in Nat, NEW q \in Nat, NEW r \in Nat,
           x < y \/ (x = y /\ p < q), p < r
    PROVE  x * r + p < y * r + q
<1>1. x * r \in Nat /\ y * r \in Nat
  OBVIOUS
<1>2. CASE x < y
  <2>1. PICK k \in Nat : y = x + 1 + k
    <3>1. y - x - 1 \in Nat /\ y = x + 1 + (y - x - 1)
      BY <1>2
    <3> QED BY <3>1
  <2>2. y * r = x * r + r + k * r /\ k * r \in Nat
    BY <2>1
  <2> QED BY <1>1, <2>2
<1>3. CASE x = y /\ p < q
  BY <1>1, <1>3
<1> QED BY <1>2, <1>3

\* The first digit that differs decides.
LEMMA FirstDigitDecides ==
    ASSUME NEW v \in Compared, NEW w \in Compared, Parsed(v), Parsed(w), NEW k \in 1..Digits,
           Digit(v, k) < Digit(w, k), \A i \in 1..k - 1 : Digit(v, i) = Digit(w, i)
    PROVE  Weight(v) < Weight(w)
<1> DEFINE T == {n \in k..Digits : ~(Scale[v][n] < Scale[w][n])}
<1>1. Digits \in Nat
  BY DigitsAssumption DEF Digits
<1>2. SUFFICES ASSUME T # {} PROVE FALSE
  <2>1. Digits \in k..Digits
    BY <1>1
  <2> QED BY <2>1 DEF Weight
<1>3. PICK n \in T : \A m \in T : n <= m
  <2>1. T \in SUBSET Nat
    BY <1>1
  <2> HIDE DEF T
  <2> QED BY <1>2, <2>1, Least
<1>4. n \in 1..Digits /\ n - 1 \in 0..Digits /\ n \in k..Digits /\ n \in Nat
  BY <1>1
<1> DEFINE x == Scale[v][n - 1]  y == Scale[w][n - 1]
           p == Digit(v, n)  q == Digit(w, n)  r == Radix[n]
<1>5. /\ Scale[v][n] = x * r + p /\ Scale[w][n] = y * r + q
      /\ x \in Nat /\ y \in Nat /\ p \in Nat /\ q \in Nat /\ r \in Nat /\ p < r
  BY <1>4, DigitsOfVersion
<1>6. x < y \/ (x = y /\ p < q)
  <2>1. CASE n = k
    <3>1. k - 1 \in 0..Digits
      BY <1>4, <2>1
    <3>2. x = y
      BY <2>1, <3>1, DigitsAgree
    <3> QED BY <2>1, <3>2
  <2>2. CASE n # k
    <3>1. n - 1 \in k..Digits /\ ~(n <= n - 1)
      BY <1>1, <1>4, <2>2
    <3>2. n - 1 \notin T
      <4> HIDE DEF T
      <4> QED BY <1>3, <3>1
    <3> QED BY <3>1, <3>2
  <2> QED BY <2>1, <2>2
<1>7. x * r + p < y * r + q
  <2> HIDE DEF x, y, p, q, r
  <2> QED BY <1>5, <1>6, DigitDecides
<1> HIDE DEF x, y, p, q, r
<1>8. Scale[v][n] < Scale[w][n]
  BY <1>5, <1>7
<1> QED BY <1>8

\* What CompareVersions puts below has the smaller digit where the two first differ.
LEMMA BelowHasADigit ==
    ASSUME NEW v \in Compared, NEW w \in Compared, Parsed(v), Parsed(w), Below(v, w)
    PROVE  \E k \in 1..Digits : Digit(v, k) < Digit(w, k) /\ \A i \in 1..k - 1 : Digit(v, i) = Digit(w, i)
<1> DEFINE m == Nums(v)  n == Nums(w)  p == Pre(v)  q == Pre(w)
<1>1. /\ v \in Versions /\ w \in Versions /\ NumberDigits \in Nat /\ SuffixDigits \in Nat \ {0}
      /\ Digits = NumberDigits + SuffixDigits
      /\ Numbers(v) <= NumberDigits /\ Numbers(w) <= NumberDigits
      /\ Len(p) <= SuffixDigits /\ Len(q) <= SuffixDigits
  BY DigitsAssumption DEF Digits
<1>2. /\ Numbered(m) /\ Numbered(n) /\ p \in Seq(Nat) /\ q \in Seq(Nat)
      /\ DOMAIN m = 1..Numbers(v) /\ DOMAIN n = 1..Numbers(w) /\ Numbers(v) \in Nat /\ Numbers(w) \in Nat
  BY <1>1, NumsAreNumbered, SuffixOfVersion, NumbersOfVersion DEF Nums
<1>3. \A i : i <= NumberDigits => Digit(v, i) = Part(m, i) /\ Digit(w, i) = Part(n, i)
  BY DEF Digit
<1>4. CASE NumsBelow(m, n)
  <2>1. PICK i \in DOMAIN m \cup DOMAIN n : /\ Part(m, i) < Part(n, i)
                                            /\ \A j \in 1..i - 1 : Part(m, j) = Part(n, j)
    <3> HIDE DEF m, n
    <3> QED BY <1>4 DEF NumsBelow
  <2>2. i \in 1..NumberDigits /\ i \in 1..Digits
    <3> HIDE DEF m, n, p, q
    <3> QED BY <1>1, <1>2
  <2>3. \A j \in 1..i - 1 : j <= NumberDigits
    BY <1>1, <2>2
  <2> HIDE DEF m, n, p, q
  <2> QED BY <1>1, <1>3, <2>1, <2>2, <2>3
<1>5. CASE ~NumsBelow(m, n)
  <2>1. ~NumsBelow(n, m) /\ PreBelow(p, q)
    BY <1>5 DEF Below
  <2>2. \A i : Part(m, i) = Part(n, i)
    <3> HIDE DEF m, n, p, q
    <3> QED BY <1>2, <1>5, <2>1, NumsDecided
  <2>3. \A i \in 1..NumberDigits : Digit(v, i) = Digit(w, i)
    <3> HIDE DEF m, n, p, q
    <3> QED BY <1>1, <1>3, <2>2
  <2>4. p # <<>>
    BY <2>1 DEF PreBelow
  <2>5. \A i \in Nat \ {0} : Digit(v, NumberDigits + i) = IF i \in DOMAIN p THEN p[i] + 1 ELSE 0
    <3> SUFFICES ASSUME NEW i \in Nat \ {0}
                 PROVE  Digit(v, NumberDigits + i) = IF i \in DOMAIN p THEN p[i] + 1 ELSE 0
      OBVIOUS
    <3>1. ~(NumberDigits + i <= NumberDigits) /\ NumberDigits + i - NumberDigits = i
      BY <1>1
    <3> DEFINE k == NumberDigits + i
    <3>2. Digit(v, k) = IF k - NumberDigits \in DOMAIN p THEN p[k - NumberDigits] + 1 ELSE 0
      <4> HIDE DEF k
      <4> QED BY <2>4, <3>1 DEF Digit, k
    <3>3. k - NumberDigits = i
      BY <1>1, <3>1 DEF k
    <3> HIDE DEF k, p
    <3>4. Digit(v, k) = IF i \in DOMAIN p THEN p[i] + 1 ELSE 0
      BY <3>2, <3>3
    <3> QED BY <3>4 DEF k
  <2>6. CASE q = <<>>
    <3>1. 1 \in DOMAIN p /\ NumberDigits + 1 \in 1..Digits
      <4> HIDE DEF p
      <4> QED BY <1>1, <1>2, <2>4
    <3>2. Digit(w, NumberDigits + 1) = Radix[NumberDigits + 1] - 1
      <4>1. ~(NumberDigits + 1 <= NumberDigits)
        BY <1>1
      <4> QED BY <2>6, <4>1 DEF Digit
    <3>3. p[1] + 1 < Radix[NumberDigits + 1] - 1
      BY <3>1, DigitsAssumption
    <3>4. Digit(v, NumberDigits + 1) = p[1] + 1
      BY <2>5, <3>1
    <3>5. \A i \in 1..(NumberDigits + 1) - 1 : i \in 1..NumberDigits
      BY <1>1
    <3> HIDE DEF p
    <3> QED BY <2>3, <3>1, <3>2, <3>3, <3>4, <3>5
  <2>7. CASE q # <<>>
    <3>1. PICK i \in DOMAIN q : /\ \A j \in 1..i - 1 : j \in DOMAIN p /\ p[j] = q[j]
                                /\ i \in DOMAIN p => p[i] < q[i]
      <4> HIDE DEF p, q
      <4> QED BY <2>1, <2>7 DEF PreBelow, Lexical
    <3>2. \A j \in Nat \ {0} : Digit(w, NumberDigits + j) = IF j \in DOMAIN q THEN q[j] + 1 ELSE 0
      <4> SUFFICES ASSUME NEW j \in Nat \ {0}
                   PROVE  Digit(w, NumberDigits + j) = IF j \in DOMAIN q THEN q[j] + 1 ELSE 0
        OBVIOUS
      <4>1. ~(NumberDigits + j <= NumberDigits) /\ NumberDigits + j - NumberDigits = j
        BY <1>1
      <4> DEFINE k == NumberDigits + j
      <4>2. Digit(w, k) = IF k - NumberDigits \in DOMAIN q THEN q[k - NumberDigits] + 1 ELSE 0
        <5> HIDE DEF k
        <5> QED BY <2>7, <4>1 DEF Digit, k
      <4>3. k - NumberDigits = j
        BY <1>1, <4>1 DEF k
      <4> HIDE DEF k, q
      <4>4. Digit(w, k) = IF j \in DOMAIN q THEN q[j] + 1 ELSE 0
        BY <4>2, <4>3
      <4> QED BY <4>4 DEF k
    <3>3. /\ i \in Nat \ {0} /\ NumberDigits + i \in 1..Digits /\ i <= Len(q)
          /\ DOMAIN q = 1..Len(q) /\ q[i] \in Nat /\ (i \in DOMAIN p => p[i] \in Nat)
      <4> HIDE DEF m, n, p, q
      <4> QED BY <1>1, <1>2
    <3>4. Digit(v, NumberDigits + i) < Digit(w, NumberDigits + i)
      <4> HIDE DEF p, q
      <4> QED BY <2>5, <3>1, <3>2, <3>3
    <3>5. ASSUME NEW j \in 1..(NumberDigits + i) - 1 PROVE Digit(v, j) = Digit(w, j)
      <4>1. CASE j <= NumberDigits
        BY <1>1, <2>3, <4>1
      <4>2. CASE ~(j <= NumberDigits)
        <5>1. PICK h \in 1..i - 1 : j = NumberDigits + h
          <6>1. j - NumberDigits \in 1..i - 1 /\ j = NumberDigits + (j - NumberDigits)
            BY <1>1, <3>3, <4>2
          <6> QED BY <6>1
        <5>2. h \in Nat \ {0} /\ h \in DOMAIN q /\ h \in DOMAIN p /\ p[h] = q[h]
          <6> HIDE DEF p, q
          <6> QED BY <3>1, <3>3
        <5> HIDE DEF p, q
        <5> QED BY <2>5, <3>2, <5>1, <5>2
      <4> QED BY <4>1, <4>2
    <3> QED BY <3>3, <3>4, <3>5
  <2> QED BY <2>6, <2>7
<1> QED BY <1>4, <1>5

\* What is compared is weighed, and the weights decide.
LEMMA Weighed ==
    ASSUME NEW v \in Compared, NEW w \in Compared, Comparable(v, w)
    PROVE  /\ Weight(v) \in Nat /\ Weight(w) \in Nat
           /\ Below(v, w) <=> Weight(v) < Weight(w)
           /\ Same(v, w) <=> Weight(v) = Weight(w)
<1>1. Parsed(v) /\ Parsed(w)
  BY DEF Comparable
<1>2. Digits \in 0..Digits
  BY DigitsAssumption DEF Digits
<1>3. Weight(v) \in Nat /\ Weight(w) \in Nat
  BY <1>1, <1>2, DigitsOfVersion DEF Weight
<1>4. Below(v, w) => Weight(v) < Weight(w)
  BY <1>1, BelowHasADigit, FirstDigitDecides
<1>5. Below(w, v) => Weight(w) < Weight(v)
  BY <1>1, BelowHasADigit, FirstDigitDecides
<1>6. Same(v, w) => Weight(v) = Weight(w)
  <2> SUFFICES ASSUME Same(v, w) PROVE Weight(v) = Weight(w)
    OBVIOUS
  <2>1. v \in Versions /\ w \in Versions
    BY <1>1, DigitsAssumption
  <2>2. (\A i : Part(Nums(v), i) = Part(Nums(w), i)) /\ Pre(v) = Pre(w)
    BY <2>1, SameMeansEqual
  <2>3. \A i \in 1..Digits : Digit(v, i) = Digit(w, i)
    BY <2>2 DEF Digit
  <2> QED BY <1>1, <1>2, <2>3, DigitsAgree DEF Weight
<1>7. Same(v, w) <=> ~Below(v, w) /\ ~Below(w, v)
  BY DEF Same
<1>8. ~(Weight(v) < Weight(w) /\ Weight(w) < Weight(v)) /\ (Weight(v) = Weight(w) => ~(Weight(v) < Weight(w)))
      /\ (Weight(v) = Weight(w) => ~(Weight(w) < Weight(v)))
  BY <1>3
<1> QED BY <1>3, <1>4, <1>5, <1>6, <1>7, <1>8

\* A valid range covers the versions between its bounds, and leaves those that
\* cannot be compared open.
LEMMA CoversMeansInside ==
    ASSUME NEW r, {r.intro, r.fixed} \subseteq Compared, ~BadRange(r), NEW v \in Compared
    PROVE  /\ Parsed(v) => (Covers(r, v) = "match" <=> Inside(r, v))
           /\ ~Parsed(v) => Covers(r, v) = "unresolved"
<1>1. r.intro # NoVersion => Parsed(r.intro)
  BY DEF BadRange
<1>2. r.fixed # NoVersion => Parsed(r.fixed)
  BY DEF BadRange
<1>3. CASE Parsed(v)
  <2>1. AboveIntroduced(r, v) = "match" <=> r.intro = NoVersion \/ Weight(r.intro) <= Weight(v)
    <3>1. CASE r.intro = NoVersion
      BY <3>1 DEF AboveIntroduced
    <3>2. CASE r.intro # NoVersion
      <4>1. Comparable(v, r.intro)
        BY <1>1, <1>3, <3>2 DEF Comparable
      <4>2. /\ Weight(v) \in Nat /\ Weight(r.intro) \in Nat
            /\ Below(v, r.intro) <=> Weight(v) < Weight(r.intro)
        BY <4>1, Weighed
      <4>3. ~(Weight(v) < Weight(r.intro)) <=> Weight(r.intro) <= Weight(v)
        BY <4>2
      <4> QED BY <3>2, <4>1, <4>2, <4>3 DEF AboveIntroduced
    <3> QED BY <3>1, <3>2
  <2>2. BelowFixed(r, v) = "match" <=> r.fixed = NoVersion \/ Weight(v) < Weight(r.fixed)
    <3>1. CASE r.fixed = NoVersion
      BY <3>1 DEF BelowFixed
    <3>2. CASE r.fixed # NoVersion
      <4>1. Comparable(v, r.fixed)
        BY <1>2, <1>3, <3>2 DEF Comparable
      <4>2. Below(v, r.fixed) <=> Weight(v) < Weight(r.fixed)
        BY <4>1, Weighed
      <4> QED BY <3>2, <4>1, <4>2 DEF BelowFixed
    <3> QED BY <3>1, <3>2
  <2>3. Covers(r, v) = "match" <=> AboveIntroduced(r, v) = "match" /\ BelowFixed(r, v) = "match"
    BY DEF Covers
  <2> QED BY <1>3, <2>1, <2>2, <2>3 DEF Inside
<1>4. CASE ~Parsed(v)
  <2>1. r.intro # NoVersion \/ r.fixed # NoVersion
    BY DEF BadRange
  <2>2. ~Comparable(v, r.intro) /\ ~Comparable(v, r.fixed)
    BY <1>4 DEF Comparable
  <2> QED BY <1>4, <2>1, <2>2 DEF Covers, AboveIntroduced, BelowFixed
<1> QED BY <1>3, <1>4

\* What a feed compares with.
LEMMA EntriesAreCompared ==
    ASSUME NEW f \in Feeds, NEW e \in EntriesOf(f)
    PROVE  e.versions \subseteq Compared /\ \A r \in e.ranges : {r.intro, r.fixed} \subseteq Compared
BY DEF Compared

\* The verdict on the version of a component that is named.
LEMMA VersionVerdict ==
    ASSUME NEW f \in Feeds, NEW e \in EntriesOf(f), ~BadEntry(e), NEW v \in Compared
    PROVE  /\ Parsed(v) => (VersionAffected(e, v) = "match" <=>
                  \/ e.versions \cup e.ranges = {}
                  \/ \E w \in e.versions : Weight(w) = Weight(v)
                  \/ \E r \in e.ranges : Inside(r, v))
           /\ ~Parsed(v) /\ e.versions \cup e.ranges = {} => VersionAffected(e, v) = "match"
           /\ ~Parsed(v) /\ e.versions \cup e.ranges # {} => VersionAffected(e, v) = "unresolved"
<1>1. \A w \in e.versions : w \in Compared /\ Parsed(w)
  BY EntriesAreCompared DEF BadEntry
<1>2. \A r \in e.ranges : {r.intro, r.fixed} \subseteq Compared /\ ~BadRange(r)
  BY EntriesAreCompared DEF BadEntry
<1>3. VersionAffected(e, v) = "match" <=>
          \/ e.versions \cup e.ranges = {}
          \/ \E w \in e.versions : Comparable(v, w) /\ Same(v, w)
          \/ \E r \in e.ranges : Covers(r, v) = "match"
  BY DEF VersionAffected
<1>4. CASE Parsed(v)
  <2>1. \A w \in e.versions : Comparable(v, w) /\ (Same(v, w) <=> Weight(w) = Weight(v))
    BY <1>1, <1>4, Weighed DEF Comparable
  <2>2. \A r \in e.ranges : Covers(r, v) = "match" <=> Inside(r, v)
    BY <1>2, <1>4, CoversMeansInside
  <2> QED BY <1>3, <1>4, <2>1, <2>2
<1>5. CASE ~Parsed(v)
  <2>1. \A w \in e.versions : ~Comparable(v, w)
    BY <1>5 DEF Comparable
  <2>2. \A r \in e.ranges : Covers(r, v) = "unresolved"
    BY <1>2, <1>5, CoversMeansInside
  <2>3. e.versions \cup e.ranges # {} => VersionAffected(e, v) = "unresolved"
    <3> SUFFICES ASSUME e.versions \cup e.ranges # {} PROVE VersionAffected(e, v) = "unresolved"
      OBVIOUS
    <3>1. VersionAffected(e, v) # "match"
      BY <1>3, <2>1, <2>2
    <3>2. (\E w \in e.versions : ~Comparable(v, w)) \/ (\E r \in e.ranges : Covers(r, v) = "unresolved")
      BY <2>1, <2>2
    <3> QED BY <3>1, <3>2 DEF VersionAffected
  <2> QED BY <1>3, <1>5, <2>3
<1> QED BY <1>4, <1>5

\* A valid entry accuses what its author means, and passes over nothing of that.
LEMMA MatchesMeansAffects ==
    ASSUME NEW f \in Feeds, NEW e \in EntriesOf(f), ~BadEntry(e), NEW c, c.version \in Compared
    PROVE  /\ Matches(e, c) = "match" => Affects(e, c)
           /\ Affects(e, c) \/ Undecided(e, c) => Matches(e, c) # "none"
<1>1. e.kind \in Kinds /\ e.match # None /\ (e.kind # "package" => e.versions \cup e.ranges = {})
  BY DEF BadEntry
<1>2. CASE e.kind = "package"
  <2>1. Matches(e, c) = IF c.package = None \/ c.package # e.match THEN "none"
                        ELSE IF c.version = NoVersion THEN "match"
                        ELSE VersionAffected(e, c.version)
    BY <1>2 DEF Matches
  <2>2. Names(e, c) <=> c.package = e.match
    BY <1>2 DEF Names
  <2>3. ASSUME Matches(e, c) = "match" PROVE Affects(e, c)
    <3>1. Names(e, c) /\ (c.version = NoVersion \/ VersionAffected(e, c.version) = "match")
      BY <2>1, <2>2, <2>3
    <3>2. CASE c.version # NoVersion /\ Parsed(c.version)
      BY <3>1, <3>2, VersionVerdict DEF Affects
    <3>3. CASE c.version # NoVersion /\ ~Parsed(c.version)
      <4>1. e.versions \cup e.ranges = {}
        BY <3>1, <3>3, VersionVerdict
      <4> QED BY <3>1, <4>1 DEF Affects
    <3> QED BY <3>1, <3>2, <3>3 DEF Affects
  <2>4. ASSUME Affects(e, c) \/ Undecided(e, c) PROVE Matches(e, c) # "none"
    <3>1. c.package = e.match /\ c.package # None
      BY <1>1, <2>2, <2>4 DEF Affects, Undecided
    <3>2. CASE c.version = NoVersion
      BY <2>1, <3>1, <3>2
    <3>3. CASE c.version # NoVersion
      <4>1. VersionAffected(e, c.version) \in {"match", "unresolved"}
        BY <2>4, <3>3, VersionVerdict DEF Affects, Undecided
      <4> QED BY <2>1, <3>1, <3>3, <4>1
    <3> QED BY <3>2, <3>3
  <2> QED BY <2>3, <2>4
<1>3. CASE e.kind # "package"
  <2>1. Affects(e, c) <=> Names(e, c)
    BY <1>1, <1>3 DEF Affects
  <2>2. ~Undecided(e, c)
    BY <1>1, <1>3 DEF Undecided
  <2>3. Matches(e, c) \in {"match", "none"} /\ (Matches(e, c) = "match" <=> Names(e, c))
    <3>1. CASE e.kind = "artifact_digest"
      BY <1>1, <3>1 DEF Matches, Names
    <3>2. CASE e.kind = "file_digest"
      BY <1>1, <3>2 DEF Matches, Names
    <3>3. CASE e.kind = "node_name"
      BY <1>1, <3>3 DEF Matches, Names
    <3> QED BY <1>1, <1>3, <3>1, <3>2, <3>3 DEF Kinds
  <2> QED BY <2>1, <2>2, <2>3
<1> QED BY <1>2, <1>3

\* A match is one, is none, or is left open.
LEMMA MatchesIsVerdict ==
    ASSUME NEW e, NEW c, Matches(e, c) # "none", Matches(e, c) # "unresolved"
    PROVE  Matches(e, c) = "match"
<1>1. \A v : VersionAffected(e, v) \in {"match", "unresolved", "none"}
  BY DEF VersionAffected
<1> QED BY <1>1 DEF Matches

\* The versions in an inventory are those of the contents.
LEMMA InventoryIsCompared == TypeOK => \A c \in inv : c.version \in Compared
<1> SUFFICES ASSUME TypeOK, NEW c \in inv PROVE c.version \in Compared
  OBVIOUS
<1>1. c \in Components
  BY TypeParts DEF RunTyped
<1>2. c.version \in {d.version : d \in Contents}
  BY <1>1 DEF Components
<1> QED BY <1>2 DEF Compared

\* What the list raises.
ListRaised(f) == UNION {Raised("known_bad", {h.comp}, h.unresolved) : h \in Hits(EntriesOf(f), inv)}

\* The step that asks the list, in one formula.
LEMMA MatchFeedSteps ==
    ASSUME TypeOK, MatchFeed
    PROVE  /\ Step("feed", "lock")
           /\ \/ UNCHANGED <<viols, checked>>
              \/ /\ feed # None /\ viols' = viols \cup ListRaised(feed)
                 /\ checked'.list = feed
           /\ UNCHANGED <<files, pol, ruled, inv, cut, lapsed, exit, events, reviewed, agreed, missed, calm>>
<1>1. (checked' = [checked EXCEPT !.list = feed]) => checked'.list = feed
  BY TypeParts DEF HistoryTyped
<1> QED BY <1>1 DEF MatchFeed, ListRaised, EntriesOf

-----------------------------------------------------------------------------
(* The list: nobody is accused falsely. *)

\* Before the list was asked nothing is said in its name.
AccuseInv ==
    /\ TypeOK
    /\ pc \notin {"lock", "save", "output", "done"} =>
           checked.list = None /\ \A v \in viols : v.rule # "known_bad"
    /\ NoFalseAccusation

\* What a valid list raises, other than a question, is about what an entry means.
LEMMA RaisedIsAffected ==
    ASSUME TypeOK, NEW f \in Feeds, \A e \in EntriesOf(f) : ~BadEntry(e),
           NEW v \in ListRaised(f), ~v.open
    PROVE  \E c \in inv, e \in EntriesOf(f) : c.place = v.place /\ Affects(e, c)
<1>1. PICK h \in Hits(EntriesOf(f), inv) : v \in Raised("known_bad", {h.comp}, h.unresolved)
  BY DEF ListRaised
<1>2. PICK p \in EntriesOf(f) \X inv : /\ Matches(p[1], p[2]) # "none"
                                       /\ h = [entry |-> p[1], comp |-> p[2],
                                               unresolved |-> Matches(p[1], p[2]) = "unresolved"]
  BY DEF Hits
<1>3. v.place = h.comp.place /\ v.open = h.unresolved
  BY <1>1, RaisedIsAbout
<1>4. v.place = p[2].place /\ Matches(p[1], p[2]) # "unresolved"
  BY <1>2, <1>3
<1>5. p[1] \in EntriesOf(f) /\ p[2] \in inv
  OBVIOUS
<1>6. Matches(p[1], p[2]) = "match"
  BY <1>2, <1>4, MatchesIsVerdict
<1>7. Affects(p[1], p[2])
  BY <1>5, <1>6, InventoryIsCompared, MatchesMeansAffects
<1> QED BY <1>4, <1>5, <1>7

\* Every step keeps the accusations true.
LEMMA AccuseStep == AccuseInv /\ [Next]_vars => AccuseInv'
<1> SUFFICES ASSUME AccuseInv, [Next]_vars PROVE AccuseInv'
  OBVIOUS
<1> TypeOK /\ TypeOK'
  BY StepTyped DEF AccuseInv
<1>1. ASSUME checked'.list = None, \A v \in viols' : v.rule # "known_bad" PROVE AccuseInv'
  BY <1>1 DEF AccuseInv, NoFalseAccusation
<1>2. ASSUME checked'.list = checked.list, inv' = inv, \A v \in viols' \ viols : v.rule # "known_bad",
             pc' = pc \/ pc' \in {"lock", "save", "output", "done"}
      PROVE  AccuseInv'
  <2>1. Valid' => Valid /\ Listed' = Listed
    BY <1>2 DEF Valid, Listed
  <2>2. NoFalseAccusation'
    <3> SUFFICES ASSUME Valid', NEW v \in viols', v.rule = "known_bad", ~v.open
                 PROVE  \E c \in inv', e \in Listed' : c.place = v.place /\ Affects(e, c)
      BY DEF NoFalseAccusation
    <3>1. v \in viols
      BY <1>2
    <3>2. \E c \in inv, e \in Listed : c.place = v.place /\ Affects(e, c)
      BY <2>1, <3>1 DEF AccuseInv, NoFalseAccusation
    <3> QED BY <1>2, <2>1, <3>2
  <2>3. pc' \notin {"lock", "save", "output", "done"} =>
            checked'.list = None /\ \A v \in viols' : v.rule # "known_bad"
    BY <1>2 DEF AccuseInv
  <2> QED BY <2>2, <2>3 DEF AccuseInv
<1>3. ASSUME NEW o \in Options, StartRun(o) PROVE AccuseInv'
  BY <1>1, <1>3 DEF StartRun, Unchecked
<1>4. CASE LoadPolicy
  BY <1>1, <1>4 DEF LoadPolicy, Step, Fails, history, AccuseInv
<1>5. CASE InstallRules
  BY <1>1, <1>5 DEF InstallRules, Step, history, AccuseInv
<1>6. CASE TakeProject \/ TakeProjectRefused \/ TakeProjectCut
  BY <1>1, <1>6 DEF TakeProject, TakeProjectRefused, TakeProjectCut, Step, Fails, history, AccuseInv
<1>7. CASE Assess
  <2>1. \A v \in viols' : v.rule \in {"risk_indicator", "unpinned_package"}
    BY <1>7, UnevaluableIsTyped, RaisedRule DEF Assess
  <2> QED BY <1>1, <1>7, <2>1 DEF Assess, Step, history, AccuseInv
<1>8. CASE MatchFeed
  <2>1. pc = "feed" /\ pc' = "lock" /\ inv' = inv
    BY <1>8, MatchFeedSteps DEF Step
  <2>2. CASE UNCHANGED <<viols, checked>>
    BY <1>2, <2>1, <2>2
  <2>3. CASE feed # None /\ viols' = viols \cup ListRaised(feed) /\ checked'.list = feed
    <3>1. ASSUME Valid', NEW v \in viols', v.rule = "known_bad", ~v.open
          PROVE  \E c \in inv', e \in Listed' : c.place = v.place /\ Affects(e, c)
      <4>1. v \in ListRaised(feed)
        BY <2>1, <2>3, <3>1 DEF AccuseInv
      <4>2. feed \in Feeds /\ Listed' = EntriesOf(feed)
        BY <2>3, TypeParts DEF FilesTyped, Listed, EntriesOf
      <4>3. \A e \in EntriesOf(feed) : ~BadEntry(e)
        BY <2>3, <3>1 DEF Valid, Problems, EntriesOf
      <4> QED BY <2>1, <3>1, <4>1, <4>2, <4>3, RaisedIsAffected
    <3>2. NoFalseAccusation'
      BY <3>1 DEF NoFalseAccusation
    <3> QED BY <2>1, <3>2 DEF AccuseInv
  <2> QED BY <1>8, <2>2, <2>3, MatchFeedSteps
<1>9. CASE CompareLock
  <2>1. CASE Fails
    BY <1>2, <1>9, <2>1, CompareLockFails DEF Fails, history
  <2>2. CASE ~Fails
    <3>1. \A v \in viols' \ viols : v.rule # "known_bad"
      <4>1. \A locked : \A v \in LockRaised(locked) : v.rule \in {"unlocked_component", "lock_drift"}
        BY RaisedRule DEF LockRaised
      <4> QED BY <1>9, <2>2, <4>1, CompareLockSteps
    <3>2. checked'.list = checked.list
      BY <1>9, <2>2, CompareLockSteps, TypeParts DEF HistoryTyped
    <3>3. inv' = inv /\ pc' \in {"save", "output"}
      BY <1>9, <2>2, CompareLockSteps DEF Step
    <3> QED BY <1>2, <3>1, <3>2, <3>3
  <2> QED BY <2>1, <2>2
<1>10. CASE SaveLock
  BY <1>2, <1>10 DEF SaveLock, Step, result
<1>11. CASE SaveLockFails
  BY <1>2, <1>11 DEF SaveLockFails, Fails
<1>12. CASE Output
  BY <1>2, <1>12 DEF Output, Step, Fails, history
<1>13. CASE Killed
  BY <1>1, <1>13 DEF Killed, Unchecked
<1>14. CASE Around
  BY <1>2, <1>14, AroundSteps DEF run, result
<1>15. CASE UNCHANGED vars
  BY <1>2, <1>15 DEF vars, run, result, history
<1> QED BY <1>3, <1>4, <1>5, <1>6, <1>7, <1>8, <1>9, <1>10, <1>11, <1>12, <1>13, <1>14, <1>15
        DEF Next, RunNext, Around

\* A valid list accuses no component that none of its entries means: whatever is
\* replaced while the gate runs, and however the versions are written.
THEOREM AccusationsAreTrue == Spec => []NoFalseAccusation
<1>1. Init => AccuseInv
  BY InitTyped DEF Init, AccuseInv, Unchecked, NoFalseAccusation
<1>2. AccuseInv /\ [Next]_vars => AccuseInv'
  BY AccuseStep
<1>3. AccuseInv => NoFalseAccusation
  BY DEF AccuseInv
<1> QED BY <1>1, <1>2, <1>3, PTL DEF Spec

-----------------------------------------------------------------------------
(* What is not told, and what a green build means. *)

\* The run has come to one of these steps and has not failed.
Past(S) == pc \in S \/ (pc = "done" /\ exit # 2)

\* What a rule finds at a place is reported at its level.
Raises(r, p) == pol.level[r] # "ignore" =>
    \E v \in viols : v.rule = r /\ v.place = p /\ v.level = pol.level[r]

AssessedIsTold ==
    /\ ~opt.noFeed /\ ~ruled /\ "error" \in Asked => \E v \in viols : v.level = "error" /\ ~v.waived
    /\ \A c \in inv : /\ c.danger => Raises("risk_indicator", c.place)
                      /\ c.unpinned => Raises("unpinned_package", c.place)

ListedIsTold == Valid =>
    \A c \in inv, e \in Listed : Affects(e, c) \/ Undecided(e, c) => Raises("known_bad", c.place)

\* The inventory has all that the walk was not refused.
Reached == \A p \in Readable \ missed : Component(p, TRUE, TRUE) \in inv

\* What a run knows when it has come so far: its files could be read, its inventory
\* has what it was not refused, and all that it found is among its violations.
VerdictInv ==
    /\ TypeOK
    /\ exit # None => pc = "done"
    /\ Past({"rules", "walk", "assess", "feed", "lock", "save", "output"}) /\ calm => policyFile # Unreadable
    /\ Past({"save", "output"}) /\ calm => lockFile # Unreadable
    /\ Past({"assess", "feed", "lock", "save", "output"}) /\ Steady => Reached
    /\ Past({"feed", "lock", "save", "output"}) => AssessedIsTold
    /\ Past({"lock", "save", "output"}) => ListedIsTold
    /\ exit = 0 => ~Failing

\* What is raised for a component is raised at its place.
LEMMA RaisedIsThere == \A r, S, open : \A c \in S : pol.level[r] # "ignore" =>
    \E v \in Raised(r, S, open) : v.rule = r /\ v.place = c.place /\ v.level = pol.level[r]
<1> SUFFICES ASSUME NEW r, NEW S, NEW open, NEW c \in S, pol.level[r] # "ignore"
             PROVE  \E v \in Raised(r, S, open) : v.rule = r /\ v.place = c.place /\ v.level = pol.level[r]
  OBVIOUS
<1> DEFINE v == [rule |-> r, place |-> c.place, level |-> pol.level[r],
                 waived |-> Exempt(r, c), open |-> open]
<1>1. v \in Raised(r, S, open)
  BY DEF Raised
<1>2. v.rule = r /\ v.place = c.place /\ v.level = pol.level[r]
  OBVIOUS
<1> QED BY <1>1, <1>2

\* A gate that could not ask its rules fails, when one of them is an error.
LEMMA UnevaluableIsTold ==
    ~opt.noFeed /\ ~ruled /\ "error" \in Asked => \E v \in Unevaluable : v.level = "error" /\ ~v.waived
BY DEF Unevaluable

\* What was told stays told when violations are only added.
LEMMA ToldStays ==
    ASSUME UNCHANGED <<pol, ruled, opt, inv>>, viols \subseteq viols'
    PROVE  /\ AssessedIsTold => AssessedIsTold'
           /\ \A r, p : Raises(r, p) => Raises(r, p)'
           /\ checked'.list = checked.list /\ ListedIsTold => ListedIsTold'
<1>1. \A r, p : Raises(r, p) => Raises(r, p)'
  BY DEF Raises
<1>2. AssessedIsTold => AssessedIsTold'
  BY <1>1 DEF AssessedIsTold, Asked
<1>3. checked'.list = checked.list => (Valid' <=> Valid) /\ Listed' = Listed
  BY DEF Valid, Listed
<1>4. checked'.list = checked.list /\ ListedIsTold => ListedIsTold'
  BY <1>1, <1>3 DEF ListedIsTold
<1> QED BY <1>1, <1>2, <1>4

\* Assessing tells what the inventory shows.
LEMMA AssessTells == Assess => AssessedIsTold'
<1> SUFFICES ASSUME Assess PROVE AssessedIsTold'
  OBVIOUS
<1>1. UNCHANGED <<opt, ruled, pol, inv>>
  BY DEF Assess, Step
<1>2. /\ Unevaluable \subseteq viols'
      /\ Raised("risk_indicator", {c \in inv : c.danger}, FALSE) \subseteq viols'
      /\ Raised("unpinned_package", {c \in inv : c.unpinned}, FALSE) \subseteq viols'
  BY DEF Assess
<1>3. ~opt.noFeed /\ ~ruled /\ "error" \in Asked => \E v \in viols' : v.level = "error" /\ ~v.waived
  BY <1>2, UnevaluableIsTold
<1>4. ASSUME NEW c \in inv, c.danger, pol.level["risk_indicator"] # "ignore"
      PROVE  \E v \in viols' : v.rule = "risk_indicator" /\ v.place = c.place /\ v.level = pol.level["risk_indicator"]
  <2> DEFINE S == {d \in inv : d.danger}
  <2>1. c \in S /\ Raised("risk_indicator", S, FALSE) \subseteq viols'
    BY <1>2, <1>4
  <2> HIDE DEF S
  <2>2. \E v \in Raised("risk_indicator", S, FALSE) :
            v.rule = "risk_indicator" /\ v.place = c.place /\ v.level = pol.level["risk_indicator"]
    <3> DEFINE v == [rule |-> "risk_indicator", place |-> c.place, level |-> pol.level["risk_indicator"],
                     waived |-> Exempt("risk_indicator", c), open |-> FALSE]
    <3>1. v \in Raised("risk_indicator", S, FALSE)
      BY <1>4, <2>1 DEF Raised
    <3> QED BY <3>1
  <2> QED BY <2>1, <2>2
<1>5. ASSUME NEW c \in inv, c.unpinned, pol.level["unpinned_package"] # "ignore"
      PROVE  \E v \in viols' : v.rule = "unpinned_package" /\ v.place = c.place /\ v.level = pol.level["unpinned_package"]
  <2> DEFINE S == {d \in inv : d.unpinned}
  <2>1. c \in S /\ Raised("unpinned_package", S, FALSE) \subseteq viols'
    BY <1>2, <1>5
  <2> HIDE DEF S
  <2>2. \E v \in Raised("unpinned_package", S, FALSE) :
            v.rule = "unpinned_package" /\ v.place = c.place /\ v.level = pol.level["unpinned_package"]
    <3> DEFINE v == [rule |-> "unpinned_package", place |-> c.place, level |-> pol.level["unpinned_package"],
                     waived |-> Exempt("unpinned_package", c), open |-> FALSE]
    <3>1. v \in Raised("unpinned_package", S, FALSE)
      BY <1>5, <2>1 DEF Raised
    <3> QED BY <3>1
  <2> QED BY <2>1, <2>2
<1>6. \A c \in inv' : (c.danger => Raises("risk_indicator", c.place)') /\ (c.unpinned => Raises("unpinned_package", c.place)')
  BY <1>1, <1>4, <1>5 DEF Raises
<1>7. Asked' = Asked
  BY <1>1 DEF Asked
<1> QED BY <1>1, <1>3, <1>6, <1>7 DEF AssessedIsTold

\* Asking the list tells what it means, and what it leaves open.
LEMMA MatchFeedTells ==
    ASSUME TypeOK, MatchFeed, checked.list = None
    PROVE  ListedIsTold'
<1>1. TypeOK'
  BY StepTyped DEF Next, RunNext
<1>2. UNCHANGED <<pol, inv>>
  BY MatchFeedSteps
<1>3. CASE UNCHANGED checked
  BY <1>3 DEF ListedIsTold, Valid
<1>4. CASE ~UNCHANGED checked
  <2>1. feed # None /\ viols' = viols \cup ListRaised(feed) /\ checked'.list = feed
    BY <1>4, MatchFeedSteps
  <2>2. feed \in Feeds /\ Listed' = EntriesOf(feed)
    BY <2>1, TypeParts DEF FilesTyped, Listed, EntriesOf
  <2>3. ASSUME Valid', NEW c \in inv, NEW e \in EntriesOf(feed), Affects(e, c) \/ Undecided(e, c),
               pol.level["known_bad"] # "ignore"
        PROVE  \E v \in viols' : v.rule = "known_bad" /\ v.place = c.place /\ v.level = pol.level["known_bad"]
    <3>1. ~BadEntry(e)
      BY <2>1, <2>3 DEF Valid, Problems, EntriesOf
    <3>2. Matches(e, c) # "none"
      BY <2>2, <2>3, <3>1, InventoryIsCompared, MatchesMeansAffects
    <3> DEFINE h == [entry |-> e, comp |-> c, unresolved |-> Matches(e, c) = "unresolved"]
    <3>3. h \in Hits(EntriesOf(feed), inv)
      <4>1. <<e, c>> \in EntriesOf(feed) \X inv /\ <<e, c>>[1] = e /\ <<e, c>>[2] = c
        OBVIOUS
      <4> QED BY <3>2, <4>1 DEF Hits
    <3>4. Raised("known_bad", {h.comp}, h.unresolved) \subseteq viols'
      <4> HIDE DEF h
      <4> QED BY <2>1, <3>3 DEF ListRaised
    <3>5. h.comp = c
      OBVIOUS
    <3> HIDE DEF h
    <3>6. c \in {h.comp}
      BY <3>5
    <3>7. \E v \in Raised("known_bad", {h.comp}, h.unresolved) :
              v.rule = "known_bad" /\ v.place = c.place /\ v.level = pol.level["known_bad"]
      BY <2>3, <3>6, RaisedIsThere
    <3> QED BY <3>4, <3>7
  <2> QED BY <1>2, <2>2, <2>3 DEF ListedIsTold, Raises
<1> QED BY <1>3, <1>4

\* A lockfile that was written can be read.
LEMMA LockCanBeRead == TypeOK => NewLock(inv) # Unreadable
BY LockIsTyped, LockAssumption, TypeParts DEF RunTyped

\* A run that returns an error says nothing.
LEMMA FailedSaysNothing == TypeOK' /\ Fails => VerdictInv'
BY DEF Fails, VerdictInv, Past

\* A walk that was refused files has all the rest.
LEMMA RefusedReaches == TakeProjectRefused => Reached'
<1> SUFFICES ASSUME TakeProjectRefused PROVE Reached'
  OBVIOUS
<1>1. PICK M \in SUBSET {q \in Present : repo[q].parses} : \E partly \in SUBSET M, blind \in SUBSET M :
          /\ blind \subseteq partly
          /\ inv' = {Component(p, p \notin M, p \notin blind) :
                       p \in {q \in Present : repo[q].parses} \ (M \ partly)}
          /\ missed' = M
  BY DEF TakeProjectRefused
<1>2. PICK partly \in SUBSET M, blind \in SUBSET M :
          /\ blind \subseteq partly
          /\ inv' = {Component(p, p \notin M, p \notin blind) :
                       p \in {q \in Present : repo[q].parses} \ (M \ partly)}
          /\ missed' = M
  BY <1>1
<1>3. ASSUME NEW p \in Readable, p \notin M PROVE Component(p, TRUE, TRUE) \in inv'
  <2>1. p \notin blind /\ p \in {q \in Present : repo[q].parses} \ (M \ partly)
    BY <1>3 DEF Readable
  <2>2. Component(p, p \notin M, p \notin blind) \in inv'
    BY <1>2, <2>1
  <2>3. (p \notin M) = TRUE /\ (p \notin blind) = TRUE
    BY <1>3, <2>1
  <2> QED BY <2>2, <2>3
<1>4. \A p : Component(p, TRUE, TRUE)' = Component(p, TRUE, TRUE)
  BY DEF TakeProjectRefused, files, Component
<1>5. Readable' = Readable
  BY DEF TakeProjectRefused, files, Readable, Present
<1> QED BY <1>2, <1>3, <1>4, <1>5 DEF Reached

\* Every step keeps what a run knows.
LEMMA VerdictStep == VerdictInv /\ AccuseInv /\ [Next]_vars => VerdictInv'
<1> SUFFICES ASSUME VerdictInv, AccuseInv, [Next]_vars PROVE VerdictInv'
  OBVIOUS
<1> TypeOK /\ TypeOK'
  BY StepTyped DEF VerdictInv
\* What is told stays told, and what it rests on stays where it is.
<1>1. ASSUME UNCHANGED <<pol, ruled, opt, inv, cut, repo, missed>>, calm' => calm,
             viols \subseteq viols', checked'.list = checked.list
      PROVE  /\ AssessedIsTold => AssessedIsTold'
             /\ ListedIsTold => ListedIsTold'
             /\ (Steady' => Steady) /\ (Reached => Reached')
  BY <1>1, ToldStays DEF Steady, Reached, Readable, Present, Component
<1>2. ASSUME UNCHANGED <<pol, ruled, opt, inv, cut, viols, checked, missed, exit, pc>>,
             calm' => calm /\ UNCHANGED <<repo, policyFile, lockFile>>
      PROVE  VerdictInv'
  <2>1. (AssessedIsTold => AssessedIsTold') /\ (ListedIsTold => ListedIsTold')
    BY <1>2, ToldStays
  <2>2. (Steady' => Steady /\ UNCHANGED repo) /\ (UNCHANGED repo => (Reached => Reached'))
    BY <1>2 DEF Steady, Reached, Readable, Present, Component
  <2>3. Failing' => Failing
    BY <1>2 DEF Failing
  <2> QED BY <1>2, <2>1, <2>2, <2>3 DEF VerdictInv, Past
<1>3. ASSUME exit' = None, pc' \in {"policy", "idle"} PROVE VerdictInv'
  <2>1. None \notin {0, 1, 2}
    BY NoneAssumption
  <2> QED BY <1>3, <2>1 DEF VerdictInv, Past
\* Steps inside the run, before its end.
<1>4. ASSUME pc \notin {"idle", "done"}, UNCHANGED <<exit, policyFile, calm>>,
             pc' \in {"rules", "walk", "assess", "feed", "lock", "save", "output"},
             calm /\ pc = "policy" => policyFile # Unreadable,
             pc' \in {"save", "output"} => lockFile' # Unreadable,
             pc' \in {"assess", "feed", "lock", "save", "output"} /\ Steady' => Reached',
             pc' \in {"feed", "lock", "save", "output"} => AssessedIsTold',
             pc' \in {"lock", "save", "output"} => ListedIsTold'
      PROVE  VerdictInv'
  <2>1. exit' = None /\ exit = None
    BY <1>4 DEF VerdictInv
  <2>2. None \notin {0, 1, 2}
    BY NoneAssumption
  <2>3. pc \in {"policy", "rules", "walk", "assess", "feed", "lock", "save", "output"}
    BY <1>4, TypeParts DEF RunTyped, Stages
  <2>4. calm => policyFile # Unreadable
    BY <1>4, <2>3 DEF VerdictInv, Past
  <2> QED BY <1>4, <2>1, <2>2, <2>4 DEF VerdictInv, Past
<1>5. ASSUME NEW o \in Options, StartRun(o) PROVE VerdictInv'
  BY <1>3, <1>5 DEF StartRun
<1>6. CASE LoadPolicy
  <2>1. CASE Fails
    BY <2>1, FailedSaysNothing
  <2>2. CASE ~Fails
    BY <1>4, <1>6, <2>2 DEF LoadPolicy, Step, files, history
  <2> QED BY <2>1, <2>2
<1>7. CASE InstallRules
  BY <1>4, <1>7 DEF InstallRules, Step, files, history
<1>8. CASE TakeProject
  <2>1. CASE Fails
    BY <2>1, FailedSaysNothing
  <2>2. CASE ~Fails
    <3>1. pc = "walk" /\ pc' = "assess" /\ UNCHANGED <<exit, policyFile, calm>>
      BY <1>8, <2>2 DEF TakeProject, Step, files, history
    <3>2. Steady' => Reached'
      <4>1. Steady' => inv' = {Component(p, TRUE, TRUE) : p \in Readable}
        BY <1>8, <2>2 DEF TakeProject, Step, Steady, Readable
      <4>2. \A p : Component(p, TRUE, TRUE)' = Component(p, TRUE, TRUE)
        BY <1>8, <2>2 DEF TakeProject, files, Component
      <4>3. Readable' = Readable
        BY <1>8, <2>2 DEF TakeProject, files, Readable, Present
      <4> QED BY <4>1, <4>2, <4>3 DEF Reached
    <3> QED BY <1>4, <3>1, <3>2
  <2> QED BY <2>1, <2>2
<1>9. CASE TakeProjectRefused \/ TakeProjectCut
  <2>1. pc = "walk" /\ pc' = "assess" /\ UNCHANGED <<exit, policyFile, calm>>
    BY <1>9 DEF TakeProjectRefused, TakeProjectCut, Step, files, history
  <2>2. Steady' => Reached'
    <3>1. CASE TakeProjectCut
      BY <3>1 DEF TakeProjectCut, Steady
    <3>2. CASE TakeProjectRefused
      BY <3>2, RefusedReaches
    <3> QED BY <1>9, <3>1, <3>2
  <2> QED BY <1>4, <2>1, <2>2
<1>10. CASE Assess
  <2>1. pc = "assess" /\ pc' = "feed" /\ UNCHANGED <<exit, policyFile, calm, inv, ruled, repo, cut, opt, missed>>
    BY <1>10 DEF Assess, Step, files, history
  <2>2. (Steady' => Steady) /\ (Reached => Reached')
    BY <2>1 DEF Steady, Reached, Readable, Present, Component
  <2>3. Steady' => Reached'
    BY <2>1, <2>2 DEF VerdictInv, Past
  <2> QED BY <1>4, <1>10, <2>1, <2>3, AssessTells
<1>11. CASE MatchFeed
  <2>1. /\ pc = "feed" /\ pc' = "lock"
        /\ UNCHANGED <<exit, policyFile, calm, inv, ruled, repo, cut, opt, missed, pol>> /\ viols \subseteq viols'
    BY <1>11, MatchFeedSteps DEF Step, files
  <2>2. (Steady' => Steady) /\ (Reached => Reached')
    BY <2>1 DEF Steady, Reached, Readable, Present, Component
  <2>3. Steady' => Reached'
    BY <2>1, <2>2 DEF VerdictInv, Past
  <2>4. AssessedIsTold'
    BY <2>1, ToldStays DEF VerdictInv, Past
  <2>5. ListedIsTold'
    BY <1>11, <2>1, MatchFeedTells DEF AccuseInv
  <2> QED BY <1>4, <2>1, <2>3, <2>4, <2>5
<1>12. CASE CompareLock
  <2>1. CASE Fails
    BY <2>1, FailedSaysNothing
  <2>2. CASE ~Fails
    <3>1. /\ pc = "lock" /\ pc' \in {"save", "output"} /\ lockFile' = lockFile /\ lockFile # Unreadable
          /\ UNCHANGED <<exit, policyFile, calm, inv, ruled, repo, cut, opt, missed, pol>> /\ viols \subseteq viols'
      BY <1>12, <2>2, CompareLockSteps DEF Step, files
    <3>2. checked'.list = checked.list
      BY <1>12, <2>2, CompareLockSteps, TypeParts DEF HistoryTyped
    <3>3. AssessedIsTold' /\ ListedIsTold' /\ (Steady' => Steady) /\ (Reached => Reached')
      BY <1>1, <3>1, <3>2 DEF VerdictInv, Past
    <3>4. Steady' => Reached'
      BY <3>1, <3>3 DEF VerdictInv, Past
    <3> QED BY <1>4, <3>1, <3>3, <3>4
  <2> QED BY <2>1, <2>2
<1>13. CASE SaveLock
  <2>1. /\ pc = "save" /\ pc' = "output" /\ lockFile' = NewLock(inv)
        /\ UNCHANGED <<exit, policyFile, calm, inv, ruled, repo, cut, opt, missed, pol, viols, checked>>
    BY <1>13 DEF SaveLock, Step, result
  <2>2. AssessedIsTold' /\ ListedIsTold' /\ (Steady' => Steady) /\ (Reached => Reached')
    BY <1>1, <2>1 DEF VerdictInv, Past
  <2>3. Steady' => Reached'
    BY <2>1, <2>2 DEF VerdictInv, Past
  <2> QED BY <1>4, <2>1, <2>2, <2>3, LockCanBeRead
<1>14. CASE SaveLockFails
  BY <1>14, FailedSaysNothing DEF SaveLockFails
<1>15. CASE Output
  <2>1. CASE Fails
    BY <2>1, FailedSaysNothing
  <2>2. CASE ~Fails
    <3>1. /\ pc = "output" /\ pc' = "done" /\ exit' = IF Failing THEN 1 ELSE 0
          /\ UNCHANGED <<policyFile, lockFile, calm, inv, ruled, repo, cut, opt, missed, pol, viols, checked>>
      BY <1>15, <2>2 DEF Output, Step, files, history
    <3>2. AssessedIsTold' /\ ListedIsTold' /\ (Steady' => Steady) /\ (Reached => Reached')
      BY <1>1, <3>1 DEF VerdictInv, Past
    <3>3. Steady' => Reached'
      BY <3>1, <3>2 DEF VerdictInv, Past
    <3>4. exit' = 0 => ~Failing'
      BY <3>1 DEF Failing
    <3>5. calm' => policyFile' # Unreadable /\ lockFile' # Unreadable
      BY <3>1 DEF VerdictInv, Past
    <3> QED BY <3>1, <3>2, <3>3, <3>4, <3>5 DEF VerdictInv
  <2> QED BY <2>1, <2>2
<1>16. CASE Killed
  BY <1>3, <1>16 DEF Killed
<1>17. CASE Around
  <2>1. calm' => calm /\ UNCHANGED <<repo, policyFile, lockFile>>
    BY <1>17 DEF Around, ChangeComponent, ChangePolicy, ChangeLock, ChangeFeed, Midnight, Change, history
  <2> QED BY <1>2, <1>17, <2>1, AroundSteps DEF run, result
<1>18. CASE UNCHANGED vars
  BY <1>2, <1>18 DEF vars, files, run, result, history
<1> QED BY <1>5, <1>6, <1>7, <1>8, <1>9, <1>10, <1>11, <1>12, <1>13, <1>14, <1>15, <1>16, <1>17, <1>18
        DEF Next, RunNext, Around

\* A repository starts without a run.
LEMMA VerdictInit == Init => VerdictInv /\ AccuseInv
<1> SUFFICES ASSUME Init PROVE VerdictInv /\ AccuseInv
  OBVIOUS
<1>1. None \notin {0, 1, 2}
  BY NoneAssumption
<1> QED BY <1>1, InitTyped DEF Init, VerdictInv, Past, AccuseInv, Unchecked, NoFalseAccusation

\* A valid list passes over no component that one of its entries means, nor over one
\* whose version cannot be compared with it, unless the policy ignores the list.
THEOREM NothingListedIsMissed == Spec => []NoSilentMiss
<1>1. Init => VerdictInv /\ AccuseInv
  BY VerdictInit
<1>2. VerdictInv /\ AccuseInv /\ [Next]_vars => VerdictInv' /\ AccuseInv'
  BY VerdictStep, AccuseStep
<1>3. VerdictInv /\ AccuseInv => NoSilentMiss
  <2> SUFFICES ASSUME VerdictInv, Valid, pc \in {"save", "output"}, pol.level["known_bad"] # "ignore",
                      NEW c \in inv, NEW e \in Listed, Affects(e, c) \/ Undecided(e, c)
               PROVE  Told("known_bad", c.place)
    BY DEF NoSilentMiss
  <2>1. Raises("known_bad", c.place)
    BY DEF VerdictInv, Past, ListedIsTold
  <2> QED BY <2>1 DEF Raises, Told
<1> QED BY <1>1, <1>2, <1>3, PTL DEF Spec

\* What a rule raises as an error is excused in a green build.
LEMMA GreenExcuses ==
    ASSUME ~Failing, NEW r, NEW p, Raises(r, p)
    PROVE  Excused(r, p)
<1> SUFFICES ASSUME pol.level[r] = "error" PROVE \E v \in viols : v.rule = r /\ v.place = p /\ v.waived
  BY DEF Excused
<1>1. PICK v \in viols : v.rule = r /\ v.place = p /\ v.level = "error"
  BY DEF Raises
<1> QED BY <1>1 DEF Failing

\* A green build over a repository and a feed that stayed as they were means that
\* its policy and lockfile could be read, that the rules it makes an error were
\* asked, and that what it makes an error is not there or has a waiver.  Like
\* the property, it leaves out what cannot be parsed or was refused to the gate, runs
\* with a spent budget, --no-feed, and a root that is a file.
THEOREM GreenIsClean == Spec => []GreenMeansClean
<1>1. Init => VerdictInv /\ AccuseInv
  BY VerdictInit
<1>2. VerdictInv /\ AccuseInv /\ [Next]_vars => VerdictInv' /\ AccuseInv'
  BY VerdictStep, AccuseStep
<1>3. VerdictInv => GreenMeansClean
  <2> SUFFICES ASSUME VerdictInv, exit = 0, calm, ~cut, opt.root = "dir", ~opt.noFeed
               PROVE  /\ policyFile # Unreadable /\ lockFile # Unreadable
                      /\ "error" \in {pol.level["risk_indicator"], pol.level["known_bad"]} => ruled
                      /\ \A p \in Present \ missed : repo[p].parses => Clean(p)
    BY DEF GreenMeansClean
  <2>1. pc = "done" /\ exit # 2 /\ ~Failing
    BY NoneAssumption DEF VerdictInv
  <2>2. policyFile # Unreadable /\ lockFile # Unreadable /\ AssessedIsTold /\ ListedIsTold /\ Reached
    BY <2>1 DEF VerdictInv, Past, Steady
  <2>3. "error" \in {pol.level["risk_indicator"], pol.level["known_bad"]} => ruled
    <3> SUFFICES ASSUME "error" \in {pol.level["risk_indicator"], pol.level["known_bad"]}, ~ruled PROVE FALSE
      OBVIOUS
    <3>1. "error" \in Asked
      BY DEF Asked
    <3> QED BY <2>1, <2>2, <3>1 DEF AssessedIsTold, Failing
  <2>4. ASSUME NEW p \in Present \ missed, repo[p].parses PROVE Clean(p)
    <3> DEFINE c == Component(p, TRUE, TRUE)
    <3>1. c \in inv /\ c.place = p
      BY <2>2, <2>4 DEF Reached, Readable, Component
    <3>2. c.unpinned = repo[p].unpinned
      BY DEF Component
    <3>3. repo[p].danger => Excused("risk_indicator", p)
      <4> SUFFICES ASSUME repo[p].danger, pol.level["risk_indicator"] = "error" PROVE Excused("risk_indicator", p)
        BY DEF Excused
      <4>1. ruled
        BY <2>3
      <4>2. c.danger = (repo[p].danger /\ TRUE /\ ruled)
        BY DEF Component
      <4>3. Raises("risk_indicator", p)
        BY <2>2, <3>1, <4>1, <4>2 DEF AssessedIsTold
      <4> QED BY <2>1, <4>3, GreenExcuses
    <3>4. ASSUME NEW e \in Listed, Valid, Affects(e, c) PROVE Excused("known_bad", p)
      <4>1. Raises("known_bad", p)
        BY <2>2, <3>1, <3>4 DEF ListedIsTold
      <4> QED BY <2>1, <4>1, GreenExcuses
    <3>5. repo[p].unpinned => Excused("unpinned_package", p)
      <4>1. repo[p].unpinned => Raises("unpinned_package", p)
        BY <2>2, <3>1, <3>2 DEF AssessedIsTold
      <4> QED BY <2>1, <4>1, GreenExcuses
    <3> QED BY <3>3, <3>4, <3>5 DEF Clean
  <2> QED BY <2>2, <2>3, <2>4
<1> QED BY <1>1, <1>2, <1>3, PTL DEF Spec
=============================================================================
