---------------------------- MODULE Drift_proofs ----------------------------
(* Proofs about Drift, for any number of runs, components, contents, rules *)
(* and any bounds.                                                         *)
EXTENDS Drift, TLAPS

-----------------------------------------------------------------------------
(* Types. *)

\* What a live run needs of its own variables, beside their types: it has an
\* inventory, inside a root it has a place, and between the two reads of a
\* directory it holds an artifact.
LiveOK ==
    /\ \A r \in Runs : pc[r] # "idle" => inv[r] \in Inventory
    /\ \A r \in Runs : pc[r] \in {"hash", "scan"} => at[r] \in Places
    /\ \A r \in Runs : pc[r] = "scan" => held[r] \in Artifact

TypeInv == TypeOK /\ LiveOK

\* A scan finds indicators of the installed rules only.
LEMMA SeenType ==
    ASSUME NEW v, NEW R \in RuleSets
    PROVE  Seen(v, R) \subseteq Indicators
BY DEF Seen, Hit, Indicators

\* What is hashed is an artifact.
LEMMA HashedType ==
    ASSUME NEW p \in Places, NEW v \in Versions, NEW w \in BOOLEAN
    PROVE  Hashed(p, v, w) \in Artifact
BY DEF Hashed, Artifact, Ids, Digests

\* Adding an artifact or its index to an inventory, or ending its walk, leaves
\* an inventory.
LEMMA InventoryType ==
    ASSUME NEW i \in Inventory
    PROVE  /\ \A a \in Artifact, c \in BOOLEAN :
                 [i EXCEPT !.arts = i.arts \cup {a}, !.cut = c] \in Inventory
           /\ \A f \in Indexes(i.arts) : [i EXCEPT !.index = f] \in Inventory
           /\ [i EXCEPT !.cut = TRUE] \in Inventory
<1>1. \A f \in Indexes(i.arts) : f \in UNION {[D -> Artifact] : D \in SUBSET Ids}
  <2> SUFFICES ASSUME NEW f \in Indexes(i.arts)
               PROVE  f \in UNION {[D -> Artifact] : D \in SUBSET Ids}
    OBVIOUS
  <2> DEFINE D == {a.id : a \in i.arts}
  <2>1. i.arts \subseteq Artifact
    BY DEF Inventory
  <2>2. f \in [D -> Artifact]
    BY <2>1 DEF Indexes
  <2>3. D \in SUBSET Ids
    BY <2>1 DEF Artifact
  <2> QED BY <2>2, <2>3
<1> QED BY <1>1 DEF Inventory

\* A run starts with an inventory.
LEMMA EmptyInventoryType ==
    ASSUME NEW R \in RuleSets
    PROVE  EmptyInventory(R) \in Inventory
<1>1. [i \in {} |-> None] \in [{} -> Artifact]
  OBVIOUS
<1> QED BY <1>1 DEF EmptyInventory, Inventory

\* The initial state has the types.
THEOREM InitTypes == Init => TypeInv
BY BoundsAssumption DEF Init, TypeInv, TypeOK, LiveOK, Places

\* A report names artifacts.
LEMMA NamedType ==
    ASSUME NEW b, NEW c \in Inventory
    PROVE  Named(b, c) \subseteq Ids \X Digests /\ Pairs(c.arts) \subseteq Ids \X Digests
<1>1. \A k \in DOMAIN c.index : c.index[k] \in Artifact
  BY DEF Inventory
<1> QED BY <1>1 DEF Named, Pairs, Added, Modified, Artifact, Inventory

\* What was shown, owed or lost keeps its type when a report is written or not.
ReviewsOK ==
    /\ shown \subseteq Ids \X Digests /\ unseen \subseteq Ids \X Digests
    /\ owed \in [Runs -> SUBSET (Ids \X Digests)]

LEMMA ReviewsType ==
    ASSUME TypeInv, NEW r \in Runs, pc[r] # "idle", Told(r) \/ Untold(r)
    PROVE  ReviewsOK'
<1>1. Named(base[r], inv[r]) \subseteq Ids \X Digests
  BY NamedType DEF TypeInv, LiveOK
<1> QED BY <1>1 DEF TypeInv, TypeOK, Told, Untold, ReviewsOK

\* Exit resets a run and leaves the rest of the types alone.
LEMMA ExitTypes ==
    ASSUME TypeInv, NEW r \in Runs, Exit(r), ReviewsOK',
           baseline' \in Inventory \cup {NoBaseline, Unreadable},
           faults' \in 0..MaxFaults
    PROVE  TypeInv'
<1>1. /\ pc' = [pc EXCEPT ![r] = "idle"] /\ inv' = [inv EXCEPT ![r] = None]
      /\ at' = [at EXCEPT ![r] = 1] /\ held' = [held EXCEPT ![r] = None]
  BY DEF Exit, Goto
<1>2. LiveOK'
  BY <1>1 DEF TypeInv, TypeOK, LiveOK
<1>3. 1 \in 1..NPlaces + 1
  BY BoundsAssumption
<1>4. TypeOK'
  BY <1>1, <1>3 DEF Exit, machine, TypeInv, TypeOK, ReviewsOK
<1> QED BY <1>2, <1>4 DEF TypeInv

\* The walk stays within the places and one beyond them.
LEMMA AdvanceType ==
    ASSUME TypeInv, NEW r \in Runs, at[r] \in Places, Advance(r)
    PROVE  /\ at' \in [Runs -> 1..NPlaces + 1]
           /\ \A q \in Runs \ {r} : at'[q] = at[q] /\ pc'[q] = pc[q]
           /\ at'[r] = at[r] + 1 /\ pc'[r] \in {"root", "hash"}
           /\ pc'[r] = "hash" => at'[r] \in Siblings(at[r])
           /\ pc' \in [Runs -> {"idle", "root", "hash", "scan", "load", "record", "save",
                                 "output", "prompt"}]
<1>1. at[r] + 1 \in 1..NPlaces + 1
  BY BoundsAssumption DEF Places
<1> QED BY <1>1 DEF Advance, Goto, TypeInv, TypeOK

\* A fault stays within its bound.
LEMMA FaultType == ASSUME TypeInv, Fault PROVE faults' \in 0..MaxFaults
BY BoundsAssumption DEF Fault, TypeInv, TypeOK

\* Every step keeps the types.
THEOREM StepTypes == TypeInv /\ [Next]_vars => TypeInv'
<1> SUFFICES ASSUME TypeInv, [Next]_vars PROVE TypeInv'
  OBVIOUS
<1> USE DEF TypeInv, TypeOK, LiveOK
<1>1. ASSUME NEW r \in Runs, Start(r) PROVE TypeInv'
  BY <1>1, EmptyInventoryType DEF Start, Goto, machine, past, reviews
<1>2. ASSUME NEW r \in Runs, Skip(r) PROVE TypeInv'
  <2>1. Advance(r) /\ at[r] \in Places
    BY <1>2 DEF Skip
  <2> QED BY <1>2, <2>1, AdvanceType DEF Skip, machine, past, reviews, Siblings
<1>3. ASSUME NEW r \in Runs, HashTree(r) PROVE TypeInv'
  <2>1. at[r] \in Places /\ pc[r] = "hash"
    BY <1>3 DEF HashTree, Hashing
  <2>2. CASE /\ content[at[r]] # Absent
             /\ held' = [held EXCEPT ![r] = Hashed(at[r], content[at[r]], TRUE)]
             /\ Goto(r, "scan") /\ UNCHANGED at
    <3>1. Hashed(at[r], content[at[r]], TRUE) \in Artifact
      BY <2>1, <2>2, HashedType
    <3> QED BY <1>3, <2>1, <2>2, <3>1 DEF HashTree, Goto, machine, past, reviews
  <2>3. CASE Advance(r) /\ UNCHANGED held
    BY <1>3, <2>1, <2>3, AdvanceType DEF HashTree, machine, past, reviews, Siblings
  <2> QED BY <1>3, <2>2, <2>3 DEF HashTree
<1>4. ASSUME NEW r \in Runs, HashTreeInPart(r) PROVE TypeInv'
  <2>1. at[r] \in Places /\ pc[r] = "hash" /\ content[at[r]] # Absent
    BY <1>4 DEF HashTreeInPart, Hashing
  <2>2. Hashed(at[r], content[at[r]], FALSE) \in Artifact
    BY <2>1, HashedType
  <2>3. [inv[r] EXCEPT !.cut = TRUE] \in Inventory
    BY <2>1, InventoryType
  <2>4. faults' \in 0..MaxFaults
    BY <1>4, FaultType DEF HashTreeInPart
  <2>5. /\ inv' \in [Runs -> Inventory \cup {None}] /\ inv'[r] \in Inventory
        /\ \A q \in Runs \ {r} : inv'[q] = inv[q]
        /\ missed' \in [Runs -> SUBSET Places]
    <3>1. CASE inv' = [inv EXCEPT ![r].cut = TRUE] /\ UNCHANGED missed
      <4>1. inv' = [inv EXCEPT ![r] = [inv[r] EXCEPT !.cut = TRUE]]
        BY <3>1
      <4> QED BY <2>1, <2>3, <3>1, <4>1
    <3>2. CASE Miss(r, {at[r]}) /\ UNCHANGED inv
      BY <2>1, <3>2 DEF Miss
    <3> QED BY <1>4, <3>1, <3>2 DEF HashTreeInPart
  <2>6. CASE /\ held' = [held EXCEPT ![r] = Hashed(at[r], content[at[r]], FALSE)]
             /\ Goto(r, "scan") /\ UNCHANGED at
    BY <1>4, <2>1, <2>2, <2>4, <2>5, <2>6 DEF HashTreeInPart, Goto, machine, reviews
  <2>7. CASE Advance(r) /\ UNCHANGED held
    BY <1>4, <2>1, <2>4, <2>5, <2>7, AdvanceType DEF HashTreeInPart, machine, reviews, Siblings
  <2> QED BY <1>4, <2>6, <2>7 DEF HashTreeInPart
<1>5. ASSUME NEW r \in Runs, NEW s \in SUBSET Indicators, NEW c \in BOOLEAN,
             pc[r] = "scan", AddArtifact(r, s, c),
             UNCHANGED <<machine, baseline, mode, listed, base, verdict, touched, reviews>>,
             missed' \in [Runs -> SUBSET Places], faults' \in 0..MaxFaults
      PROVE  TypeInv'
  <2> DEFINE a == [held[r] EXCEPT !.inds = s]
             i == [inv[r] EXCEPT !.arts = inv[r].arts \cup {a}, !.cut = c]
  <2>1. a \in Artifact
    BY <1>5 DEF Artifact
  <2>2. i \in Inventory
    BY <1>5, <2>1, InventoryType
  <2>3. inv' = [inv EXCEPT ![r] = i] /\ held' = [held EXCEPT ![r] = None] /\ Advance(r)
    BY <1>5 DEF AddArtifact
  <2> HIDE DEF i
  <2>4. /\ inv' \in [Runs -> Inventory \cup {None}] /\ inv'[r] \in Inventory
        /\ \A q \in Runs \ {r} : inv'[q] = inv[q] /\ held'[q] = held[q]
        /\ held' \in [Runs -> Artifact \cup {None}]
    BY <2>2, <2>3
  <2> QED BY <1>5, <2>3, <2>4, AdvanceType DEF machine, reviews, Siblings
<1>6. ASSUME NEW r \in Runs, ScanTree(r) PROVE TypeInv'
  <2> DEFINE s == IF inv[r].cut \/ content[at[r]] = Absent THEN {}
                  ELSE Seen(content[at[r]], inv[r].rules)
  <2>1. inv[r] \in Inventory /\ pc[r] = "scan"
    BY <1>6 DEF ScanTree
  <2>2. s \in SUBSET Indicators /\ inv[r].cut \in BOOLEAN
    BY <2>1, SeenType DEF Inventory
  <2>3. AddArtifact(r, s, inv[r].cut)
    BY <1>6 DEF ScanTree
  <2> HIDE DEF s
  <2> QED BY <1>6, <2>1, <2>2, <2>3, <1>5 DEF ScanTree, past
<1>7. ASSUME NEW r \in Runs, ScanTreeInPart(r) PROVE TypeInv'
  <2>1. inv[r] \in Inventory /\ pc[r] = "scan" /\ at[r] \in Places
    BY <1>7 DEF ScanTreeInPart
  <2>2. faults' \in 0..MaxFaults
    BY <1>7, FaultType DEF ScanTreeInPart
  <2>3. ASSUME NEW s \in SUBSET Seen(content[at[r]], inv[r].rules), AddArtifact(r, s, TRUE),
               UNCHANGED missed
        PROVE  TypeInv'
    <3>1. s \in SUBSET Indicators
      BY <2>1, SeenType DEF Inventory
    <3> QED BY <1>7, <2>1, <2>2, <2>3, <3>1, <1>5 DEF ScanTreeInPart
  <2>4. ASSUME NEW s \in SUBSET (MarksOf(content[at[r]]) \cap inv[r].rules),
               AddArtifact(r, s, FALSE), Miss(r, {at[r]})
        PROVE  TypeInv'
    <3>1. s \in SUBSET Indicators /\ missed' \in [Runs -> SUBSET Places]
      BY <2>1, <2>4 DEF Inventory, Indicators, Miss
    <3> QED BY <1>7, <2>1, <2>2, <2>4, <3>1, <1>5 DEF ScanTreeInPart
  <2> QED BY <1>7, <2>3, <2>4 DEF ScanTreeInPart
<1>8. ASSUME NEW r \in Runs, EndTake(r) PROVE TypeInv'
  <2>1. PICK f \in Indexes(inv[r].arts) : inv' = [inv EXCEPT ![r].index = f]
    BY <1>8 DEF EndTake
  <2>2. [inv[r] EXCEPT !.index = f] \in Inventory
    BY <1>8, InventoryType DEF EndTake
  <2> QED BY <1>8, <2>1, <2>2 DEF EndTake, Goto, machine, past, reviews
<1>9. ASSUME NEW r \in Runs, LoadNone(r) PROVE TypeInv'
  BY <1>9 DEF LoadNone, Goto, machine, past, reviews
<1>10. ASSUME NEW r \in Runs, LoadFails(r) PROVE TypeInv'
  BY <1>10 DEF LoadFails, Goto, machine, past, reviews
<1>11. ASSUME NEW r \in Runs, Compare(r) PROVE TypeInv'
  <2>1. inv[r] \in Inventory /\ baseline \in Inventory
    BY <1>11 DEF Compare, Recorded
  <2> QED BY <1>11, <2>1 DEF Compare, Goto, machine, past, reviews
<1>12. ASSUME NEW r \in Runs, RecordFirst(r) \/ SaveAccepted(r) PROVE TypeInv'
  <2>1. inv[r] \in Inventory
    BY <1>12 DEF RecordFirst, SaveAccepted
  <2>2. faults' \in 0..MaxFaults
    BY <1>12, FaultType DEF RecordFirst, SaveAccepted
  <2>3. /\ baseline' \in Inventory \cup {NoBaseline, Unreadable}
        /\ owed' \in [Runs -> SUBSET (Ids \X Digests)]
    <3>1. /\ Named(base[r], inv[r]) \subseteq Ids \X Digests
          /\ Pairs(inv[r].arts) \subseteq Ids \X Digests
      BY <2>1, NamedType
    <3>2. CASE UNCHANGED <<baseline, owed>>
      BY <3>2
    <3>3. CASE Accept(r, Pairs(inv[r].arts)) \/ Accept(r, Named(base[r], inv[r]))
      BY <2>1, <3>1, <3>3 DEF Accept
    <3> QED BY <1>12, <3>2, <3>3 DEF RecordFirst, SaveAccepted
  <2>4. verdict' \in [Runs -> {"match", "drift", "first", "unread", None}]
    BY <1>12 DEF RecordFirst, SaveAccepted
  <2> QED BY <1>12, <2>1, <2>2, <2>3, <2>4 DEF RecordFirst, SaveAccepted, Goto, machine, past
<1>14. ASSUME NEW r \in Runs, Output(r) PROVE TypeInv'
  <2>1. faults' \in 0..MaxFaults
    BY <1>14, FaultType DEF Output, Exit
  <2>2. ReviewsOK'
    BY <1>14, ReviewsType DEF Output
  <2>3. CASE Exit(r)
    BY <1>14, <2>1, <2>2, <2>3, ExitTypes DEF Output
  <2>4. CASE ~Exit(r)
    BY <1>14, <2>1, <2>2, <2>4 DEF Output, Goto, machine, past, ReviewsOK
  <2> QED BY <2>3, <2>4
<1>15. ASSUME NEW r \in Runs, Answer(r) PROVE TypeInv'
  <2>1. inv[r] \in Inventory /\ Exit(r) /\ ReviewsOK'
    BY <1>15 DEF Answer, ReviewsOK, reviews
  <2> QED BY <1>15, <2>1, FaultType, ExitTypes DEF Answer
<1>16. ASSUME NEW r \in Runs, Crash(r) PROVE TypeInv'
  BY <1>16, FaultType, ReviewsType, ExitTypes DEF Crash
<1>17. ASSUME NEW p \in Places, NEW v \in Versions \cup {Absent}, Edit(p, v) PROVE TypeInv'
  BY <1>17, BoundsAssumption DEF Edit, reviews
<1>18. ASSUME NEW R \in RuleSets, InstallRules(R) PROVE TypeInv'
  BY <1>18, BoundsAssumption DEF InstallRules, past, reviews
<1>19. CASE Damage
  BY <1>19, FaultType DEF Damage, machine, past, reviews
<1>21. ASSUME NEW r \in Runs, ReadRoot(r) PROVE TypeInv'
  <2>1. There(Siblings(at[r])) \subseteq Places /\ at[r] \in Places /\ pc[r] = "root"
    BY <1>21 DEF ReadRoot, There, Siblings
  <2>2. faults' \in 0..MaxFaults
    BY <1>21, FaultType DEF ReadRoot
  <2>3. listed' \in [Runs -> SUBSET Places] /\ missed' \in [Runs -> SUBSET Places]
    BY <1>21, <2>1 DEF ReadRoot, Miss
  <2> QED BY <1>21, <2>1, <2>2, <2>3 DEF ReadRoot, Goto, machine, reviews
<1>20. CASE UNCHANGED vars
  BY <1>20 DEF vars
<1> QED
  BY <1>1, <1>2, <1>3, <1>4, <1>6, <1>7, <1>8, <1>9, <1>10, <1>11, <1>12, <1>14,
     <1>15, <1>16, <1>17, <1>18, <1>19, <1>20, <1>21 DEF Next, Step

\* Every variable keeps its type in every behaviour.
THEOREM TypeCorrect == Spec => []TypeOK
<1>1. Init => TypeInv
  BY InitTypes
<1>2. TypeInv /\ [Next]_vars => TypeInv'
  BY StepTypes
<1>3. TypeInv => TypeOK
  BY DEF TypeInv
<1> QED BY <1>1, <1>2, <1>3, PTL DEF Spec
-----------------------------------------------------------------------------
(* No silent acceptance. *)

\* The index of an inventory finds each of its artifacts: no ID hides another.
WellIndexed(i) ==
    /\ DOMAIN i.index = {a.id : a \in i.arts}
    /\ \A a \in i.arts : i.index[a.id] = a

\* The artifacts taken so far are of directories the walk has passed, one each.
Taken(r) ==
    /\ \A a \in inv[r].arts : a.place < at[r] /\ a.id = Id[a.place]
    /\ \A a, b \in inv[r].arts : a.place = b.place => a = b

Known(i) == Pairs(i.arts) \subseteq Reviewed
Reported(r) == pc[r] \in {"save", "output", "prompt"}

\* The report of run r names whatever of its inventory was not reviewed before.
Announced(r) == Pairs(inv[r].arts) \subseteq Reviewed \cup Named(base[r], inv[r])

\* The inductive invariant.  A run's inventory is well indexed once the walk is
\* over, because IDs are distinct; then whatever Diff does not name has the ID
\* and digest of something in the baseline, which was reviewed before.
BaselineInv == Recorded => WellIndexed(baseline) /\ Known(baseline)
RunInv(r) ==
    /\ pc[r] \in {"root", "hash", "scan"} => Taken(r)
    /\ pc[r] = "scan" => held[r].place = at[r] /\ held[r].id = Id[at[r]]
    /\ pc[r] \in {"load", "record"} \/ Reported(r) => WellIndexed(inv[r])
    /\ pc[r] = "prompt" => Known(inv[r])
    /\ pc[r] = "save" \/ verdict[r] = "drift" => Reported(r) /\ Announced(r)
    /\ verdict[r] = "match" => Reported(r) /\ Pairs(inv[r].arts) = Pairs(base[r].arts)
AcceptInv == BaselineInv /\ \A r \in Runs : RunInv(r)

SafeInv == TypeInv /\ AcceptInv

\* Once the walk is over every artifact is the only one with its ID.
LEMMA IndexIsUnique ==
    ASSUME DistinctIds, NEW i \in Inventory, NEW f \in Indexes(i.arts),
           \A a \in i.arts : a.id = Id[a.place],
           \A a, b \in i.arts : a.place = b.place => a = b
    PROVE  WellIndexed([i EXCEPT !.index = f])
<1>1. i.arts \subseteq Artifact
  BY DEF Inventory
<1>2. DOMAIN f = {a.id : a \in i.arts} /\ \A a \in i.arts : f[a.id] \in i.arts /\ f[a.id].id = a.id
  BY DEF Indexes
<1>3. ASSUME NEW a \in i.arts PROVE f[a.id] = a
  <2>1. Id[f[a.id].place] = Id[a.place]
    BY <1>2
  <2>2. f[a.id].place \in Places /\ a.place \in Places
    BY <1>1, <1>2 DEF Artifact
  <2>3. f[a.id].place = a.place
    BY <2>1, <2>2 DEF DistinctIds
  <2> QED BY <1>2, <2>3
<1>4. [i EXCEPT !.index = f].arts = i.arts /\ [i EXCEPT !.index = f].index = f
  BY DEF Inventory
<1> QED BY <1>2, <1>3, <1>4 DEF WellIndexed

\* Diff misses nothing: an artifact of the new inventory is named by the report,
\* or the baseline has one with its ID and digest.
LEMMA DiffIsComplete ==
    ASSUME NEW b \in Inventory, NEW c \in Inventory, WellIndexed(b), WellIndexed(c)
    PROVE  Pairs(c.arts) \subseteq Pairs(b.arts) \cup Named(b, c)
<1> SUFFICES ASSUME NEW a \in c.arts
             PROVE  <<a.id, a.digest>> \in Pairs(b.arts) \cup Named(b, c)
  BY DEF Pairs
<1>1. a.id \in DOMAIN c.index /\ c.index[a.id] = a
  BY DEF WellIndexed
<1>2. CASE a.id \in Added(b, c) \cup Modified(b, c)
  BY <1>1, <1>2 DEF Named, Pairs
<1>3. CASE a.id \notin Added(b, c) \cup Modified(b, c)
  <2>1. a.id \in DOMAIN b.index
    BY <1>1, <1>3 DEF Added
  <2>2. PICK d \in b.arts : d.id = a.id /\ b.index[a.id] = d
    BY <2>1 DEF WellIndexed
  <2>3. ~Describe(d, a)
    BY <1>1, <1>3, <2>1, <2>2 DEF Modified
  <2>4. d.digest = a.digest
    BY <2>3 DEF Describe
  <2> QED BY <2>2, <2>4 DEF Pairs
<1> QED BY <1>2, <1>3

\* An empty Diff means the same components with the same digests.
LEMMA EmptyDiff ==
    ASSUME NEW b \in Inventory, NEW c \in Inventory, WellIndexed(b), WellIndexed(c),
           Diff(b, c) = {}
    PROVE  Pairs(c.arts) = Pairs(b.arts)
<1>1. Pairs(c.arts) \subseteq Pairs(b.arts)
  <2>1. Named(b, c) = {}
    BY DEF Diff, Named, Pairs
  <2> QED BY <2>1, DiffIsComplete
<1>2. ASSUME NEW d \in b.arts PROVE <<d.id, d.digest>> \in Pairs(c.arts)
  <2>1. d.id \in DOMAIN b.index /\ b.index[d.id] = d
    BY DEF WellIndexed
  <2>2. d.id \in DOMAIN c.index
    BY <2>1 DEF Diff, Removed
  <2>3. PICK a \in c.arts : a.id = d.id /\ c.index[d.id] = a
    BY <2>2 DEF WellIndexed
  <2>4. ~Describe(d, a)
    BY <2>1, <2>2, <2>3 DEF Diff, Modified
  <2>5. d.digest = a.digest
    BY <2>4 DEF Describe
  <2> QED BY <2>3, <2>5 DEF Pairs
<1> QED BY <1>1, <1>2 DEF Pairs

\* What has been reviewed stays reviewed, whatever becomes of a report.
LEMMA ReviewsGrow ==
    ASSUME TypeOK, NEW r \in Runs,
           \/ UNCHANGED reviews
           \/ Told(r)
           \/ Untold(r)
           \/ /\ \E named : owed' = [owed EXCEPT ![r] = owed[r] \cup named]
              /\ UNCHANGED <<shown, unseen>>
    PROVE  Reviewed \subseteq Reviewed'
BY DEF TypeOK, reviews, Told, Untold, Reviewed

\* A report that is written, or promised at a save, reviews what it names.
LEMMA ReportReviews ==
    ASSUME TypeOK, NEW r \in Runs
    PROVE  /\ Told(r) /\ verdict[r] = "drift" => Named(base[r], inv[r]) \subseteq Reviewed'
           /\ \A named : Accept(r, named) => named \subseteq Reviewed'
BY DEF TypeOK, Told, Accept, Reviewed

\* The other runs are where they were.
OthersUnchanged(r) == \A q \in Runs \ {r} :
    /\ pc'[q] = pc[q] /\ inv'[q] = inv[q] /\ at'[q] = at[q]
    /\ held'[q] = held[q] /\ verdict'[q] = verdict[q] /\ base'[q] = base[q]

\* A step of one run keeps the invariants of the others as long as it forgets
\* nothing that was reviewed.
LEMMA OneRunSteps ==
    ASSUME AcceptInv, NEW r \in Runs, OthersUnchanged(r),
           Reviewed \subseteq Reviewed', BaselineInv', RunInv(r)'
    PROVE  AcceptInv'
<1> SUFFICES ASSUME NEW q \in Runs PROVE RunInv(q)'
  BY DEF AcceptInv
<1>1. CASE q = r
  BY <1>1
<1>2. CASE q # r
  <2>1. RunInv(q)
    BY DEF AcceptInv
  <2> QED
    BY <1>2, <2>1 DEF OthersUnchanged, RunInv, Taken, Known, Announced, Reported, WellIndexed,
                      Pairs, Named, Added, Modified
<1> QED BY <1>1, <1>2

\* The baseline as it was is still known when more has been reviewed.
LEMMA KeepBaseline ==
    ASSUME AcceptInv, Reviewed \subseteq Reviewed', baseline' = baseline
    PROVE  BaselineInv'
BY DEF AcceptInv, BaselineInv, Recorded, Known, WellIndexed, Pairs

\* A run that ends keeps the invariant, whether or not it has saved.
LEMMA ExitAccept ==
    ASSUME AcceptInv, TypeOK, NEW r \in Runs, Exit(r), Reviewed \subseteq Reviewed',
           baseline' = baseline \/ (baseline' = inv[r] /\ pc[r] = "prompt")
    PROVE  AcceptInv'
<1>2. BaselineInv'
  <2>1. CASE baseline' = baseline
    BY <2>1, KeepBaseline
  <2>2. CASE baseline' = inv[r] /\ pc[r] = "prompt"
    <3>1. WellIndexed(inv[r]) /\ Known(inv[r])
      BY <2>2 DEF AcceptInv, RunInv, Reported
    <3> QED BY <2>2, <3>1 DEF BaselineInv, WellIndexed, Known, Pairs
  <2> QED BY <2>1, <2>2
<1>3. pc'[r] = "idle" /\ verdict'[r] = None
  BY DEF Exit, Goto, TypeOK
<1>4. RunInv(r)'
  BY <1>3, NamesAssumption DEF RunInv, Reported
<1>5. OthersUnchanged(r)
  BY DEF Exit, Goto, TypeOK, OthersUnchanged
<1> QED BY <1>2, <1>4, <1>5, OneRunSteps

\* At first nothing is accepted.
THEOREM InitAccept == Init => AcceptInv
BY NamesAssumption DEF Init, AcceptInv, BaselineInv, RunInv, Recorded, Reported

\* A walk that has not reached a verdict keeps the invariant as long as what it
\* takes is of the directories it has passed.
LEMMA WalkAccept ==
    ASSUME TypeInv, AcceptInv, NEW r \in Runs, OthersUnchanged(r),
           UNCHANGED <<baseline, verdict, reviews>>,
           pc[r] \in {"root", "hash", "scan"}, pc'[r] \in {"root", "hash"},
           inv'[r].arts = inv[r].arts, at'[r] \in Nat, at[r] =< at'[r]
    PROVE  AcceptInv'
<1>1. RunInv(r) /\ inv[r] \in Inventory /\ at[r] \in Nat
  BY DEF AcceptInv, TypeInv, TypeOK, LiveOK
<1>2. \A b \in inv[r].arts : b.place \in Nat
  BY <1>1 DEF Inventory, Artifact, Places
<1>3. Taken(r)'
  BY <1>1, <1>2 DEF RunInv, Taken
<1>4. RunInv(r)'
  BY <1>1, <1>3 DEF RunInv, Reported
<1>5. Reviewed \subseteq Reviewed'
  BY ReviewsGrow DEF TypeInv
<1> QED BY <1>4, <1>5, KeepBaseline, OneRunSteps

\* Every step keeps the invariant behind NoSilentAcceptance and MatchIsTrue.
THEOREM StepAccept ==
    ASSUME DistinctIds, TypeInv, AcceptInv, [Next]_vars
    PROVE  AcceptInv'
<1> USE DEF TypeInv, TypeOK, LiveOK
<1>0. \A r \in Runs : RunInv(r)
  BY DEF AcceptInv
<1>00. UNCHANGED reviews => Reviewed \subseteq Reviewed'
  BY DEF reviews, Reviewed
<1>1. ASSUME NEW r \in Runs, Start(r) PROVE AcceptInv'
  <2>1. OthersUnchanged(r) /\ UNCHANGED reviews /\ baseline' = baseline
    BY <1>1 DEF Start, Goto, OthersUnchanged
  <2>2. pc'[r] = "root" /\ inv'[r].arts = {} /\ verdict'[r] = verdict[r]
    BY <1>1 DEF Start, Goto, EmptyInventory
  <2>3. verdict[r] \notin {"drift", "match"}
    BY <1>0, <1>1 DEF Start, RunInv, Reported
  <2>4. RunInv(r)'
    BY <2>2, <2>3 DEF RunInv, Taken, Reported
  <2> QED BY <1>00, <2>1, <2>4, KeepBaseline, OneRunSteps
<1>2. ASSUME NEW r \in Runs, ReadRoot(r) PROVE AcceptInv'
  BY <1>2, WalkAccept DEF ReadRoot, Goto, OthersUnchanged, reviews
<1>21. ASSUME NEW r \in Runs, Skip(r) PROVE AcceptInv'
  <2>1. Advance(r) /\ at[r] \in Places /\ pc[r] = "hash"
    BY <1>21 DEF Skip
  <2>2. at'[r] = at[r] + 1 /\ pc'[r] \in {"root", "hash"} /\ OthersUnchanged(r)
    BY <1>21, <2>1, AdvanceType DEF Skip, OthersUnchanged
  <2>3. UNCHANGED <<baseline, verdict, reviews>> /\ inv'[r].arts = inv[r].arts
    BY <1>21 DEF Skip
  <2>4. at'[r] \in Nat /\ at[r] =< at'[r]
    BY <2>1, <2>2 DEF Places
  <2> QED BY <2>1, <2>2, <2>3, <2>4, WalkAccept
<1>3. ASSUME NEW r \in Runs, pc[r] = "hash", at[r] \in Places, OthersUnchanged(r),
             NEW w \in BOOLEAN,
             held' = [held EXCEPT ![r] = Hashed(at[r], content[at[r]], w)],
             Goto(r, "scan"), inv'[r].arts = inv[r].arts,
             UNCHANGED <<at, baseline, verdict, reviews>>
      PROVE  AcceptInv'
  <2>1. RunInv(r)'
    BY <1>0, <1>3 DEF Goto, Hashed, RunInv, Taken, Reported
  <2> QED BY <1>00, <1>3, <2>1, KeepBaseline, OneRunSteps
<1>4. ASSUME NEW r \in Runs, HashTree(r) \/ HashTreeInPart(r) PROVE AcceptInv'
  <2>1. /\ pc[r] = "hash" /\ at[r] \in Places /\ inv[r] \in Inventory
        /\ UNCHANGED <<baseline, verdict, base, reviews>>
        /\ \A q \in Runs \ {r} : inv'[q] = inv[q]
        /\ inv'[r].arts = inv[r].arts
    BY <1>4 DEF HashTree, HashTreeInPart, Hashing, Inventory
  <2>2. CASE Advance(r) /\ UNCHANGED held
    <3>1. at'[r] = at[r] + 1 /\ pc'[r] \in {"root", "hash"} /\ OthersUnchanged(r)
      BY <2>1, <2>2, AdvanceType DEF OthersUnchanged
    <3>2. at'[r] \in Nat /\ at[r] =< at'[r]
      BY <2>1, <3>1 DEF Places
    <3> QED BY <2>1, <3>1, <3>2, WalkAccept
  <2>3. ASSUME NEW w \in BOOLEAN,
               held' = [held EXCEPT ![r] = Hashed(at[r], content[at[r]], w)],
               Goto(r, "scan"), UNCHANGED at
        PROVE  AcceptInv'
    <3>1. OthersUnchanged(r)
      BY <2>1, <2>3 DEF Goto, OthersUnchanged
    <3> QED BY <1>3, <2>1, <2>3, <3>1
  <2> QED BY <1>4, <2>2, <2>3 DEF HashTree, HashTreeInPart
<1>5. ASSUME NEW r \in Runs, NEW s, NEW c, pc[r] = "scan", AddArtifact(r, s, c),
             UNCHANGED <<baseline, base, verdict, reviews>>
      PROVE  AcceptInv'
  <2> DEFINE a == [held[r] EXCEPT !.inds = s]
  <2>2. inv[r] \in Inventory /\ held[r] \in Artifact /\ at[r] \in Places /\ Advance(r)
    BY <1>5 DEF AddArtifact
  <2>1. OthersUnchanged(r) /\ at'[r] = at[r] + 1 /\ pc'[r] \in {"root", "hash"}
    BY <1>5, <2>2, AdvanceType DEF AddArtifact, OthersUnchanged
  <2>3. verdict'[r] = verdict[r] /\ inv'[r].arts = inv[r].arts \cup {a}
    BY <1>5, <2>2 DEF AddArtifact, Inventory
  <2>4. a.place = at[r] /\ a.id = Id[a.place]
    BY <1>0, <1>5, <2>2 DEF RunInv, Artifact
  <2>5. Taken(r)
    BY <1>0, <1>5 DEF RunInv
  <2>6. \A b \in inv[r].arts : b.place \in Nat /\ at[r] \in Nat
    BY <2>2 DEF Inventory, Artifact, Places
  <2>7. Taken(r)'
    <3> HIDE DEF a
    <3>1. \A b \in inv'[r].arts : b.place < at'[r] /\ b.id = Id[b.place]
      BY <2>1, <2>2, <2>3, <2>4, <2>5, <2>6 DEF Taken, Places
    <3>2. \A b, d \in inv'[r].arts : b.place = d.place => b = d
      BY <2>3, <2>4, <2>5, <2>6 DEF Taken
    <3> QED BY <3>1, <3>2 DEF Taken
  <2>8. RunInv(r)'
    BY <1>0, <1>5, <2>1, <2>3, <2>7 DEF RunInv, Reported
  <2> QED BY <1>00, <1>5, <2>1, <2>8, KeepBaseline, OneRunSteps
<1>6. ASSUME NEW r \in Runs, ScanTree(r) PROVE AcceptInv'
  BY <1>6, <1>5 DEF ScanTree
<1>7. ASSUME NEW r \in Runs, ScanTreeInPart(r) PROVE AcceptInv'
  BY <1>7, <1>5 DEF ScanTreeInPart
<1>8. ASSUME NEW r \in Runs, EndTake(r) PROVE AcceptInv'
  <2>1. OthersUnchanged(r) /\ UNCHANGED reviews /\ baseline' = baseline
    BY <1>8 DEF EndTake, Goto, OthersUnchanged
  <2>2. PICK f \in Indexes(inv[r].arts) : inv' = [inv EXCEPT ![r].index = f]
    BY <1>8 DEF EndTake
  <2>3. pc[r] = "root" /\ inv[r] \in Inventory /\ Taken(r)
    BY <1>0, <1>8 DEF EndTake, RunInv
  <2>4. WellIndexed(inv'[r])
    BY <2>2, <2>3, IndexIsUnique DEF Taken
  <2>5. pc'[r] = "load" /\ verdict'[r] = verdict[r]
    BY <1>8 DEF EndTake, Goto
  <2>6. RunInv(r)'
    BY <1>0, <2>3, <2>4, <2>5 DEF RunInv, Reported, WellIndexed
  <2> QED BY <1>00, <2>1, <2>6, KeepBaseline, OneRunSteps
<1>9. ASSUME NEW r \in Runs, LoadNone(r) \/ LoadFails(r) PROVE AcceptInv'
  <2>1. OthersUnchanged(r) /\ UNCHANGED reviews /\ baseline' = baseline
    BY <1>9 DEF LoadNone, LoadFails, Goto, OthersUnchanged
  <2>2. RunInv(r)'
    BY <1>0, <1>9 DEF LoadNone, LoadFails, Goto, RunInv, Reported, WellIndexed
  <2> QED BY <1>00, <2>1, <2>2, KeepBaseline, OneRunSteps
<1>11. ASSUME NEW r \in Runs, Compare(r) PROVE AcceptInv'
  <2>1. OthersUnchanged(r) /\ baseline' = baseline /\ UNCHANGED reviews
    BY <1>11 DEF Compare, Goto, OthersUnchanged
  <2>3. /\ baseline \in Inventory /\ inv[r] \in Inventory
        /\ WellIndexed(baseline) /\ WellIndexed(inv[r]) /\ Known(baseline)
    BY <1>0, <1>11 DEF Compare, Recorded, AcceptInv, BaselineInv, RunInv
  <2>4. Pairs(inv[r].arts) \subseteq Reviewed \cup Named(baseline, inv[r])
    BY <2>3, DiffIsComplete DEF Known
  <2>5. verdict'[r] = "match" => Pairs(inv[r].arts) = Pairs(baseline.arts)
    BY <1>11, <2>3, EmptyDiff DEF Compare
  <2>6. /\ pc'[r] \in {"save", "output"} /\ inv' = inv /\ base'[r] = baseline
    BY <1>11 DEF Compare, Goto
  <2>7. RunInv(r)'
    <3>1. Announced(r)'
      BY <1>00, <2>1, <2>4, <2>6 DEF Announced, Pairs, Named, Added, Modified
    <3>2. WellIndexed(inv[r])' /\ Reported(r)'
      BY <2>3, <2>6 DEF WellIndexed, Reported
    <3>3. verdict'[r] = "match" => Pairs(inv'[r].arts) = Pairs(base'[r].arts)
      BY <2>5, <2>6
    <3> QED BY <2>6, <3>1, <3>2, <3>3 DEF RunInv, Pairs
  <2> QED BY <1>00, <2>1, <2>7, KeepBaseline, OneRunSteps
<1>12. ASSUME NEW r \in Runs, RecordFirst(r) \/ SaveAccepted(r) PROVE AcceptInv'
  <2>1. /\ OthersUnchanged(r) /\ inv' = inv /\ base' = base /\ pc'[r] = "output"
        /\ pc[r] \in {"record", "save"} /\ UNCHANGED <<shown, unseen>>
        /\ verdict'[r] \in {verdict[r], "first"}
    BY <1>12 DEF RecordFirst, SaveAccepted, Goto, OthersUnchanged
  <2>2. WellIndexed(inv[r]) /\ RunInv(r)
    BY <1>0, <2>1 DEF RunInv, Reported
  <2>3. Reviewed \subseteq Reviewed'
    BY <1>12, ReviewsGrow DEF RecordFirst, SaveAccepted, Accept, reviews
  <2>4. RunInv(r)'
    BY <2>1, <2>2, <2>3, <1>12 DEF RunInv, Reported, WellIndexed, Announced, Pairs, Named,
                                   Added, Modified, RecordFirst, SaveAccepted
  <2>5. ASSUME baseline' = inv[r], Pairs(inv[r].arts) \subseteq Reviewed' PROVE BaselineInv'
    BY <2>2, <2>5 DEF BaselineInv, Known, WellIndexed, Pairs
  <2>6. ASSUME RecordFirst(r) PROVE BaselineInv'
    <3>1. CASE Accept(r, Pairs(inv[r].arts))
      <4>1. baseline' = inv[r] /\ Pairs(inv[r].arts) \subseteq Reviewed'
        BY <3>1, ReportReviews DEF Accept
      <4> QED BY <2>5, <4>1
    <3>2. CASE UNCHANGED baseline
      BY <2>3, <3>2, KeepBaseline
    <3> QED BY <2>6, <3>1, <3>2 DEF RecordFirst
  <2>7. ASSUME SaveAccepted(r) PROVE BaselineInv'
    <3>1. CASE Accept(r, Named(base[r], inv[r]))
      <4>1. Pairs(inv[r].arts) \subseteq Reviewed \cup Named(base[r], inv[r])
        BY <2>2, <2>7 DEF SaveAccepted, RunInv, Announced
      <4>2. baseline' = inv[r] /\ Named(base[r], inv[r]) \subseteq Reviewed'
        BY <3>1, ReportReviews DEF Accept
      <4> QED BY <2>3, <2>5, <4>1, <4>2
    <3>2. CASE UNCHANGED baseline
      BY <2>3, <3>2, KeepBaseline
    <3> QED BY <2>7, <3>1, <3>2 DEF SaveAccepted
  <2>8. BaselineInv'
    BY <1>12, <2>6, <2>7
  <2> QED BY <2>1, <2>3, <2>4, <2>8, OneRunSteps
<1>14. ASSUME NEW r \in Runs, Output(r) PROVE AcceptInv'
  <2>1. Reviewed \subseteq Reviewed' /\ baseline' = baseline /\ pc[r] = "output"
    BY <1>14, ReviewsGrow DEF Output
  <2>2. CASE Exit(r)
    BY <2>1, <2>2, ExitAccept
  <2>3. CASE ~Exit(r)
    <3>1. /\ verdict[r] = "drift" /\ Goto(r, "prompt") /\ Told(r)
          /\ UNCHANGED <<inv, base, verdict, at, held>>
      BY <1>14, <2>3 DEF Output
    <3>2. OthersUnchanged(r) /\ pc'[r] = "prompt"
      BY <3>1 DEF Goto, OthersUnchanged
    <3>3. Announced(r) /\ WellIndexed(inv[r])
      BY <1>0, <2>1, <3>1 DEF RunInv, Reported
    <3>4. Known(inv[r])' /\ Announced(r)'
      BY <2>1, <3>1, <3>3, ReportReviews DEF Announced, Known, Pairs, Named, Added, Modified
    <3>5. WellIndexed(inv[r])'
      BY <3>1, <3>3 DEF WellIndexed
    <3>6. RunInv(r)'
      BY <3>1, <3>2, <3>4, <3>5 DEF RunInv, Reported
    <3> QED BY <2>1, <3>2, <3>6, KeepBaseline, OneRunSteps
  <2> QED BY <2>2, <2>3
<1>15. ASSUME NEW r \in Runs, Answer(r) PROVE AcceptInv'
  BY <1>00, <1>15, ExitAccept DEF Answer
<1>16. ASSUME NEW r \in Runs, Crash(r) PROVE AcceptInv'
  BY <1>16, ExitAccept, ReviewsGrow DEF Crash
<1>17. CASE UNCHANGED <<baseline, pc, at, held, inv, base, verdict, reviews>>
  BY <1>17 DEF AcceptInv, BaselineInv, RunInv, Recorded, Known, WellIndexed, Pairs, Reported, Taken,
               Announced, Named, Added, Modified, Reviewed, reviews
<1>18. CASE Damage
  <2>1. BaselineInv'
    BY <1>18 DEF Damage, BaselineInv, Recorded
  <2>2. \A r \in Runs : RunInv(r)'
    BY <1>0, <1>18 DEF Damage, RunInv, Known, WellIndexed, Pairs, Reported, Taken,
                       Announced, Named, Added, Modified, Reviewed, reviews
  <2> QED BY <2>1, <2>2 DEF AcceptInv
<1> QED
  BY <1>1, <1>2, <1>21, <1>4, <1>6, <1>7, <1>8, <1>9, <1>11, <1>12, <1>14,
     <1>15, <1>16, <1>17, <1>18 DEF Next, Step, Edit, InstallRules, vars, reviews

\* Nothing is accepted that no report named, with any number of runs at once,
\* crashes, failed saves and edits in the middle of scans, provided no two
\* components share an ID.
THEOREM AcceptedWasShown ==
    ASSUME DistinctIds
    PROVE  Spec => []NoSilentAcceptance
<1>1. Init => SafeInv
  BY InitTypes, InitAccept DEF SafeInv
<1>2. SafeInv /\ [Next]_vars => SafeInv'
  BY StepTypes, StepAccept DEF SafeInv
<1>3. SafeInv => NoSilentAcceptance
  BY DEF SafeInv, AcceptInv, BaselineInv, Known, NoSilentAcceptance
<1> QED BY <1>1, <1>2, <1>3, PTL DEF Spec

\* "All installed components match the accepted baseline" is true when printed,
\* under the same assumption.
THEOREM MatchTold ==
    ASSUME DistinctIds
    PROVE  Spec => []MatchIsTrue
<1>1. Init => SafeInv
  BY InitTypes, InitAccept DEF SafeInv
<1>2. SafeInv /\ [Next]_vars => SafeInv'
  BY StepTypes, StepAccept DEF SafeInv
<1>3. SafeInv => MatchIsTrue
  BY DEF SafeInv, AcceptInv, RunInv, MatchIsTrue
<1> QED BY <1>1, <1>2, <1>3, PTL DEF Spec
-----------------------------------------------------------------------------
(* What a scan says of directories that stood still. *)

\* a tells of the content v no more than there is, and all of it unless the
\* walk was cut short.
TellsOf(a, v, i) ==
    /\ v \in Versions
    /\ a.digest[1] = Digest[v] /\ a.inds \subseteq Seen(v, i.rules)
    /\ ~i.cut => IsRecordOf(a, v, i.rules)

\* The directories of which a scan may know nothing: edited while it was alive,
\* or refused to it.
Unsure(r) == touched[r] \cup missed[r]

\* Inside a root, the listing has each of its directories that is there.
ListInv(r) == \A p \in Siblings(at[r]) \ Unsure(r) : content[p] # Absent => p \in listed[r]

\* Between the two reads of a directory nobody touches.
HeldInv(r) ==
    /\ held[r].place = at[r] /\ held[r].id = Id[at[r]]
    /\ at[r] \notin Unsure(r) =>
           /\ content[at[r]] \in Versions
           /\ held[r].origin = Origin[content[at[r]]]
           /\ held[r].digest[1] = Digest[content[at[r]]]
           /\ ~inv[r].cut => held[r].digest[2]

\* A directory the walk has passed, that is there and nobody touched or refused,
\* is in an inventory that was not cut short.
Listed(r, p) == \E a \in inv[r].arts : a.place = p /\ a.id = Id[p]

Passed(r)   == \A a \in inv[r].arts : a.place < at[r]
Truthful(r) == \A a \in inv[r].arts :
    a.place \notin Unsure(r) => TellsOf(a, content[a.place], inv[r])
Complete(r) == ~inv[r].cut => \A p \in Places \ Unsure(r) :
    p < at[r] /\ content[p] # Absent => Listed(r, p)

WalkInv(r) ==
    /\ pc[r] = "idle" => at[r] = 1 /\ verdict[r] = None /\ Unsure(r) = {}
    /\ verdict[r] = "drift" => Reported(r)
    /\ pc[r] \in {"load", "record"} \/ Reported(r) =>
           at[r] = NPlaces + 1 /\ inv[r].index \in Indexes(inv[r].arts)
    /\ pc[r] \in {"hash", "scan"} => ListInv(r)
    /\ pc[r] = "scan" => HeldInv(r)
    /\ pc[r] # "idle" => Passed(r) /\ Truthful(r) /\ Complete(r)

\* The inductive invariant: it follows every untouched directory through the
\* walk, whatever the other runs do.
StillInv == \A r \in Runs : WalkInv(r)

\* What the artifacts say stays true as long as nothing they tell of changes;
\* a walk that is cut short later says less.
LEMMA KeepTruthful ==
    ASSUME NEW r \in Runs, Truthful(r), content' = content, Unsure(r) \subseteq Unsure(r)',
           inv'[r].arts = inv[r].arts, inv'[r].rules = inv[r].rules, inv[r].cut => inv'[r].cut
    PROVE  Truthful(r)'
<1> SUFFICES ASSUME NEW a \in inv[r].arts, a.place \notin Unsure(r)
             PROVE  TellsOf(a, content[a.place], inv'[r])
  BY DEF Truthful, TellsOf
<1>1. TellsOf(a, content[a.place], inv[r])
  BY DEF Truthful
<1> QED BY <1>1 DEF TellsOf

\* No directory drops out of the inventory.
LEMMA KeepComplete ==
    ASSUME NEW r \in Runs, Complete(r), content' = content, Unsure(r) \subseteq Unsure(r)',
           inv'[r].arts = inv[r].arts, at'[r] = at[r], inv[r].cut => inv'[r].cut
    PROVE  Complete(r)'
BY DEF Complete, Listed

\* A listing stays good inside its root.
LEMMA KeepList ==
    ASSUME NEW r \in Runs, ListInv(r), content' = content, Unsure(r) \subseteq Unsure(r)',
           listed'[r] = listed[r], at'[r] = at[r] \/ at'[r] \in Siblings(at[r])
    PROVE  ListInv(r)'
BY DEF ListInv, Siblings

\* A step that leaves a run's inventory and walk where they are keeps what is
\* known of it.
LEMMA KeepWalk ==
    ASSUME NEW r \in Runs, WalkInv(r), content' = content,
           touched'[r] = touched[r], missed'[r] = missed[r], listed'[r] = listed[r],
           pc'[r] = pc[r], inv'[r] = inv[r], at'[r] = at[r], held'[r] = held[r],
           verdict'[r] = verdict[r]
    PROVE  WalkInv(r)'
<1>0. Unsure(r)' = Unsure(r)
  BY DEF Unsure
<1>1. pc[r] # "idle" => (Passed(r) /\ Truthful(r) /\ Complete(r))'
  BY <1>0, KeepTruthful, KeepComplete DEF WalkInv, Passed
<1>2. pc[r] = "scan" => HeldInv(r)'
  BY <1>0 DEF WalkInv, HeldInv
<1>3. pc[r] \in {"hash", "scan"} => ListInv(r)'
  BY <1>0, KeepList DEF WalkInv
<1> QED BY <1>0, <1>1, <1>2, <1>3 DEF WalkInv, Reported

\* A step of one run leaves what is known of the others' walks alone.
OthersWalkOn(r) ==
    /\ OthersUnchanged(r) /\ content' = content
    /\ \A q \in Runs \ {r} :
           touched'[q] = touched[q] /\ missed'[q] = missed[q] /\ listed'[q] = listed[q]

LEMMA OthersWalk ==
    ASSUME StillInv, NEW r \in Runs, OthersWalkOn(r), WalkInv(r)'
    PROVE  StillInv'
<1> SUFFICES ASSUME NEW q \in Runs, q # r PROVE WalkInv(q)'
  BY DEF StillInv
<1>1. WalkInv(q)
  BY DEF StillInv
<1> QED BY <1>1, KeepWalk DEF OthersUnchanged, OthersWalkOn

\* Once the walk is over the steps of the run keep its inventory as it is.
LEMMA SameWalk ==
    ASSUME NEW r \in Runs, WalkInv(r), content' = content,
           inv'[r] = inv[r], at'[r] = at[r], touched'[r] = touched[r], missed'[r] = missed[r],
           pc[r] \in {"load", "record"} \/ Reported(r), pc'[r] \in {"record", "save", "output", "prompt"},
           verdict'[r] = "drift" => pc'[r] \in {"save", "output", "prompt"}
    PROVE  WalkInv(r)'
<1>1. (Passed(r) /\ Truthful(r) /\ Complete(r))'
  BY KeepTruthful, KeepComplete DEF WalkInv, Passed, Reported, Unsure
<1> QED BY <1>1 DEF WalkInv, Reported

\* The walk moves on past a directory that is listed, or not there, or unsure.
LEMMA MoveOn ==
    ASSUME TypeInv, NEW r \in Runs, WalkInv(r), content' = content,
           pc[r] \in {"hash", "scan"}, Advance(r), Unsure(r) \subseteq Unsure(r)',
           listed'[r] = listed[r], verdict'[r] = verdict[r],
           \A a \in inv'[r].arts : a \in inv[r].arts \/ a.place = at[r],
           Truthful(r)', inv[r].arts \subseteq inv'[r].arts, inv[r].cut => inv'[r].cut,
           \/ inv'[r].cut
           \/ content[at[r]] = Absent
           \/ at[r] \in Unsure(r)'
           \/ \E a \in inv'[r].arts : a.place = at[r] /\ a.id = Id[at[r]]
    PROVE  WalkInv(r)'
<1>1. /\ at[r] \in Places /\ at'[r] = at[r] + 1 /\ pc'[r] \in {"root", "hash"}
      /\ pc'[r] = "hash" => at'[r] \in Siblings(at[r])
      /\ inv[r] \in Inventory
  BY AdvanceType DEF TypeInv, LiveOK
<1>2. Passed(r)'
  <2>1. \A a \in inv[r].arts : a.place < at[r] + 1
    BY <1>1 DEF WalkInv, Passed, Inventory, Artifact, Places
  <2>2. at[r] < at[r] + 1
    BY <1>1 DEF Places
  <2> QED BY <1>1, <2>1, <2>2 DEF Passed
<1>3. Complete(r)'
  <2> SUFFICES ASSUME ~inv'[r].cut, NEW p \in Places \ Unsure(r)', p < at[r] + 1,
                      content[p] # Absent
               PROVE  Listed(r, p)'
    BY <1>1 DEF Complete
  <2>1. p < at[r] \/ p = at[r]
    BY <1>1 DEF Places
  <2>2. CASE p < at[r]
    BY <2>2 DEF WalkInv, Complete, Listed
  <2>3. CASE p = at[r]
    BY <2>3 DEF Listed
  <2> QED BY <2>1, <2>2, <2>3
<1>4. pc'[r] = "hash" => ListInv(r)'
  BY <1>1, KeepList DEF WalkInv
<1>5. verdict'[r] # "drift"
  BY DEF WalkInv, Reported
<1> QED BY <1>1, <1>2, <1>3, <1>4, <1>5 DEF WalkInv, Reported

\* A run that ends forgets its walk.
LEMMA ExitWalk ==
    ASSUME TypeInv, StillInv, NEW r \in Runs, Exit(r)
    PROVE  StillInv'
<1>1. pc'[r] = "idle" /\ at'[r] = 1 /\ verdict'[r] = None /\ Unsure(r)' = {}
  BY DEF Exit, Goto, TypeInv, TypeOK, Unsure
<1>2. WalkInv(r)'
  BY <1>1, NamesAssumption DEF WalkInv, Reported
<1>3. OthersWalkOn(r)
  BY DEF Exit, Goto, machine, OthersUnchanged, OthersWalkOn, TypeInv, TypeOK
<1> QED BY <1>2, <1>3, OthersWalk

\* The artifact of a directory nobody touched between the two reads is a true
\* record of it.
LEMMA AddedTells ==
    ASSUME TypeInv, NEW r \in Runs, HeldInv(r), pc[r] = "scan", NEW s, NEW i,
           at[r] \notin Unsure(r), i.rules = inv[r].rules, i.cut \in BOOLEAN,
           s \subseteq Seen(content[at[r]], i.rules),
           ~i.cut => ~inv[r].cut /\ s = Seen(content[at[r]], i.rules)
    PROVE  TellsOf([held[r] EXCEPT !.inds = s], content[at[r]], i)
<1> DEFINE a == [held[r] EXCEPT !.inds = s]
<1>1. held[r] \in Artifact
  BY DEF TypeInv, LiveOK
<1>2. a.digest = held[r].digest /\ a.origin = held[r].origin /\ a.inds = s
  BY <1>1 DEF Artifact
<1>3. held[r].digest = <<held[r].digest[1], held[r].digest[2]>> /\ held[r].digest[2] \in BOOLEAN
  BY <1>1 DEF Artifact, Digests
<1>4. ~i.cut => held[r].digest[2] = TRUE
  BY <1>3 DEF HeldInv
<1>5. /\ content[at[r]] \in Versions
      /\ held[r].origin = Origin[content[at[r]]]
      /\ held[r].digest[1] = Digest[content[at[r]]]
  BY DEF HeldInv
<1> SUFFICES TellsOf(a, content[at[r]], i)
  OBVIOUS
<1> HIDE DEF a
<1>6. ~i.cut => IsRecordOf(a, content[at[r]], i.rules)
  BY <1>2, <1>3, <1>4, <1>5 DEF IsRecordOf
<1> QED BY <1>2, <1>5, <1>6 DEF TellsOf

\* At first no run is alive.
THEOREM InitStill == Init => StillInv
BY NamesAssumption DEF Init, StillInv, WalkInv, Reported, Unsure

\* Every step keeps what is known of untouched directories: an edit, in the
\* middle of a scan or after it, touches the directory it changes.
THEOREM StepStill ==
    ASSUME TypeInv, StillInv, [Next]_vars
    PROVE  StillInv'
<1>0. \A r \in Runs : WalkInv(r)
  BY DEF StillInv
<1> USE DEF OthersWalkOn
<1>1. ASSUME NEW r \in Runs, Start(r) PROVE StillInv'
  <2>1. OthersWalkOn(r)
    BY <1>1 DEF Start, Goto, OthersUnchanged, machine, past, TypeInv, TypeOK
  <2>2. /\ pc'[r] = "root" /\ inv'[r].arts = {} /\ verdict'[r] = None /\ at'[r] = 1
    BY <1>0, <1>1 DEF Start, Goto, EmptyInventory, TypeInv, TypeOK, WalkInv
  <2>3. WalkInv(r)'
    BY <2>2, NamesAssumption DEF WalkInv, Passed, Truthful, Complete, Reported, Places
  <2> QED BY <2>1, <2>3, OthersWalk
<1>2. ASSUME NEW r \in Runs, ReadRoot(r) PROVE StillInv'
  <2>1. OthersWalkOn(r)
    BY <1>2 DEF ReadRoot, Miss, Goto, OthersUnchanged, machine, TypeInv, TypeOK
  <2>2. /\ pc[r] = "root" /\ pc'[r] = "hash" /\ inv' = inv /\ verdict' = verdict /\ at' = at
        /\ Unsure(r) \subseteq Unsure(r)' /\ content' = content
    BY <1>2 DEF ReadRoot, Miss, Goto, Unsure, machine, TypeInv, TypeOK
  <2>3. ListInv(r)'
    <3>1. CASE listed' = [listed EXCEPT ![r] = There(Siblings(at[r]))]
      BY <2>2, <3>1 DEF ListInv, There, Siblings, TypeInv, TypeOK
    <3>2. CASE Miss(r, There(Siblings(at[r])))
      BY <2>2, <3>2 DEF ListInv, Miss, Unsure, There, Siblings, TypeInv, TypeOK
    <3> QED BY <1>2, <3>1, <3>2 DEF ReadRoot
  <2>4. WalkInv(r)'
    BY <1>0, <2>2, <2>3, KeepTruthful, KeepComplete DEF WalkInv, Passed, Reported
  <2> QED BY <2>1, <2>4, OthersWalk
<1>21. ASSUME NEW r \in Runs, Skip(r) PROVE StillInv'
  <2>1. /\ pc[r] = "hash" /\ Advance(r) /\ UNCHANGED <<inv, verdict, content, listed>>
        /\ Unsure(r)' = Unsure(r) /\ at[r] \in Places /\ (at[r] \notin listed[r] \/ inv[r].cut)
    BY <1>21 DEF Skip, machine, past, Unsure, TypeInv, LiveOK
  <2>2. OthersWalkOn(r)
    <3>1. UNCHANGED <<held, base, touched, missed>>
      BY <1>21 DEF Skip, past
    <3> QED BY <2>1, <3>1, AdvanceType DEF OthersUnchanged
  <2>3. inv[r].cut \/ content[at[r]] = Absent \/ at[r] \in Unsure(r)'
    BY <1>0, <2>1 DEF WalkInv, ListInv, Siblings
  <2>4. Truthful(r)'
    BY <1>0, <2>1, KeepTruthful DEF WalkInv
  <2>5. WalkInv(r)'
    BY <1>0, <2>1, <2>3, <2>4, MoveOn
  <2> QED BY <2>2, <2>5, OthersWalk
<1>4. ASSUME NEW r \in Runs, HashTree(r) \/ HashTreeInPart(r) PROVE StillInv'
  <2>0. missed' = missed \/ Miss(r, {at[r]})
    BY <1>4 DEF HashTree, HashTreeInPart, past
  <2>1. /\ pc[r] = "hash" /\ at[r] \in Places /\ inv[r] \in Inventory
        /\ UNCHANGED <<verdict, base, content, touched, listed>>
        /\ \A q \in Runs \ {r} : inv'[q] = inv[q] /\ missed'[q] = missed[q]
        /\ inv'[r].arts = inv[r].arts /\ inv'[r].rules = inv[r].rules
        /\ inv[r].cut => inv'[r].cut
        /\ Unsure(r) \subseteq Unsure(r)'
    <3>1. /\ pc[r] = "hash" /\ at[r] \in Places /\ inv[r] \in Inventory
          /\ UNCHANGED <<verdict, base, content, touched, listed>>
          /\ inv' = inv \/ inv' = [inv EXCEPT ![r].cut = TRUE]
      BY <1>4 DEF HashTree, HashTreeInPart, Hashing, machine, past, TypeInv, LiveOK
    <3>2. /\ \A q \in Runs \ {r} : missed'[q] = missed[q]
          /\ missed[r] \subseteq missed'[r]
      BY <2>0 DEF Miss, TypeInv, TypeOK
    <3>3. /\ \A q \in Runs \ {r} : inv'[q] = inv[q]
          /\ inv'[r].arts = inv[r].arts /\ inv'[r].rules = inv[r].rules
          /\ inv[r].cut => inv'[r].cut
      BY <3>1 DEF Inventory, TypeInv, TypeOK
    <3> QED BY <3>1, <3>2, <3>3 DEF Unsure
  <2>2. Truthful(r)'
    BY <1>0, <2>1, KeepTruthful DEF WalkInv
  <2>3. ASSUME Advance(r), UNCHANGED held,
               inv'[r].cut \/ content[at[r]] = Absent \/ at[r] \in Unsure(r)'
        PROVE  StillInv'
    <3>1. OthersWalkOn(r)
      BY <2>1, <2>3, AdvanceType DEF OthersUnchanged
    <3>2. WalkInv(r)'
      BY <1>0, <2>1, <2>2, <2>3, MoveOn
    <3> QED BY <3>1, <3>2, OthersWalk
  <2>4. ASSUME NEW w \in BOOLEAN, content[at[r]] # Absent,
               held' = [held EXCEPT ![r] = Hashed(at[r], content[at[r]], w)],
               Goto(r, "scan"), UNCHANGED at,
               w \/ inv'[r].cut \/ at[r] \in Unsure(r)'
        PROVE  StillInv'
    <3>1. /\ OthersWalkOn(r) /\ pc'[r] = "scan" /\ at' = at /\ content[at[r]] \in Versions
          /\ held'[r] = Hashed(at[r], content[at[r]], w)
      BY <2>1, <2>4 DEF Goto, OthersUnchanged, TypeInv, TypeOK
    <3>2. HeldInv(r)'
      BY <2>1, <2>4, <3>1 DEF HeldInv, Hashed
    <3>3. (Passed(r) /\ Complete(r) /\ ListInv(r))'
      BY <1>0, <2>1, <3>1, KeepComplete, KeepList DEF WalkInv, Passed
    <3>4. WalkInv(r)'
      BY <1>0, <2>1, <2>2, <3>1, <3>2, <3>3 DEF WalkInv, Reported
    <3> QED BY <3>1, <3>4, OthersWalk
  <2>5. CASE HashTree(r)
    BY <2>3, <2>4, <2>5 DEF HashTree
  <2>6. CASE HashTreeInPart(r)
    <3>1. inv'[r].cut \/ at[r] \in Unsure(r)'
      BY <2>1, <2>6 DEF HashTreeInPart, Miss, Unsure, Inventory, TypeInv, TypeOK
    <3> QED BY <2>3, <2>4, <2>6, <3>1 DEF HashTreeInPart
  <2> QED BY <1>4, <2>5, <2>6
<1>5. ASSUME NEW r \in Runs, NEW s, NEW c \in BOOLEAN, pc[r] = "scan", AddArtifact(r, s, c),
             UNCHANGED <<content, touched, verdict, base, listed>>,
             Unsure(r) \subseteq Unsure(r)',
             \A q \in Runs \ {r} : missed'[q] = missed[q],
             at[r] \notin Unsure(r)' =>
                 /\ s \subseteq Seen(content[at[r]], inv[r].rules)
                 /\ ~c => ~inv[r].cut /\ s = Seen(content[at[r]], inv[r].rules),
             inv[r].cut => c
      PROVE  StillInv'
  <2> DEFINE a == [held[r] EXCEPT !.inds = s]
  <2>2. /\ inv[r] \in Inventory /\ held[r] \in Artifact /\ at[r] \in Places /\ HeldInv(r)
        /\ Advance(r)
    BY <1>0, <1>5 DEF TypeInv, LiveOK, WalkInv, AddArtifact
  <2>1. OthersWalkOn(r)
    <3>1. /\ \A q \in Runs \ {r} : inv'[q] = inv[q] /\ held'[q] = held[q]
      BY <1>5 DEF AddArtifact, TypeInv, TypeOK
    <3> QED BY <1>5, <2>2, <3>1, AdvanceType DEF OthersUnchanged
  <2>3. /\ inv'[r].arts = inv[r].arts \cup {a}
        /\ inv'[r].rules = inv[r].rules /\ inv'[r].cut = c
    BY <1>5, <2>2 DEF AddArtifact, Inventory, TypeInv, TypeOK
  <2>4. a.place = at[r] /\ a.id = Id[at[r]]
    BY <2>2 DEF HeldInv, Artifact
  <2>5. at[r] \notin Unsure(r)' => TellsOf(a, content[at[r]], inv'[r])
    BY <1>5, <2>2, <2>3, AddedTells
  <2> HIDE DEF a
  <2>8. Truthful(r)'
    <3>1. \A b \in inv[r].arts : b.place \notin Unsure(r) => TellsOf(b, content[b.place], inv[r])
      BY <1>0, <1>5 DEF WalkInv, Truthful
    <3>2. \A b \in inv[r].arts : b.place \notin Unsure(r) => TellsOf(b, content[b.place], inv'[r])
      BY <1>5, <2>3, <3>1 DEF TellsOf
    <3> QED BY <1>5, <2>1, <2>3, <2>4, <2>5, <3>2 DEF Truthful
  <2>10. WalkInv(r)'
    BY <1>0, <1>5, <2>1, <2>2, <2>3, <2>4, <2>8, MoveOn
  <2> QED BY <2>1, <2>10, OthersWalk
<1>6. ASSUME NEW r \in Runs, ScanTree(r) PROVE StillInv'
  <2> DEFINE s == IF inv[r].cut \/ content[at[r]] = Absent THEN {}
                  ELSE Seen(content[at[r]], inv[r].rules)
  <2>1. pc[r] = "scan" /\ inv[r] \in Inventory /\ HeldInv(r)
    BY <1>0, <1>6 DEF ScanTree, TypeInv, LiveOK, WalkInv
  <2>2. /\ AddArtifact(r, s, inv[r].cut)
        /\ UNCHANGED <<content, touched, missed, verdict, base, listed>>
    BY <1>6 DEF ScanTree, machine, past
  <2>3. inv[r].cut \in BOOLEAN /\ Unsure(r)' = Unsure(r)
    BY <2>1, <2>2 DEF Inventory, Unsure
  <2>4. at[r] \notin Unsure(r) => content[at[r]] # Absent
    BY <2>1, NamesAssumption DEF HeldInv
  <2>5. /\ at[r] \notin Unsure(r) => s \subseteq Seen(content[at[r]], inv[r].rules)
        /\ at[r] \notin Unsure(r) /\ ~inv[r].cut => s = Seen(content[at[r]], inv[r].rules)
    BY <2>4
  <2> HIDE DEF s
  <2> QED BY <1>5, <2>1, <2>2, <2>3, <2>5
<1>7. ASSUME NEW r \in Runs, ScanTreeInPart(r) PROVE StillInv'
  <2>1. pc[r] = "scan" /\ ~inv[r].cut /\ UNCHANGED <<content, touched, verdict, base, listed>>
    BY <1>7 DEF ScanTreeInPart, machine
  <2>2. ASSUME NEW s \in SUBSET Seen(content[at[r]], inv[r].rules), AddArtifact(r, s, TRUE),
               UNCHANGED missed
        PROVE  StillInv'
    <3>1. Unsure(r)' = Unsure(r)
      BY <2>1, <2>2 DEF Unsure
    <3> QED BY <1>5, <2>1, <2>2, <3>1
  <2>3. ASSUME NEW s, AddArtifact(r, s, FALSE), Miss(r, {at[r]})
        PROVE  StillInv'
    <3>1. at[r] \in Unsure(r)' /\ Unsure(r) \subseteq Unsure(r)'
      BY <2>1, <2>3 DEF Miss, Unsure, TypeInv, TypeOK
    <3>2. \A q \in Runs \ {r} : missed'[q] = missed[q]
      BY <2>3 DEF Miss, TypeInv, TypeOK
    <3> QED BY <1>5, <2>1, <2>3, <3>1, <3>2
  <2> QED BY <1>7, <2>2, <2>3 DEF ScanTreeInPart
<1>8. ASSUME NEW r \in Runs, EndTake(r) PROVE StillInv'
  <2>1. OthersWalkOn(r) /\ Unsure(r)' = Unsure(r)
    BY <1>8 DEF EndTake, Goto, OthersUnchanged, machine, past, Unsure, TypeInv, TypeOK
  <2>2. PICK f \in Indexes(inv[r].arts) : inv' = [inv EXCEPT ![r].index = f]
    BY <1>8 DEF EndTake
  <2>3. inv[r] \in Inventory /\ inv \in [Runs -> Inventory \cup {None}] /\ pc[r] = "root"
    BY <1>8 DEF EndTake, TypeInv, TypeOK, LiveOK
  <2>4. /\ inv'[r].arts = inv[r].arts /\ inv'[r].index = f
        /\ inv'[r].rules = inv[r].rules /\ inv'[r].cut = inv[r].cut
    BY <2>2, <2>3 DEF Inventory
  <2>5. at[r] = NPlaces + 1 /\ at' = at /\ pc'[r] = "load" /\ verdict' = verdict
    BY <1>8, BoundsAssumption DEF EndTake, Goto, Places, TypeInv, TypeOK
  <2>6. Passed(r)' /\ Truthful(r)' /\ Complete(r)'
    BY <1>0, <2>1, <2>3, <2>4, <2>5, KeepTruthful, KeepComplete DEF WalkInv, Passed
  <2>7. WalkInv(r)'
    BY <1>0, <2>3, <2>4, <2>5, <2>6 DEF WalkInv, Reported
  <2> QED BY <2>1, <2>7, OthersWalk
<1>9. ASSUME NEW r \in Runs,
             LoadNone(r) \/ LoadFails(r) \/ Compare(r) \/ RecordFirst(r) \/ SaveAccepted(r)
      PROVE  StillInv'
  <2>1. /\ OthersWalkOn(r) /\ inv' = inv /\ at' = at
        /\ UNCHANGED <<content, touched, missed>>
    BY <1>9 DEF LoadNone, LoadFails, Compare, RecordFirst, SaveAccepted, Goto, OthersUnchanged,
                machine, past, TypeInv, TypeOK
  <2>2. /\ pc[r] \in {"load", "record", "save"}
        /\ pc'[r] \in {"record", "save", "output"}
        /\ verdict'[r] = "drift" => pc'[r] \in {"save", "output"}
    BY <1>0, <1>9 DEF LoadNone, LoadFails, Compare, RecordFirst, SaveAccepted, Goto,
                WalkInv, Reported, TypeInv, TypeOK
  <2>3. WalkInv(r)'
    BY <1>0, <2>1, <2>2, SameWalk DEF Reported
  <2> QED BY <2>1, <2>3, OthersWalk
<1>10. ASSUME NEW r \in Runs, Output(r) \/ Answer(r) \/ Crash(r) PROVE StillInv'
  <2>1. CASE Exit(r)
    BY <2>1, ExitWalk
  <2>2. CASE ~Exit(r)
    <3>1. /\ pc[r] = "output" /\ pc' = [pc EXCEPT ![r] = "prompt"]
          /\ UNCHANGED <<content, touched, missed, listed, inv, at, held, base, verdict>>
      BY <1>10, <2>2 DEF Output, Answer, Crash, Goto, machine, past
    <3>2. OthersWalkOn(r) /\ pc'[r] = "prompt"
      BY <3>1 DEF OthersUnchanged, TypeInv, TypeOK
    <3>3. WalkInv(r)'
      BY <1>0, <3>1, <3>2, SameWalk DEF Reported
    <3> QED BY <3>2, <3>3, OthersWalk
  <2> QED BY <2>1, <2>2
<1>11. ASSUME NEW p \in Places, NEW v \in Versions \cup {Absent}, Edit(p, v) PROVE StillInv'
  <2> SUFFICES ASSUME NEW r \in Runs PROVE WalkInv(r)'
    BY DEF StillInv
  <2>1. UNCHANGED <<pc, at, listed, held, inv, verdict, missed>>
    BY <1>11 DEF Edit
  <2>2. \A q \in Places \ {p} : content'[q] = content[q]
    BY <1>11 DEF Edit, TypeInv, TypeOK
  <2>3. /\ pc[r] = "idle" => touched'[r] = {}
        /\ pc[r] # "idle" => touched'[r] = touched[r] \cup {p}
    BY <1>11 DEF Edit
  <2>4. CASE pc[r] = "idle"
    BY <1>0, <2>1, <2>3, <2>4 DEF WalkInv, Reported, Unsure
  <2>5. CASE pc[r] # "idle"
    <3>1. inv[r] \in Inventory /\ \A a \in inv[r].arts : a.place \in Places
      BY <2>5 DEF TypeInv, LiveOK, Inventory, Artifact
    <3>0. Unsure(r)' = Unsure(r) \cup {p}
      BY <2>1, <2>3, <2>5 DEF Unsure
    <3>2. Truthful(r)'
      <4> SUFFICES ASSUME NEW a \in inv[r].arts, a.place \notin Unsure(r) \cup {p}
                   PROVE  TellsOf(a, content'[a.place], inv[r])
        BY <2>1, <3>0 DEF Truthful
      <4>1. TellsOf(a, content[a.place], inv[r])
        BY <1>0, <2>5 DEF WalkInv, Truthful
      <4> QED BY <2>2, <3>1, <4>1
    <3>3. Passed(r)' /\ Complete(r)'
      BY <1>0, <2>1, <2>2, <2>5, <3>0 DEF WalkInv, Passed, Complete, Listed
    <3>4. pc[r] = "scan" => HeldInv(r)'
      BY <1>0, <2>1, <2>2, <2>5, <3>0 DEF WalkInv, HeldInv, TypeInv, LiveOK
    <3>5. pc[r] \in {"hash", "scan"} => ListInv(r)'
      BY <1>0, <2>1, <2>2, <2>5, <3>0 DEF WalkInv, ListInv, Siblings
    <3> QED BY <1>0, <2>1, <2>5, <3>2, <3>3, <3>4, <3>5 DEF WalkInv, Reported
  <2> QED BY <2>4, <2>5
<1>12. CASE UNCHANGED <<content, touched, missed, listed, pc, at, held, inv, verdict>>
  BY <1>0, <1>12, KeepWalk DEF StillInv
<1>13. ASSUME (\E R \in RuleSets : InstallRules(R)) \/ Damage \/ UNCHANGED vars PROVE StillInv'
  BY <1>12, <1>13 DEF InstallRules, Damage, machine, past, vars
<1> QED
  BY <1>1, <1>2, <1>21, <1>4, <1>6, <1>7, <1>8, <1>9, <1>10, <1>11, <1>13 DEF Next, Step

\* A report was made when the walk was over, from an index of its artifacts.
LEMMA ReportIndex ==
    ASSUME StillInv, NEW r \in Runs, verdict[r] = "drift"
    PROVE  inv[r].index \in Indexes(inv[r].arts)
BY DEF StillInv, WalkInv

\* What stood still is in the inventory of the report, with its record.
LEMMA StillAreListed ==
    ASSUME TypeInv, StillInv, NEW r \in Runs, verdict[r] = "drift", NEW p \in Still(r),
           content[p] # Absent
    PROVE  \E a \in inv[r].arts :
               a.place = p /\ a.id = Id[p] /\ IsRecordOf(a, content[p], inv[r].rules)
<1>1. Reported(r) /\ WalkInv(r)
  BY DEF StillInv, WalkInv
<1>2. at[r] = NPlaces + 1 /\ Complete(r) /\ Truthful(r)
  BY <1>1 DEF WalkInv, Reported
<1>3. p \in Places \ Unsure(r) /\ ~inv[r].cut /\ p < NPlaces + 1
  BY BoundsAssumption DEF Still, Unsure, Places
<1>4. PICK a \in inv[r].arts : a.place = p /\ a.id = Id[p]
  BY <1>2, <1>3 DEF Complete, Listed
<1> QED BY <1>2, <1>3, <1>4 DEF Truthful, TellsOf

\* A report that does not say it may be incomplete never calls a component removed
\* (SUP-013) that was there, untouched, while it was taken, and that the machine
\* let the scan read, whatever other runs, crashes and edits do meanwhile.
THEOREM RemovedIsTrue == Spec => []RemovedIsGone
<1> DEFINE Inv == TypeInv /\ StillInv
<1>1. Init => Inv
  BY InitTypes, InitStill
<1>2. Inv /\ [Next]_vars => Inv'
  BY StepTypes, StepStill
<1>3. Inv => RemovedIsGone
  <2> SUFFICES ASSUME Inv, NEW r \in Runs, verdict[r] = "drift", NEW p \in Still(r),
                      content[p] # Absent, Id[p] \in Removed(base[r], inv[r])
               PROVE  FALSE
    BY DEF RemovedIsGone
  <2>1. PICK a \in inv[r].arts : a.id = Id[p]
    BY StillAreListed DEF Still
  <2>2. DOMAIN inv[r].index = {b.id : b \in inv[r].arts}
    BY ReportIndex DEF Indexes
  <2> QED BY <2>1, <2>2 DEF Removed
<1> HIDE DEF Inv
<1> QED BY <1>1, <1>2, <1>3, PTL DEF Spec

\* A component that gained dangerous code since its accepted record was taken is
\* reported as such (SUP-010), however many runs are alive, by every scan that was
\* complete and could read it, provided no two components share an ID.
THEOREM RugPullIsTold ==
    ASSUME DistinctIds
    PROVE  Spec => []RecordedRugPullIsCritical
<1> DEFINE Inv == SafeInv /\ StillInv
<1>1. Init => Inv
  BY InitTypes, InitAccept, InitStill DEF SafeInv
<1>2. Inv /\ [Next]_vars => Inv'
  BY StepTypes, StepAccept, StepStill DEF SafeInv
<1>3. Inv => RecordedRugPullIsCritical
  <2> SUFFICES ASSUME Inv, NEW r \in Runs, NEW p \in Places, NEW u \in Versions,
                      RugPull(r, p, u), IsRecordOf(base[r].index[Id[p]], u, base[r].rules)
               PROVE  Id[p] \in Critical(base[r], inv[r])
    BY DEF RecordedRugPullIsCritical
  <2>1. verdict[r] = "drift" /\ p \in Still(r) /\ content[p] # Absent
    BY DEF RugPull
  <2>2. PICK a \in inv[r].arts : a.place = p /\ a.id = Id[p] /\ IsRecordOf(a, content[p], inv[r].rules)
    BY <2>1, StillAreListed DEF Still, SafeInv
  <2>3. WellIndexed(inv[r])
    BY <2>1 DEF SafeInv, AcceptInv, RunInv
  <2>4. Id[p] \in DOMAIN inv[r].index /\ inv[r].index[Id[p]] = a
    BY <2>2, <2>3 DEF WellIndexed
  <2>5. base[r].index[Id[p]].inds \subseteq MarksOf(u)
    BY DEF IsRecordOf, Seen, MarksOf
  <2>6. NewIndicators(base[r].index[Id[p]], a) # {}
    BY <2>2, <2>5 DEF NewIndicators, IsRecordOf, RugPull
  <2>7. Id[p] \in DOMAIN base[r].index
    BY DEF RugPull
  <2> QED BY <2>4, <2>6, <2>7 DEF Critical, Modified, Describe
<1> HIDE DEF Inv
<1> QED BY <1>1, <1>2, <1>3, PTL DEF Spec

\* SUP-010 for a component with an unchanged digest has one of the causes
\* FalseAlarmHasCause lists, also for components that share an ID.
THEOREM AlarmHasCause == Spec => []FalseAlarmHasCause
<1> DEFINE Inv == TypeInv /\ StillInv
<1>1. Init => Inv
  BY InitTypes, InitStill
<1>2. Inv /\ [Next]_vars => Inv'
  BY StepTypes, StepStill
<1>3. Inv => FalseAlarmHasCause
  <2> SUFFICES ASSUME Inv, NEW r \in Runs, verdict[r] = "drift",
                      NEW i \in Critical(base[r], inv[r]),
                      base[r].rules = inv[r].rules,
                      inv[r].index[i].place \notin touched[r] \cup missed[r],
                      NEW v \in Versions, IsRecordOf(base[r].index[i], v, base[r].rules),
                      Marks[v] = Marks[content[inv[r].index[i].place]]
               PROVE  FALSE
    BY DEF FalseAlarmHasCause
  <2> DEFINE c == inv[r].index[i]
  <2>1. i \in DOMAIN inv[r].index /\ NewIndicators(base[r].index[i], c) # {}
    BY DEF Critical, Modified
  <2>2. c \in inv[r].arts
    BY <2>1, ReportIndex DEF Indexes
  <2>3. TellsOf(c, content[c.place], inv[r])
    BY <2>2 DEF StillInv, WalkInv, Reported, Truthful, Unsure
  <2>4. Seen(v, inv[r].rules) = Seen(content[c.place], inv[r].rules)
    BY DEF Seen, Hit
  <2>5. c.inds \subseteq base[r].index[i].inds
    BY <2>3, <2>4 DEF TellsOf, IsRecordOf
  <2> QED BY <2>1, <2>5 DEF NewIndicators
<1> HIDE DEF Inv
<1> QED BY <1>1, <1>2, <1>3, PTL DEF Spec

-----------------------------------------------------------------------------
(* First runs, and the ledger the runs keep. *)

OneAtATime == \A r, q \in Runs : r = q

\* The marks for a missing and for an unreadable file are no inventories.
MarksAreDistinct ==
    /\ NoBaseline # Unreadable
    /\ \A x \in {NoBaseline, Unreadable} :
           x \notin Inventory /\ x \notin SUBSET (Ids \X Digests)

\* With one run at a time, a run that found no baseline still finds none when it
\* records its own.
FirstInv == \A r \in Runs : pc[r] = "record" => baseline = NoBaseline

\* With any number of them, a run that compared with a baseline still finds one,
\* if only an unreadable one.
SavedInv == \A r \in Runs :
    pc[r] \in {"save", "prompt"} \/ verdict[r] = "drift" => baseline # NoBaseline

\* At first no run is anywhere near the baseline.
THEOREM InitFirst == Init => FirstInv /\ SavedInv
BY NamesAssumption DEF Init, FirstInv, SavedInv

\* One run at a time: between LoadBaseline and SaveBaseline nobody else saves.
LEMMA StepFirst ==
    ASSUME OneAtATime, TypeInv, FirstInv, [Next]_vars
    PROVE  FirstInv'
<1> USE DEF TypeInv, TypeOK, LiveOK, FirstInv, OneAtATime
<1>1. ASSUME NEW r \in Runs, pc'[r] # "record" PROVE FirstInv'
  BY <1>1
<1>2. ASSUME NEW r \in Runs, Start(r) \/ ReadRoot(r) \/ EndTake(r) \/ LoadFails(r) \/ Compare(r)
                             \/ RecordFirst(r) \/ SaveAccepted(r)
      PROVE  FirstInv'
  BY <1>1, <1>2 DEF Start, ReadRoot, EndTake, LoadFails, Compare, RecordFirst, SaveAccepted, Goto
<1>3. ASSUME NEW r \in Runs, Skip(r) \/ HashTree(r) \/ HashTreeInPart(r) \/ ScanTree(r)
                             \/ ScanTreeInPart(r)
      PROVE  FirstInv'
  BY <1>1, <1>3 DEF Skip, HashTree, HashTreeInPart, ScanTree, ScanTreeInPart, AddArtifact,
                    Advance, Goto
<1>4. ASSUME NEW r \in Runs, LoadNone(r) PROVE FirstInv'
  BY <1>4 DEF LoadNone, Goto
<1>5. ASSUME NEW r \in Runs, Output(r) \/ Answer(r) \/ Crash(r)
      PROVE  FirstInv'
  BY <1>1, <1>5 DEF Output, Answer, Crash, Exit, Goto
<1>6. ASSUME \/ \E p \in Places, v \in Versions \cup {Absent} : Edit(p, v)
             \/ \E R \in RuleSets : InstallRules(R)
             \/ UNCHANGED vars
      PROVE  FirstInv'
  BY <1>6 DEF Edit, InstallRules, vars
<1>7. ASSUME Damage PROVE FirstInv'
  BY <1>7 DEF Damage, Recorded
<1> QED BY <1>2, <1>3, <1>4, <1>5, <1>6, <1>7 DEF Next, Step

\* Once something was accepted the baseline file is there, readable or not.
LEMMA StaysRecorded ==
    ASSUME MarksAreDistinct, TypeInv, [Next]_vars, baseline # NoBaseline
    PROVE  baseline' # NoBaseline
<1> USE DEF TypeInv, LiveOK
<1>1. ASSUME NEW r \in Runs, RecordFirst(r) \/ SaveAccepted(r) \/ Answer(r)
      PROVE  baseline' # NoBaseline
  <2>1. inv[r] \in Inventory
    BY <1>1 DEF RecordFirst, SaveAccepted, Answer
  <2>2. inv[r] # NoBaseline
    BY <2>1 DEF MarksAreDistinct
  <2> QED BY <1>1, <2>2 DEF RecordFirst, SaveAccepted, Answer, Accept
<1>2. ASSUME Damage PROVE baseline' # NoBaseline
  BY <1>2 DEF Damage, MarksAreDistinct
<1>3. ASSUME UNCHANGED baseline PROVE baseline' # NoBaseline
  BY <1>3
<1>4. ASSUME NEW r \in Runs, Start(r) \/ ReadRoot(r) \/ Skip(r) \/ HashTree(r) \/ HashTreeInPart(r)
                             \/ ScanTree(r) \/ ScanTreeInPart(r) \/ EndTake(r)
      PROVE  UNCHANGED baseline
  BY <1>4 DEF Start, ReadRoot, Skip, HashTree, HashTreeInPart, ScanTree, ScanTreeInPart, EndTake
<1>5. ASSUME NEW r \in Runs, LoadNone(r) \/ LoadFails(r) \/ Compare(r) \/ Output(r) \/ Crash(r)
      PROVE  UNCHANGED baseline
  BY <1>5 DEF LoadNone, LoadFails, Compare, Output, Crash
<1> QED BY <1>1, <1>2, <1>3, <1>4, <1>5 DEF Next, Step, Edit, InstallRules, vars

\* Only comparing with a baseline brings a run to a drift or to a save.
LEMMA StepSaved ==
    ASSUME MarksAreDistinct, TypeInv, SavedInv, [Next]_vars
    PROVE  SavedInv'
<1> USE DEF TypeInv, TypeOK, LiveOK
<1> DEFINE Due(r) == pc[r] \in {"save", "prompt"} \/ verdict[r] = "drift"
<1>1. ASSUME NEW r \in Runs,
             \A q \in Runs \ {r} : pc'[q] = pc[q] /\ verdict'[q] = verdict[q],
             Due(r)' => Due(r)
      PROVE  SavedInv'
  BY <1>1, StaysRecorded DEF SavedInv
<1>2. ASSUME NEW r \in Runs, Start(r) \/ ReadRoot(r) \/ EndTake(r) \/ LoadNone(r) \/ LoadFails(r)
                             \/ RecordFirst(r) \/ SaveAccepted(r)
      PROVE  SavedInv'
  BY <1>1, <1>2 DEF Start, ReadRoot, EndTake, LoadNone, LoadFails, RecordFirst, SaveAccepted, Goto
<1>3. ASSUME NEW r \in Runs, Skip(r) \/ HashTree(r) \/ HashTreeInPart(r) \/ ScanTree(r)
                             \/ ScanTreeInPart(r)
      PROVE  SavedInv'
  BY <1>1, <1>3 DEF Skip, HashTree, HashTreeInPart, ScanTree, ScanTreeInPart, AddArtifact,
                    Advance, Goto
<1>4. ASSUME NEW r \in Runs, Compare(r) PROVE SavedInv'
  <2>1. baseline # NoBaseline
    BY <1>4 DEF Compare, Recorded
  <2>2. baseline' # NoBaseline
    BY <2>1, StaysRecorded
  <2> QED BY <2>2 DEF SavedInv
<1>5. ASSUME NEW r \in Runs, Output(r) \/ Answer(r) \/ Crash(r)
      PROVE  SavedInv'
  BY <1>1, <1>5, NamesAssumption DEF Output, Answer, Crash, Exit, Goto
<1>6. ASSUME UNCHANGED <<pc, verdict>> PROVE SavedInv'
  BY <1>6, StaysRecorded DEF SavedInv
<1> QED BY <1>2, <1>3, <1>4, <1>5, <1>6 DEF Next, Step, Edit, InstallRules, Damage, vars

\* "This is the first run" (SUP-000) is only said when nothing was accepted, with
\* one run at a time: between LoadBaseline and SaveBaseline nobody else saves.
THEOREM FirstIsFirst ==
    ASSUME OneAtATime
    PROVE  Spec => FirstRunIsFirst
<1> DEFINE Inv == TypeInv /\ FirstInv
           Say == \A r \in Runs :
                      verdict'[r] = "first" /\ verdict[r] # "first" => baseline = NoBaseline
<1>1. Init => Inv
  BY InitTypes, InitFirst
<1>2. Inv /\ [Next]_vars => Inv'
  BY StepTypes, StepFirst
<1>3. Inv /\ [Next]_vars => [Say]_vars
  <2> SUFFICES ASSUME Inv, Next, NEW r \in Runs, verdict'[r] = "first", verdict[r] # "first"
               PROVE  baseline = NoBaseline
    OBVIOUS
  <2> USE DEF TypeInv, TypeOK
  <2>1. ASSUME NEW q \in Runs, RecordFirst(q) PROVE baseline = NoBaseline
    BY <2>1 DEF RecordFirst, FirstInv
  <2>2. ASSUME NEW q \in Runs, LoadFails(q) \/ Compare(q) PROVE FALSE
    BY <2>2 DEF LoadFails, Compare
  <2>3. ASSUME NEW q \in Runs, Exit(q) PROVE FALSE
    BY <2>3, NamesAssumption DEF Exit
  <2>4. ASSUME UNCHANGED verdict PROVE FALSE
    BY <2>4
  <2>5. ASSUME NEW q \in Runs, Start(q) \/ ReadRoot(q) \/ Skip(q) \/ HashTree(q)
                 \/ HashTreeInPart(q) \/ ScanTree(q) \/ ScanTreeInPart(q) \/ EndTake(q)
                 \/ LoadNone(q) \/ SaveAccepted(q)
        PROVE  FALSE
    BY <2>4, <2>5 DEF Start, ReadRoot, Skip, HashTree, HashTreeInPart, ScanTree, ScanTreeInPart,
                      EndTake, LoadNone, SaveAccepted
  <2>6. ASSUME NEW q \in Runs, Output(q) \/ Answer(q) \/ Crash(q) PROVE FALSE
    BY <2>3, <2>4, <2>6 DEF Output, Answer, Crash
  <2> QED BY <2>1, <2>2, <2>4, <2>5, <2>6 DEF Next, Step, Edit, InstallRules, Damage
<1> HIDE DEF Inv, Say
<1>4. Spec => [][Say]_vars
  BY <1>1, <1>2, <1>3, PTL DEF Spec
<1> QED BY <1>4 DEF Say, FirstRunIsFirst

\* Each step of the runs is a step of the ledger, or leaves it alone.
LEMMA LedgerStep ==
    ASSUME MarksAreDistinct, SafeInv, SavedInv, [Next]_vars
    PROVE  [L!Next]_(L!ledger)
<1> DEFINE accepted == IF Recorded THEN Pairs(baseline.arts) ELSE baseline
           early == {q \in Runs : pc[q] = "record"}
<1>0. TypeInv /\ AcceptInv /\ \A r \in Runs : RunInv(r)
  BY DEF SafeInv, AcceptInv
<1> USE DEF TypeInv, TypeOK, LiveOK
<1>1. ASSUME NEW r \in Runs, inv[r] \in Inventory, baseline' = inv[r]
      PROVE  accepted' = Pairs(inv[r].arts) /\ accepted' \notin {NoBaseline, Unreadable}
  <2>1. Recorded'
    BY <1>1 DEF Recorded, MarksAreDistinct
  <2>2. Pairs(inv[r].arts) \in SUBSET (Ids \X Digests)
    BY <1>1, NamedType
  <2> QED BY <1>1, <2>1, <2>2 DEF MarksAreDistinct
<1>2. baseline # NoBaseline => accepted # NoBaseline
  <2>1. CASE Recorded
    <3>1. Pairs(baseline.arts) \in SUBSET (Ids \X Digests)
      BY <1>0, <2>1 DEF Recorded, Inventory, Pairs, Artifact
    <3> QED BY <2>1, <3>1 DEF MarksAreDistinct
  <2>2. CASE ~Recorded
    BY <2>2
  <2> QED BY <2>1, <2>2
<1>3. UNCHANGED baseline => UNCHANGED accepted
  BY DEF Recorded
<1>4. Reviewed = L!Known
  BY DEF Reviewed, L!Known
<1>5. ASSUME NEW r \in Runs, LoadNone(r) PROVE L!Look(r)
  <2>1. accepted = NoBaseline
    BY <1>5 DEF LoadNone, Recorded
  <2>2. early' = early \cup {r}
    BY <1>0, <1>5 DEF LoadNone, Goto
  <2> QED BY <1>3, <1>5, <2>1, <2>2 DEF LoadNone, reviews, L!Look
<1>6. ASSUME NEW r \in Runs, RecordFirst(r) PROVE L!AcceptFirst(r) \/ L!Pass(r)
  <2>1. early' = early \ {r} /\ r \in early /\ inv[r] \in Inventory /\ UNCHANGED <<shown, unseen>>
    BY <1>0, <1>6 DEF RecordFirst, Goto
  <2>2. CASE Accept(r, Pairs(inv[r].arts))
    <3>1. accepted' = Pairs(inv[r].arts) /\ accepted' \notin {NoBaseline, Unreadable}
      BY <1>1, <2>1, <2>2 DEF Accept
    <3>2. /\ owed' = [owed EXCEPT ![r] = owed'[r]] /\ owed[r] \subseteq owed'[r]
          /\ Pairs(inv[r].arts) \subseteq owed'[r]
      BY <1>0, <2>2 DEF Accept
    <3> QED BY <2>1, <3>1, <3>2 DEF L!AcceptFirst, L!Records, L!Owes
  <2>3. CASE UNCHANGED <<baseline, owed>>
    BY <1>3, <2>1, <2>3 DEF L!Pass
  <2> QED BY <1>6, <2>2, <2>3 DEF RecordFirst
<1>7. ASSUME NEW r \in Runs, SaveAccepted(r) PROVE L!AcceptAhead(r) \/ UNCHANGED L!ledger
  <2>1. early' = early /\ inv[r] \in Inventory /\ UNCHANGED <<shown, unseen>>
    BY <1>0, <1>7 DEF SaveAccepted, Goto
  <2>2. CASE Accept(r, Named(base[r], inv[r]))
    <3>1. accepted' = Pairs(inv[r].arts) /\ accepted' \notin {NoBaseline, Unreadable}
      BY <1>1, <2>1, <2>2 DEF Accept
    <3>2. /\ owed' = [owed EXCEPT ![r] = owed'[r]] /\ owed[r] \subseteq owed'[r]
          /\ Named(base[r], inv[r]) \subseteq owed'[r]
      BY <1>0, <2>2 DEF Accept
    <3>3. Pairs(inv[r].arts) \subseteq Reviewed \cup Named(base[r], inv[r])
      BY <1>0, <1>7 DEF SaveAccepted, RunInv, Announced
    <3>4. accepted # NoBaseline
      BY <1>2, <1>7 DEF SaveAccepted, SavedInv
    <3> QED BY <1>4, <2>1, <3>1, <3>2, <3>3, <3>4 DEF L!AcceptAhead, L!Records, L!Owes
  <2>3. CASE UNCHANGED <<baseline, owed>>
    BY <1>3, <2>1, <2>3 DEF L!ledger
  <2> QED BY <1>7, <2>2, <2>3 DEF SaveAccepted
<1>8. ASSUME NEW r \in Runs, Output(r) PROVE L!Show(r) \/ L!Fail(r)
  <2>1. UNCHANGED baseline /\ early' = early /\ r \notin early
    BY <1>0, <1>8 DEF Output, Exit, Goto
  <2>2. CASE Told(r)
    BY <1>3, <2>1, <2>2 DEF Told, L!Show
  <2>3. CASE Untold(r)
    BY <1>3, <2>1, <2>3 DEF Untold, L!Fail
  <2> QED BY <1>8, <2>2, <2>3 DEF Output
<1>9. ASSUME NEW r \in Runs, Answer(r) PROVE L!AcceptKnown \/ UNCHANGED L!ledger
  <2>1. early' = early /\ inv[r] \in Inventory /\ UNCHANGED <<shown, owed, unseen>>
    BY <1>0, <1>9 DEF Answer, Exit, Goto, reviews
  <2>2. CASE baseline' = inv[r]
    <3>1. accepted' = Pairs(inv[r].arts) /\ accepted' \notin {NoBaseline, Unreadable}
      BY <1>1, <2>1, <2>2
    <3>2. Pairs(inv[r].arts) \subseteq Reviewed
      BY <1>0, <1>9 DEF Answer, RunInv, Known
    <3>3. accepted # NoBaseline
      BY <1>2, <1>9 DEF Answer, SavedInv
    <3> QED BY <1>4, <2>1, <3>1, <3>2, <3>3 DEF L!AcceptKnown, L!Records
  <2>3. CASE UNCHANGED baseline
    BY <1>3, <2>1, <2>3 DEF L!ledger
  <2> QED BY <1>9, <2>2, <2>3 DEF Answer
<1>10. ASSUME NEW r \in Runs, Crash(r) PROVE L!Fail(r)
  <2>1. UNCHANGED baseline /\ early' = early \ {r} /\ Untold(r)
    BY <1>0, <1>10 DEF Crash, Exit, Goto
  <2> QED BY <1>3, <2>1 DEF Untold, L!Fail
<1>11. ASSUME Damage PROVE L!Damage
  <2>1. accepted' = Unreadable /\ UNCHANGED <<shown, owed, unseen, pc>>
    BY <1>11 DEF Damage, Recorded, reviews
  <2>2. accepted # NoBaseline
    BY <1>2, <1>11 DEF Damage, Recorded
  <2> QED BY <2>1, <2>2 DEF L!Damage
<1>12. ASSUME UNCHANGED <<baseline, shown, owed, unseen>>, UNCHANGED early PROVE UNCHANGED L!ledger
  BY <1>3, <1>12 DEF L!ledger
<1>13. ASSUME NEW r \in Runs, Start(r) \/ ReadRoot(r) \/ EndTake(r) \/ LoadFails(r) \/ Compare(r)
       PROVE  UNCHANGED L!ledger
  <2>1. UNCHANGED early
    BY <1>0, <1>13 DEF Start, ReadRoot, EndTake, LoadFails, Compare, Goto
  <2>2. UNCHANGED <<baseline, shown, owed, unseen>>
    BY <1>13 DEF Start, ReadRoot, EndTake, LoadFails, Compare, reviews
  <2> QED BY <1>12, <2>1, <2>2
<1>14. ASSUME NEW r \in Runs, Skip(r) \/ HashTree(r) \/ HashTreeInPart(r) \/ ScanTree(r)
                              \/ ScanTreeInPart(r)
       PROVE  UNCHANGED L!ledger
  <2>1. UNCHANGED early
    BY <1>0, <1>14 DEF Skip, HashTree, HashTreeInPart, Hashing, ScanTree, ScanTreeInPart,
                       AddArtifact, Advance, Goto
  <2>2. UNCHANGED <<baseline, shown, owed, unseen>>
    BY <1>14 DEF Skip, HashTree, HashTreeInPart, ScanTree, ScanTreeInPart, reviews
  <2> QED BY <1>12, <2>1, <2>2
<1>15. ASSUME \/ \E p \in Places, v \in Versions \cup {Absent} : Edit(p, v)
              \/ \E R \in RuleSets : InstallRules(R)
              \/ UNCHANGED vars
       PROVE  UNCHANGED L!ledger
  <2>1. UNCHANGED <<baseline, shown, owed, unseen, pc>>
    BY <1>15 DEF Edit, InstallRules, vars, reviews
  <2> QED BY <1>12, <2>1
<1> QED
  BY <1>5, <1>6, <1>7, <1>8, <1>9, <1>10, <1>11, <1>13, <1>14, <1>15 DEF Next, Step, L!Next

\* With distinct IDs the drift check implements the ledger, with any number of
\* runs at once: a run accepts whatever it finds only if it looked before anything
\* was accepted; whatever is accepted otherwise was in a report, or is in the
\* report of the run that accepts it; and it is lost to the user only if that run
\* is killed or cannot write its report.
THEOREM KeepsLedger ==
    ASSUME DistinctIds, MarksAreDistinct
    PROVE  Spec => ImplementsLedger
<1> DEFINE Inv == SafeInv /\ SavedInv
<1>1. Init => Inv
  BY InitTypes, InitAccept, InitFirst DEF SafeInv
<1>2. Inv /\ [Next]_vars => Inv'
  BY StepTypes, StepAccept, StepSaved DEF SafeInv
<1>3. Init => L!Init
  BY DEF Init, L!Init, Recorded
<1>4. Inv /\ [Next]_vars => [L!Next]_(L!ledger)
  BY LedgerStep
<1> HIDE DEF Inv
<1>5. Spec => [][L!Next]_(L!ledger)
  BY <1>1, <1>2, <1>4, PTL DEF Spec
<1>6. Spec => L!Init
  BY <1>3 DEF Spec
<1> QED BY <1>5, <1>6 DEF ImplementsLedger, L!Spec
=============================================================================
