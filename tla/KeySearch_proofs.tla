-------------------------- MODULE KeySearch_proofs --------------------------
(***************************************************************************)
(* Proofs about the search for keys: what one walk reads and says, and     *)
(* what the walks come to together, for any folders and any budget.        *)
(***************************************************************************)
EXTENDS KeySearch, LeastNumber, FiniteSetTheorems, TLAPS

\* A set of natural numbers that has an upper bound has a greatest member.
LEMMA Greatest ==
    ASSUME NEW S \in SUBSET Nat, S # {}, NEW b \in Nat, \A x \in S : x <= b
    PROVE  \E m \in S : \A x \in S : x <= m
<1> DEFINE bounds == {c \in Nat : \A x \in S : x <= c}
<1>1. PICK m \in bounds : \A c \in bounds : m <= c
  <2>1. bounds \in SUBSET Nat /\ bounds # {}
    OBVIOUS
  <2> HIDE DEF bounds
  <2> QED BY <2>1, Least
<1>2. SUFFICES ASSUME m \notin S PROVE FALSE
  BY <1>1
<1>3. \A x \in S : x < m
  BY <1>1, <1>2
<1>4. m \in Nat /\ m # 0
  <2>1. PICK x \in S : TRUE
    OBVIOUS
  <2>2. x \in Nat /\ x < m
    BY <1>3, <2>1
  <2> QED BY <1>1, <2>2
<1>5. m - 1 \in bounds
  BY <1>3, <1>4
<1> QED BY <1>1, <1>4, <1>5

\* The least of a set of numbers is one of them.
LEMMA MinIsMember == ASSUME NEW S \in SUBSET Nat, S # {} PROVE Min(S) \in S
BY Least DEF Min

\* The entries of a folder that are read are finitely many.
LEMMA TextsAreFew ==
    ASSUME NEW tree \in Seq(Entries)
    PROVE  /\ Texts(tree) \subseteq 1..Len(tree) /\ IsFiniteSet(Texts(tree))
           /\ \A i \in Texts(tree) : tree[i].file \in Files
           /\ \A i : Before(tree, i) \in Nat
           /\ \A i : IsFiniteSet({j \in Texts(tree) : j < i})
<1>1. Texts(tree) \subseteq 1..Len(tree) /\ \A i \in Texts(tree) : tree[i] \in Entries
  BY DEF Texts
<1>2. IsFiniteSet(Texts(tree))
  BY <1>1, FS_Interval, FS_Subset
<1>3. \A i : IsFiniteSet({j \in Texts(tree) : j < i})
  BY <1>2, FS_Subset
<1> QED BY <1>1, <1>2, <1>3, FS_CardinalityType DEF Before, Entries

\* The text files that a walk reads when it may read so many are no more than that.
LEMMA WalkSpends ==
    ASSUME NEW tree \in Seq(Entries), NEW spend \in Nat
    PROVE  LET R == {i \in Texts(tree) : Before(tree, i) < spend}
           IN  /\ IsFiniteSet(R) /\ Cardinality(R) \in Nat
               /\ Cardinality(R) <= spend /\ Cardinality(R) <= Cardinality(Texts(tree))
<1> DEFINE R == {i \in Texts(tree) : Before(tree, i) < spend}
<1>1. IsFiniteSet(Texts(tree)) /\ Texts(tree) \subseteq 1..Len(tree) /\ R \subseteq Texts(tree)
      /\ Len(tree) \in Nat
  BY TextsAreFew
<1>2. IsFiniteSet(R) /\ Cardinality(R) \in Nat /\ Cardinality(R) <= Cardinality(Texts(tree))
  BY <1>1, FS_Subset, FS_CardinalityType
<1>3. CASE R = {}
  BY <1>2, <1>3, FS_EmptySet
<1>4. CASE R # {}
  <2>1. R \in SUBSET Nat /\ \A x \in R : x <= Len(tree)
    BY <1>1
  <2> HIDE DEF R
  <2>2. PICK m \in R : \A x \in R : x <= m
    BY <1>1, <1>4, <2>1, Greatest
  <2> DEFINE below == {j \in Texts(tree) : j < m}
  <2>3. R \ {m} \subseteq below
    BY <1>1, <2>1, <2>2
  <2>4. IsFiniteSet(below) /\ Cardinality(below) \in Nat
    BY TextsAreFew, FS_CardinalityType
  <2>5. Cardinality(R \ {m}) <= Cardinality(below) /\ Cardinality(R \ {m}) = Cardinality(R) - 1
    BY <1>2, <2>2, <2>3, <2>4, FS_Subset, FS_RemoveElement
  <2>6. Cardinality(below) < spend
    BY <2>2 DEF R, Before
  <2>7. Cardinality(R) <= spend
    <3> HIDE DEF below
    <3> QED BY <1>2, <2>4, <2>5, <2>6
  <2> QED BY <1>2, <2>7 DEF R
<1> QED BY <1>3, <1>4

\* The first text file that a walk meets is read before any other.
LEMMA FirstIsRead ==
    ASSUME NEW tree \in Seq(Entries), Texts(tree) # {}
    PROVE  \E i \in Texts(tree) : Before(tree, i) = 0
<1>1. Texts(tree) \in SUBSET Nat
  BY TextsAreFew
<1>2. PICK i \in Texts(tree) : \A j \in Texts(tree) : i <= j
  BY <1>1, Least
<1>3. {j \in Texts(tree) : j < i} = {}
  BY <1>1, <1>2
<1> QED BY <1>3, FS_EmptySet DEF Before

\* What a walk owes: it reads files of its folder, no more than it may; if there
\* are any it reads one; and if it leaves one out it says so.
Honest(w, n, tree, spend) ==
    /\ IsFiniteSet(w.read) /\ Cardinality(w.read) \in Nat /\ w.cut \in BOOLEAN
    /\ Cardinality(w.read) <= spend
    /\ {x.file : x \in w.read} \subseteq Files \cap FilesIn(tree)
    /\ FilesIn(tree) # {} => \E x \in w.read : x.file \in FilesIn(tree)
    /\ ~(FilesIn(tree) \subseteq {x.file : x \in w.read}) => w.cut
    /\ w.cut => w.read # {}

\* Every walk of a folder does.
LEMMA WalkIsHonest ==
    ASSUME NEW tree \in Seq(Entries), NEW spend \in Nat \ {0}, NEW n
    PROVE  LET w == Walk(n, tree, spend)
           IN  Honest(w, n, tree, spend) /\ Cardinality(w.read) <= Cardinality(Texts(tree))
<1> DEFINE w == Walk(n, tree, spend)
           R == {i \in Texts(tree) : Before(tree, i) < spend}
           e(i) == [walk |-> n, entry |-> i, file |-> tree[i].file]
           f == [i \in R |-> e(i)]
<1>1. w.read = {e(i) : i \in R}
  BY DEF Walk, All
<1>2. w.cut = (\E i \in DOMAIN tree : Before(tree, i) >= spend)
  BY DEF Walk
<1>3. /\ IsFiniteSet(R) /\ Cardinality(R) \in Nat
      /\ Cardinality(R) <= spend /\ Cardinality(R) <= Cardinality(Texts(tree))
  BY WalkSpends
<1>4. /\ IsFiniteSet(Texts(tree)) /\ Cardinality(Texts(tree)) \in Nat
      /\ Texts(tree) \subseteq DOMAIN tree /\ \A i \in Texts(tree) : tree[i].file \in Files
      /\ \A i : Before(tree, i) \in Nat
  BY TextsAreFew, FS_CardinalityType DEF Texts
<1> HIDE DEF w
<1>5. IsFiniteSet(w.read) /\ Cardinality(w.read) \in Nat /\ Cardinality(w.read) <= Cardinality(R)
  <2>1. f \in Surjection(R, w.read)
    BY <1>1 DEF Surjection
  <2> HIDE DEF f, R
  <2>2. IsFiniteSet(w.read) /\ Cardinality(w.read) <= Cardinality(R)
    BY <1>3, <2>1, FS_Surjection
  <2> QED BY <2>2, FS_CardinalityType
<1>6. {x.file : x \in w.read} = {tree[i].file : i \in R}
  <2>1. \A i \in R : e(i).file = tree[i].file
    OBVIOUS
  <2> HIDE DEF e, R
  <2>2. {x.file : x \in w.read} = {e(i).file : i \in R}
    BY <1>1
  <2> QED BY <2>1, <2>2
<1>7. FilesIn(tree) # {} => \E i \in R : tree[i].file \in FilesIn(tree)
  <2>1. ASSUME FilesIn(tree) # {} PROVE \E i \in Texts(tree) : Before(tree, i) = 0
    BY <2>1, FirstIsRead DEF FilesIn
  <2> QED BY <2>1 DEF FilesIn
<1>8. ~(FilesIn(tree) \subseteq {x.file : x \in w.read}) => w.cut
  <2>1. ASSUME NEW i \in Texts(tree), i \notin R PROVE w.cut
    BY <1>2, <1>4, <2>1
  <2> QED BY <1>6, <2>1 DEF FilesIn
<1>9. w.cut => w.read # {}
  <2>1. ASSUME NEW i \in DOMAIN tree, Before(tree, i) >= spend PROVE Texts(tree) # {}
    <3>1. SUFFICES ASSUME Texts(tree) = {} PROVE FALSE
      OBVIOUS
    <3>2. {j \in Texts(tree) : j < i} = {}
      BY <3>1
    <3>3. Before(tree, i) = 0
      BY <3>2, FS_EmptySet DEF Before
    <3> QED BY <2>1, <3>3
  <2>2. w.cut => \E i \in Texts(tree) : Before(tree, i) = 0
    BY <1>2, <2>1, FirstIsRead
  <2>3. w.cut => \E i \in R : TRUE
    BY <2>2
  <2> HIDE DEF e, R
  <2> QED BY <1>1, <2>3
<1>10. {x.file : x \in w.read} \subseteq Files \cap FilesIn(tree)
  BY <1>4, <1>6 DEF FilesIn
<1>11. FilesIn(tree) # {} => \E x \in w.read : x.file \in FilesIn(tree)
  BY <1>6, <1>7
<1>12. Honest(w, n, tree, spend)
  <2> HIDE DEF R
  <2>1. Cardinality(w.read) <= spend
    BY <1>3, <1>5
  <2>2. w.cut \in BOOLEAN
    BY <1>2
  <2> QED BY <1>5, <1>8, <1>9, <1>10, <1>11, <2>1, <2>2 DEF Honest
<1>13. Cardinality(w.read) <= Cardinality(Texts(tree))
  <2> HIDE DEF R
  <2> QED BY <1>3, <1>4, <1>5
<1> QED BY <1>12, <1>13 DEF w

\* The same of the walk of a root; one that is a link is passed over.
LEMMA RootWalkIsHonest ==
    ASSUME NEW r \in Root, NEW spend \in Nat \ {0}, NEW n
    PROVE  LET w == WalkForKeys(n, r, spend)
           IN  /\ r.real = "folder" => Honest(w, n, r.tree, spend)
               /\ r.real # "folder" => w = [read |-> {}, cut |-> FALSE]
<1>1. r.tree \in Seq(Entries)
  BY DEF Root
<1> QED BY <1>1, WalkIsHonest DEF WalkForKeys

-----------------------------------------------------------------------------
(* Keys. *)

PlacesOf(hits) == {Place(h) : h \in hits}

\* What is found in files is the keys they hold, up to the limit for each.
LEMMA FilesGiveKeys ==
    ASSUME disk \in Disks, NEW xs, IsFiniteSet(xs), \A x \in xs : x.file \in Files
    PROVE  /\ IsFiniteSet(ScanFiles(xs))
           /\ PlacesOf(ScanFiles(xs)) = KeysIn({x.file : x \in xs})
<1> DEFINE hit(x, k) == [at |-> <<x.walk, x.entry, k>>, file |-> x.file, key |-> disk.keys[x.file][k]]
<1>1. ASSUME NEW f \in Files
      PROVE  IsFiniteSet(Legible(f)) /\ \A k \in Legible(f) : disk.keys[f][k] \in Keys
  <2>1. disk.keys[f] \in Seq(Keys) /\ Len(disk.keys[f]) \in Nat
    BY DisksAssumption
  <2>2. Legible(f) \subseteq 1..Len(disk.keys[f])
    BY <2>1 DEF Legible
  <2>3. IsFiniteSet(1..Len(disk.keys[f]))
    BY <2>1, FS_Interval
  <2> QED BY <2>1, <2>2, <2>3, FS_Subset
<1>2. ASSUME NEW x \in xs
      PROVE  ScanFile(x) = {hit(x, k) : k \in Legible(x.file)} /\ IsFiniteSet(ScanFile(x))
  <2>1. ScanFile(x) = {hit(x, k) : k \in Legible(x.file)}
    BY DEF ScanFile
  <2> DEFINE f == [k \in Legible(x.file) |-> hit(x, k)]
  <2>3. f \in Surjection(Legible(x.file), ScanFile(x))
    BY <2>1 DEF Surjection
  <2> HIDE DEF f
  <2>4. IsFiniteSet(Legible(x.file))
    BY <1>1
  <2> QED BY <2>1, <2>3, <2>4, FS_Surjection
<1>3. IsFiniteSet(ScanFiles(xs))
  <2> DEFINE g == [x \in xs |-> ScanFile(x)]
             T == {ScanFile(x) : x \in xs}
  <2>1. g \in Surjection(xs, T)
    BY DEF Surjection
  <2>2. \A S \in T : IsFiniteSet(S)
    BY <1>2
  <2>3. IsFiniteSet(T)
    <3> HIDE DEF g, T
    <3> QED BY <2>1, FS_Surjection
  <2>4. IsFiniteSet(UNION T)
    <3> HIDE DEF T
    <3> QED BY <2>2, <2>3, FS_UNION
  <2> QED BY <2>4 DEF ScanFiles
<1>4. \A h : h \in ScanFiles(xs) <=> \E x \in xs : \E k \in Legible(x.file) : h = hit(x, k)
  BY <1>2 DEF ScanFiles
<1>5. \A x, k : Place(hit(x, k)) = <<x.file, disk.keys[x.file][k]>>
  BY DEF Place
<1>6. \A p : p \in KeysIn({x.file : x \in xs})
             <=> p \in {x.file : x \in xs} \X Keys /\ \E k \in Legible(p[1]) : disk.keys[p[1]][k] = p[2]
  BY DEF KeysIn
<1> HIDE DEF hit
<1>7. ASSUME NEW p \in PlacesOf(ScanFiles(xs)) PROVE p \in KeysIn({x.file : x \in xs})
  <2>1. PICK x \in xs : \E k \in Legible(x.file) : p = <<x.file, disk.keys[x.file][k]>>
    BY <1>4, <1>5, <1>7 DEF PlacesOf
  <2>2. PICK k \in Legible(x.file) : p = <<x.file, disk.keys[x.file][k]>>
    BY <2>1
  <2>3. disk.keys[x.file][k] \in Keys /\ p[1] = x.file /\ p[2] = disk.keys[x.file][k]
    BY <1>1, <2>2
  <2> QED BY <1>6, <2>2, <2>3
<1>8. ASSUME NEW p \in KeysIn({x.file : x \in xs}) PROVE p \in PlacesOf(ScanFiles(xs))
  <2>1. /\ p \in {x.file : x \in xs} \X Keys
        /\ \E k \in Legible(p[1]) : disk.keys[p[1]][k] = p[2]
    BY <1>6, <1>8
  <2>2. PICK x \in xs : p[1] = x.file
    BY <2>1
  <2>3. PICK k \in Legible(x.file) : p = <<x.file, disk.keys[x.file][k]>>
    BY <2>1, <2>2
  <2>4. hit(x, k) \in ScanFiles(xs) /\ Place(hit(x, k)) = p
    BY <1>4, <1>5, <2>3
  <2> QED BY <2>4 DEF PlacesOf
<1> QED BY <1>3, <1>7, <1>8

\* Of each place where a key was met, one is kept.
LEMMA DedupedOnce ==
    ASSUME NEW hits, IsFiniteSet(hits)
    PROVE  /\ IsFiniteSet(Deduped(hits)) /\ PlacesOf(Deduped(hits)) = PlacesOf(hits)
           /\ Cardinality(Deduped(hits)) = Cardinality(PlacesOf(hits))
           /\ hits # {} => Deduped(hits) # {}
<1> DEFINE P == PlacesOf(hits)
           one(p) == CHOOSE h \in hits : Place(h) = p
           f == [p \in P |-> one(p)]
<1>1. \A p \in P : one(p) \in hits /\ Place(one(p)) = p
  BY DEF PlacesOf
<1>2. Deduped(hits) = {one(p) : p \in P}
  BY DEF Deduped, PlacesOf
<1>3. IsFiniteSet(P)
  <2> DEFINE g == [h \in hits |-> Place(h)]
  <2>1. g \in Surjection(hits, P)
    BY DEF Surjection, PlacesOf
  <2> HIDE DEF g, P
  <2> QED BY <2>1, FS_Surjection
<1>4. f \in Bijection(P, Deduped(hits))
  <2>1. f \in Surjection(P, Deduped(hits))
    BY <1>2 DEF Surjection
  <2>2. \A p, q \in P : f[p] = f[q] => p = q
    <3>1. \A p \in P : Place(f[p]) = p
      BY <1>1
    <3> HIDE DEF f, P
    <3> QED BY <3>1
  <2> HIDE DEF f, P
  <2>3. f \in [P -> Deduped(hits)]
    BY <2>1 DEF Surjection
  <2>4. f \in Injection(P, Deduped(hits))
    BY <2>2, <2>3 DEF Injection, IsInjective
  <2> QED BY <2>1, <2>4 DEF Bijection
<1>5. PlacesOf(Deduped(hits)) = {Place(one(p)) : p \in P}
  <2> HIDE DEF one, P
  <2> QED BY <1>2 DEF PlacesOf
<1>6. {Place(one(p)) : p \in P} = P
  <2> HIDE DEF one, P
  <2> QED BY <1>1
<1>7. hits # {} => P # {}
  BY DEF PlacesOf
<1> HIDE DEF f, P, one
<1> QED BY <1>2, <1>3, <1>4, <1>5, <1>6, <1>7, FS_Bijection DEF P, ExistsBijection

\* Keys from more files are the keys from each.
LEMMA PlacesAdd ==
    ASSUME NEW A, NEW B
    PROVE  /\ PlacesOf(A \cup B) = PlacesOf(A) \cup PlacesOf(B)
           /\ KeysIn(A \cup B) = KeysIn(A) \cup KeysIn(B)
<1>1. PlacesOf(A \cup B) = PlacesOf(A) \cup PlacesOf(B)
  BY DEF PlacesOf
<1>2. ASSUME NEW p PROVE p \in KeysIn(A \cup B) <=> p \in KeysIn(A) \/ p \in KeysIn(B)
  BY DEF KeysIn
<1> QED BY <1>1, <1>2

-----------------------------------------------------------------------------
(* The budget. *)

\* A root may read one file at least, and leaves the others one each if it had more.
LEMMA SharesLast ==
    ASSUME NEW left \in Int, NEW roots \in Nat \ {0}
    PROVE  /\ Share(left, roots) \in Nat \ {0}
           /\ left < roots => Share(left, roots) = 1
           /\ left >= roots => left - Share(left, roots) >= roots - 1
<1>1. CASE left < roots
  BY <1>1 DEF Share
<1>2. CASE left >= roots
  <2> DEFINE q == left \div roots
  <2>1. q \in Int /\ roots * q <= left /\ left < roots * q + roots
    BY <1>2
  <2>2. Share(left, roots) = q
    BY <1>2 DEF Share
  <2> HIDE DEF q
  <2>3. q >= 1
    <3> SUFFICES ASSUME q <= 0 PROVE FALSE
      BY <2>1
    <3>1. roots * q <= 0
      BY <2>1
    <3> QED BY <1>2, <2>1, <3>1
  <2>4. (roots - 1) * (q - 1) >= 0
    BY <2>1, <2>3
  <2>5. roots * q - q >= roots - 1
    BY <2>1, <2>4
  <2> QED BY <1>2, <2>1, <2>2, <2>3, <2>5
<1> QED BY <1>1, <1>2

\* The greater of two numbers is no less than either.
LEMMA MaxOfTwo ==
    ASSUME NEW a \in Int, NEW b \in Int
    PROVE  a <= Max({a, b}) /\ b <= Max({a, b}) /\ Max({a, b}) \in Int
<1>1. CASE a <= b
  <2>1. Max({a, b}) = b
    BY <1>1 DEF Max
  <2> QED BY <1>1, <2>1
<1>2. CASE ~(a <= b)
  <2>1. Max({a, b}) = a
    BY <1>2 DEF Max
  <2> QED BY <1>2, <2>1
<1> QED BY <1>1, <1>2

\* The lesser of two is one of them, and nothing below both is above it.
LEMMA MinOfTwo ==
    ASSUME NEW a \in Int, NEW b \in Int
    PROVE  /\ Min({a, b}) \in {a, b}
           /\ \A c \in Int : c <= a /\ c <= b => c <= Min({a, b})
<1>1. CASE a <= b
  <2>1. Min({a, b}) = a
    BY <1>1 DEF Min
  <2> QED BY <1>1, <2>1
<1>2. CASE ~(a <= b)
  <2>1. Min({a, b}) = b
    BY <1>2 DEF Min
  <2> QED BY <1>2, <2>1
<1> QED BY <1>1, <1>2

-----------------------------------------------------------------------------
(* The search as a whole. *)

SearchTyped ==
    /\ disk \in Disks /\ todo \subseteq DOMAIN disk.roots
    /\ budget \in Int /\ cut \in BOOLEAN
    /\ IsFiniteSet(read) /\ FilesRead \subseteq Files
    /\ searched \in Seq([root : DOMAIN disk.roots, cut : BOOLEAN])
    /\ IsFiniteSet(hist) /\ IsFiniteSet(cfg)
    /\ PlacesOf(hist) \cup PlacesOf(cfg) \subseteq Files \X Keys

FromHome == Min({MaxFiles, Cardinality(Texts(HomeListing))})

\* The budget that is left covers the roots that are left, or no root read more
\* than one file.
Spent ==
    /\ Cardinality(read) <= MaxFiles - budget
    /\ Cardinality(todo) <= budget \/ MaxFiles - budget <= FromHome + Len(searched)

\* A search is cut short in a walk that read something.
Scoped == cut => read # {}

SearchInv == SearchTyped /\ Spent /\ Scoped /\ EveryRootIsReached /\ UnreadIsMarked

\* What a disk is.
LEMMA DiskIsTyped ==
    ASSUME disk \in Disks
    PROVE  /\ HomeListing \in Seq(Entries) /\ disk.known \in Seq(Entries)
           /\ disk.history \in Seq(Entries) /\ disk.roots \in Seq(Root)
           /\ Cardinality(Texts(HomeListing)) \in Nat /\ FromHome \in Nat
           /\ \A i \in DOMAIN disk.roots : disk.roots[i] \in Root
           /\ IsFiniteSet(DOMAIN disk.roots) /\ DOMAIN disk.roots \subseteq Nat
<1>1. /\ HomeListing \in Seq(Entries) /\ disk.known \in Seq(Entries)
      /\ disk.history \in Seq(Entries) /\ disk.roots \in Seq(Root)
  BY DisksAssumption DEF HomeListing
<1>2. Cardinality(Texts(HomeListing)) \in Nat
  BY <1>1, TextsAreFew, FS_CardinalityType
<1>3. FromHome \in Nat
  BY <1>2, BudgetAssumption, MinOfTwo DEF FromHome
<1>4. IsFiniteSet(DOMAIN disk.roots) /\ DOMAIN disk.roots \subseteq Nat
  <2>1. Len(disk.roots) \in Nat /\ DOMAIN disk.roots = 1..Len(disk.roots)
    BY <1>1
  <2>2. \A n \in Nat : IsFiniteSet(1..n)
    BY FS_Interval
  <2> QED BY <2>1, <2>2
<1>5. \A i \in DOMAIN disk.roots : disk.roots[i] \in Root
  BY <1>1
<1> QED BY <1>1, <1>2, <1>3, <1>4, <1>5

\* What the walk of a root does.
RootStep(i, w, spend) ==
    /\ todo' = todo \ {i} /\ spend = Share(budget, Cardinality(todo))
    /\ disk.roots[i].real = "folder" => Honest(w, RootWalk, disk.roots[i].tree, spend)
    /\ disk.roots[i].real # "folder" => w = [read |-> {}, cut |-> FALSE]
    /\ IsFiniteSet(w.read) /\ Cardinality(w.read) \in 0..spend /\ w.cut \in BOOLEAN
    /\ {x.file : x \in w.read} \subseteq Files
    /\ read' = read \cup w.read /\ cut' = (cut \/ w.cut)
    /\ cfg' = cfg \cup ScanFiles(w.read)
    /\ budget' = budget - Cardinality(w.read)
    /\ searched' = Append(searched, [root |-> i, cut |-> w.cut])
    /\ UNCHANGED <<hist, disk>>

\* Walking a root is such a step.
LEMMA WalkRootSteps ==
    ASSUME SearchTyped, WalkRoot, UNCHANGED disk
    PROVE  \E i \in todo, spend \in Nat \ {0} : \E w : RootStep(i, w, spend)
<1> DEFINE i == Min(todo)
           spend == Share(budget, Cardinality(todo))
           w == WalkForKeys(RootWalk, disk.roots[i], spend)
<1>1. todo \in SUBSET Nat /\ IsFiniteSet(todo) /\ todo # {}
  BY DiskIsTyped, FS_Subset DEF SearchTyped, WalkRoot
<1>2. i \in todo /\ disk.roots[i] \in Root
  BY <1>1, MinIsMember, DiskIsTyped DEF SearchTyped
<1>3. Cardinality(todo) \in Nat \ {0}
  BY <1>1, FS_CardinalityType, FS_EmptySet
<1>4. spend \in Nat \ {0}
  BY <1>3, SharesLast DEF SearchTyped
<1>5. /\ todo' = todo \ {i} /\ read' = read \cup w.read /\ cut' = (cut \/ w.cut)
      /\ cfg' = cfg \cup ScanFiles(w.read) /\ budget' = budget - Cardinality(w.read)
      /\ searched' = Append(searched, [root |-> i, cut |-> w.cut])
      /\ UNCHANGED hist
  BY DEF WalkRoot, Charged
<1> HIDE DEF i, spend
<1>6. /\ disk.roots[i].real = "folder" => Honest(w, RootWalk, disk.roots[i].tree, spend)
      /\ disk.roots[i].real # "folder" => w = [read |-> {}, cut |-> FALSE]
  BY <1>2, <1>4, RootWalkIsHonest
<1> HIDE DEF w
<1>7. /\ IsFiniteSet(w.read) /\ Cardinality(w.read) \in 0..spend /\ w.cut \in BOOLEAN
      /\ {x.file : x \in w.read} \subseteq Files
  <2>1. CASE disk.roots[i].real = "folder"
    BY <1>4, <1>6, <2>1 DEF Honest
  <2>2. CASE disk.roots[i].real # "folder"
    <3>1. w.read = {} /\ w.cut = FALSE
      BY <1>6, <2>2
    <3>2. IsFiniteSet({}) /\ Cardinality({}) = 0
      BY FS_EmptySet
    <3>3. {x.file : x \in w.read} = {}
      BY <3>1
    <3>4. Cardinality(w.read) \in 0..spend
      BY <1>4, <3>1, <3>2
    <3>5. w.cut \in BOOLEAN
      BY <3>1
    <3> QED BY <3>1, <3>2, <3>3, <3>4, <3>5
  <2> QED BY <2>1, <2>2
<1>8. RootStep(i, w, spend)
  BY <1>5, <1>6, <1>7 DEF RootStep, spend
<1> QED BY <1>2, <1>4, <1>8

\* What is found in files that were read are keys in files.
LEMMA FoundIsTyped ==
    ASSUME disk \in Disks, NEW xs, IsFiniteSet(xs), {x.file : x \in xs} \subseteq Files
    PROVE  IsFiniteSet(ScanFiles(xs)) /\ PlacesOf(ScanFiles(xs)) \subseteq Files \X Keys
<1>1. IsFiniteSet(ScanFiles(xs)) /\ PlacesOf(ScanFiles(xs)) = KeysIn({x.file : x \in xs})
  BY FilesGiveKeys
<1> QED BY <1>1 DEF KeysIn

\* The walk of a root keeps everything the search promises.
LEMMA WalkRootKeeps == ASSUME SearchInv, WalkRoot, UNCHANGED disk PROVE SearchInv'
<1>1. PICK i \in todo, spend \in Nat \ {0} : \E w : RootStep(i, w, spend)
  BY WalkRootSteps DEF SearchInv
<1>2. PICK w : RootStep(i, w, spend)
  BY <1>1
<1> DEFINE new == {x.file : x \in w.read}
<1>3. FilesRead' = FilesRead \cup new
  BY <1>2 DEF RootStep, FilesRead
<1>4. /\ IsFiniteSet(todo) /\ Cardinality(todo) \in Nat /\ Cardinality(todo') = Cardinality(todo) - 1
      /\ Cardinality(todo) # 0 /\ todo' \subseteq todo
  <2>1. IsFiniteSet(todo)
    BY DiskIsTyped, FS_Subset DEF SearchInv, SearchTyped
  <2> QED BY <1>2, <2>1, FS_CardinalityType, FS_EmptySet, FS_RemoveElement DEF RootStep
<1>5. /\ IsFiniteSet(read') /\ Cardinality(read') \in Nat
      /\ Cardinality(read') <= Cardinality(read) + Cardinality(w.read)
  <2>1. IsFiniteSet(read) /\ IsFiniteSet(w.read) /\ read' = read \cup w.read
    BY <1>2 DEF RootStep, SearchInv, SearchTyped
  <2>2. Cardinality(read \cap w.read) \in Nat
    BY <2>1, FS_Subset, FS_CardinalityType
  <2>3. Cardinality(read) \in Nat /\ Cardinality(w.read) \in Nat
    BY <2>1, FS_CardinalityType
  <2>4. /\ IsFiniteSet(read \cup w.read)
        /\ Cardinality(read \cup w.read) =
               Cardinality(read) + Cardinality(w.read) - Cardinality(read \cap w.read)
    BY <2>1, FS_Union
  <2> QED BY <2>1, <2>2, <2>3, <2>4, FS_CardinalityType
<1>6. /\ searched' \in Seq([root : DOMAIN disk.roots, cut : BOOLEAN])
      /\ Len(searched) \in Nat /\ Len(searched') = Len(searched) + 1
      /\ \A k \in DOMAIN searched : searched'[k] = searched[k]
      /\ searched'[Len(searched) + 1] = [root |-> i, cut |-> w.cut]
      /\ DOMAIN searched' = DOMAIN searched \cup {Len(searched) + 1}
  <2>1. searched \in Seq([root : DOMAIN disk.roots, cut : BOOLEAN])
        /\ [root |-> i, cut |-> w.cut] \in [root : DOMAIN disk.roots, cut : BOOLEAN]
    BY <1>2 DEF RootStep, SearchInv, SearchTyped
  <2> QED BY <1>2, <2>1 DEF RootStep
<1>7. SearchTyped'
  <2>1. IsFiniteSet(ScanFiles(w.read)) /\ PlacesOf(ScanFiles(w.read)) \subseteq Files \X Keys
    BY <1>2, FoundIsTyped DEF RootStep, SearchInv, SearchTyped
  <2>2. IsFiniteSet(cfg') /\ PlacesOf(cfg)' \subseteq Files \X Keys
    <3>1. cfg' = cfg \cup ScanFiles(w.read) /\ IsFiniteSet(cfg) /\ PlacesOf(cfg) \subseteq Files \X Keys
      BY <1>2 DEF RootStep, SearchInv, SearchTyped
    <3>2. PlacesOf(cfg)' = PlacesOf(cfg) \cup PlacesOf(ScanFiles(w.read))
      BY <3>1 DEF PlacesOf
    <3> QED BY <2>1, <3>1, <3>2, FS_Union
  <2>3. PlacesOf(hist)' = PlacesOf(hist)
    BY <1>2 DEF RootStep, PlacesOf
  <2>4. budget' \in Int /\ cut' \in BOOLEAN /\ FilesRead' \subseteq Files
    BY <1>2, <1>3 DEF RootStep, SearchInv, SearchTyped
  <2> QED BY <1>2, <1>4, <1>5, <1>6, <2>2, <2>3, <2>4 DEF RootStep, SearchInv, SearchTyped
<1>8. Spent'
  <2> DEFINE used == Cardinality(w.read)
             left == Cardinality(todo)
  <2>1. /\ used \in 0..spend /\ budget' = budget - used /\ budget \in Int /\ MaxFiles \in Nat
        /\ Cardinality(read) \in Nat
    BY <1>2, BudgetAssumption, FS_CardinalityType DEF RootStep, SearchInv, SearchTyped
  <2>2. Cardinality(read) <= MaxFiles - budget
    BY DEF SearchInv, Spent
  <2>3. Cardinality(read') <= MaxFiles - budget'
    BY <1>5, <2>1, <2>2
  <2>4. /\ budget < left => spend = 1
        /\ budget >= left => budget - spend >= left - 1
    <3>1. spend = Share(budget, left) /\ left \in Nat \ {0}
      BY <1>2, <1>4 DEF RootStep
    <3> QED BY <2>1, <3>1, SharesLast
  <2>5. left <= budget \/ MaxFiles - budget <= FromHome + Len(searched)
    BY DEF SearchInv, Spent
  <2>6. FromHome' = FromHome /\ FromHome \in Nat
    BY <1>2, DiskIsTyped DEF RootStep, SearchInv, SearchTyped, FromHome, HomeListing
  <2>7. Cardinality(todo') <= budget' \/ MaxFiles - budget' <= FromHome' + Len(searched')
    BY <1>4, <1>6, <2>1, <2>4, <2>5, <2>6
  <2> QED BY <2>3, <2>7 DEF Spent
<1>9. Scoped'
  <2>1. w.cut => w.read # {}
    BY <1>2 DEF RootStep, Honest
  <2> QED BY <1>2, <2>1 DEF RootStep, SearchInv, Scoped
<1>10. EveryRootIsReached'
  <2>1. ASSUME disk.roots[i].real = "folder", FilesIn(disk.roots[i].tree) # {}
        PROVE  FilesIn(disk.roots[i].tree) \cap new # {}
    BY <1>2, <2>1 DEF RootStep, Honest
  <2>2. UNCHANGED disk /\ searched'[Len(searched) + 1].root = i
    BY <1>6
  <2> HIDE DEF new
  <2>3. ASSUME NEW k \in DOMAIN searched',
               RootWalked(k)'.real = "folder", FilesIn(RootWalked(k)'.tree) # {}
        PROVE  FilesIn(RootWalked(k)'.tree) \cap FilesRead' # {}
    <3>1. CASE k \in DOMAIN searched
      <4>1. RootWalked(k)' = RootWalked(k)
        BY <1>6, <3>1 DEF RootWalked
      <4> QED BY <1>3, <2>3, <3>1, <4>1 DEF SearchInv, EveryRootIsReached
    <3>2. CASE k = Len(searched) + 1
      <4>1. RootWalked(k)' = disk.roots[i]
        BY <2>2, <3>2 DEF RootWalked
      <4> QED BY <1>3, <2>1, <2>3, <4>1
    <3> QED BY <1>6, <3>1, <3>2
  <2> QED BY <2>3 DEF EveryRootIsReached, FilesIn, Texts
<1>11. UnreadIsMarked'
  <2>1. ASSUME disk.roots[i].real = "folder", ~(FilesIn(disk.roots[i].tree) \subseteq new)
        PROVE  w.cut
    BY <1>2, <2>1 DEF RootStep, Honest
  <2>2. UNCHANGED disk /\ searched'[Len(searched) + 1] = [root |-> i, cut |-> w.cut]
        /\ cut' = (cut \/ w.cut)
    BY <1>2, <1>6 DEF RootStep
  <2> HIDE DEF new
  <2>3. ASSUME NEW k \in DOMAIN searched',
               RootWalked(k)'.real = "folder", ~(FilesIn(RootWalked(k)'.tree) \subseteq FilesRead')
        PROVE  searched'[k].cut /\ cut'
    <3>1. CASE k \in DOMAIN searched
      <4>1. RootWalked(k)' = RootWalked(k) /\ searched'[k] = searched[k]
        BY <1>6, <3>1 DEF RootWalked
      <4> QED BY <1>3, <2>2, <2>3, <3>1, <4>1 DEF SearchInv, UnreadIsMarked
    <3>2. CASE k = Len(searched) + 1
      <4>1. RootWalked(k)' = disk.roots[i]
        BY <2>2, <3>2 DEF RootWalked
      <4>2. w.cut
        BY <1>3, <2>1, <2>3, <4>1
      <4>3. searched'[k].cut = w.cut
        BY <2>2, <3>2
      <4> QED BY <2>2, <4>2, <4>3
    <3> QED BY <1>6, <3>1, <3>2
  <2> QED BY <2>3 DEF UnreadIsMarked, FilesIn, Texts
<1> QED BY <1>7, <1>8, <1>9, <1>10, <1>11 DEF SearchInv

\* Before anything is walked.
Unwalked ==
    /\ disk \in Disks
    /\ todo = {} /\ budget = MaxFiles /\ read = {} /\ cut = FALSE /\ searched = <<>>

KeysTyped ==
    /\ IsFiniteSet(hist) /\ IsFiniteSet(cfg)
    /\ PlacesOf(hist) \cup PlacesOf(cfg) \subseteq Files \X Keys

\* A search that has only read the files known by name promises nothing yet.
LEMMA UnwalkedIsFine == Unwalked /\ KeysTyped => SearchInv
<1> SUFFICES ASSUME Unwalked, KeysTyped PROVE SearchInv
  OBVIOUS
<1>1. IsFiniteSet({}) /\ Cardinality({}) = 0 /\ MaxFiles \in Nat
  BY FS_EmptySet, BudgetAssumption
<1>2. SearchTyped
  <2>1. FilesRead = {}
    BY DEF Unwalked, FilesRead
  <2>2. searched \in Seq([root : DOMAIN disk.roots, cut : BOOLEAN])
    BY DEF Unwalked
  <2>3. cut \in BOOLEAN
    BY DEF Unwalked
  <2>4. todo \subseteq DOMAIN disk.roots /\ budget \in Int /\ IsFiniteSet(read) /\ disk \in Disks
    BY <1>1 DEF Unwalked
  <2> QED BY <2>1, <2>2, <2>3, <2>4 DEF KeysTyped, SearchTyped
<1>3. Spent /\ Scoped
  BY <1>1 DEF Unwalked, Spent, Scoped
<1>4. EveryRootIsReached /\ UnreadIsMarked
  BY DEF Unwalked, EveryRootIsReached, UnreadIsMarked
<1> QED BY <1>2, <1>3, <1>4 DEF SearchInv

\* At the start.
LEMMA InitSearch ==
    ASSUME KeySearchInit, disk \in Disks
    PROVE  Unwalked /\ SearchInv
<1>1. Unwalked
  BY DEF KeySearchInit, Unwalked
<1>2. PlacesOf(hist) = {} /\ PlacesOf(cfg) = {}
  BY DEF KeySearchInit, PlacesOf
<1>3. IsFiniteSet(hist) /\ IsFiniteSet(cfg)
  BY FS_EmptySet DEF KeySearchInit
<1> QED BY <1>1, <1>2, <1>3, UnwalkedIsFine DEF KeysTyped

\* Every file of a folder is read when nothing limits the walk.
LEMMA AllIsFiles ==
    ASSUME NEW tree \in Seq(Entries), NEW n
    PROVE  /\ IsFiniteSet(All(n, tree)) /\ {x.file : x \in All(n, tree)} = FilesIn(tree)
           /\ FilesIn(tree) \subseteq Files
<1> DEFINE e(i) == [walk |-> n, entry |-> i, file |-> tree[i].file]
           f == [i \in Texts(tree) |-> e(i)]
<1>1. All(n, tree) = {e(i) : i \in Texts(tree)}
  BY DEF All
<1>2. f \in Surjection(Texts(tree), All(n, tree))
  BY <1>1 DEF Surjection
<1>3. \A i : e(i).file = tree[i].file
  OBVIOUS
<1> HIDE DEF e, f
<1>4. {x.file : x \in All(n, tree)} = {tree[i].file : i \in Texts(tree)}
  BY <1>1, <1>3
<1> QED BY <1>2, <1>4, TextsAreFew, FS_Surjection DEF FilesIn

\* The files known by name are searched for their keys.
LEMMA ReadKnownKeeps ==
    ASSUME Unwalked, NEW h \in BOOLEAN, ReadKnown(h), UNCHANGED disk
    PROVE  /\ Unwalked' /\ SearchInv'
           /\ PlacesOf(cfg)' = KeysIn(FilesIn(disk.known))
<1>1. Unwalked'
  BY DEF Unwalked, ReadKnown
<1>2. disk \in Disks /\ disk.known \in Seq(Entries) /\ disk.history \in Seq(Entries)
  BY DiskIsTyped DEF Unwalked
<1> DEFINE kn == All(KnownWalk, disk.known)
           hs == All(KnownWalk, disk.history)
<1>3. /\ IsFiniteSet(kn) /\ {x.file : x \in kn} = FilesIn(disk.known)
      /\ IsFiniteSet(hs) /\ {x.file : x \in hs} \subseteq Files
      /\ {x.file : x \in kn} \subseteq Files
  BY <1>2, AllIsFiles
<1>4. cfg' = ScanFiles(kn) /\ hist' = IF h THEN ScanFiles(hs) ELSE {}
  BY DEF ReadKnown
<1> HIDE DEF kn, hs
<1>5. /\ IsFiniteSet(ScanFiles(kn)) /\ PlacesOf(ScanFiles(kn)) \subseteq Files \X Keys
      /\ IsFiniteSet(ScanFiles(hs)) /\ PlacesOf(ScanFiles(hs)) \subseteq Files \X Keys
      /\ PlacesOf(ScanFiles(kn)) = KeysIn(FilesIn(disk.known))
  BY <1>2, <1>3, FoundIsTyped, FilesGiveKeys
<1>6. PlacesOf(cfg)' = PlacesOf(ScanFiles(kn)) /\ IsFiniteSet(cfg')
  BY <1>4, <1>5 DEF PlacesOf
<1>7. PlacesOf(hist)' \subseteq Files \X Keys /\ IsFiniteSet(hist')
  <2>1. CASE h
    BY <1>4, <1>5, <2>1 DEF PlacesOf
  <2>2. CASE ~h
    BY <1>4, <2>2, FS_EmptySet DEF PlacesOf
  <2> QED BY <2>1, <2>2
<1>8. (Unwalked /\ KeysTyped => SearchInv)'
  BY UnwalkedIsFine, PTL
<1> QED BY <1>1, <1>5, <1>6, <1>7, <1>8 DEF KeysTyped

-----------------------------------------------------------------------------
(* What the walks come to together. *)

HomeTold == ~(FilesIn(HomeListing) \subseteq FilesRead) => cut

Counted == PlacesOf(cfg) = KeysIn(FilesIn(disk.known) \cup FilesRead)

Dealt(docs, named) ==
    SearchRoots(docs, named) = todo \cup {searched[i].root : i \in DOMAIN searched}

ReadIsThere ==
    FilesRead \subseteq FilesIn(HomeListing)
        \cup UNION {FilesIn(RootWalked(i).tree) :
                        i \in {i \in DOMAIN searched : RootWalked(i).real = "folder"}}

Walking(docs, named) == HomeTold /\ Counted /\ Dealt(docs, named) /\ ReadIsThere

\* What is on the disk does not depend on how far the search is.
LEMMA DiskDecides ==
    ASSUME UNCHANGED disk, NEW F, NEW docs, NEW named
    PROVE  /\ KeysIn(F)' = KeysIn(F) /\ SearchRoots(docs, named)' = SearchRoots(docs, named)
           /\ AskedFor(docs, named)' = AskedFor(docs, named)
BY DEF KeysIn, Legible, SearchRoots, AskedFor

\* Keys in what was read are added to those that were found before.
LEMMA CountedAdds ==
    ASSUME disk \in Disks, UNCHANGED disk, NEW F, PlacesOf(cfg) = KeysIn(F),
           NEW xs, IsFiniteSet(xs), NEW G, G = {x.file : x \in xs}, G \subseteq Files,
           cfg' = cfg \cup ScanFiles(xs), IsFiniteSet(cfg)
    PROVE  PlacesOf(cfg)' = KeysIn(F \cup G)' /\ IsFiniteSet(cfg')
<1>1. IsFiniteSet(ScanFiles(xs)) /\ PlacesOf(ScanFiles(xs)) = KeysIn(G)
  BY FilesGiveKeys
<1>2. PlacesOf(cfg)' = PlacesOf(cfg) \cup PlacesOf(ScanFiles(xs))
  BY DEF PlacesOf
<1>3. KeysIn(F \cup G) = KeysIn(F) \cup KeysIn(G)
  BY PlacesAdd
<1>4. KeysIn(F \cup G)' = KeysIn(F \cup G)
  BY DiskDecides
<1>5. IsFiniteSet(cfg')
  BY <1>1, FS_Union
<1> QED BY <1>1, <1>2, <1>3, <1>4, <1>5

\* The home folder is read as far as the budget goes, and the roots are listed.
LEMMA ReadHomeKeeps ==
    ASSUME Unwalked, KeysTyped, PlacesOf(cfg) = KeysIn(FilesIn(disk.known)),
           NEW docs, NEW named, ReadHome(docs, named), UNCHANGED disk
    PROVE  SearchInv' /\ Walking(docs, named)'
<1> DEFINE w == Walk(HomeWalk, HomeListing, budget)
           new == {x.file : x \in w.read}
<1>1. /\ disk \in Disks /\ HomeListing \in Seq(Entries) /\ disk.known \in Seq(Entries)
      /\ Cardinality(Texts(HomeListing)) \in Nat /\ FromHome \in Nat /\ budget \in Nat \ {0}
      /\ budget = MaxFiles
  BY DiskIsTyped, BudgetAssumption DEF Unwalked
<1>2. Honest(w, HomeWalk, HomeListing, budget) /\ Cardinality(w.read) <= Cardinality(Texts(HomeListing))
  BY <1>1, WalkIsHonest
<1>3. /\ read' = w.read /\ cut' = w.cut /\ cfg' = cfg \cup ScanFiles(w.read)
      /\ budget' = budget - Cardinality(w.read) /\ todo' = SearchRoots(docs, named)
      /\ searched' = <<>> /\ UNCHANGED hist
  BY DEF ReadHome, Charged, Unwalked
<1> HIDE DEF w
<1>4. FilesRead' = new /\ new \subseteq Files \cap FilesIn(HomeListing)
      /\ IsFiniteSet(w.read) /\ Cardinality(w.read) \in Nat /\ Cardinality(w.read) <= budget
      /\ w.cut \in BOOLEAN
  BY <1>2, <1>3 DEF FilesRead, Honest
<1>5. (Counted' /\ IsFiniteSet(cfg')) /\ PlacesOf(cfg)' \subseteq Files \X Keys
  <2>1. PICK F, G : F = FilesIn(disk.known) /\ G = new
    OBVIOUS
  <2>2. PlacesOf(cfg)' = KeysIn(F \cup G)' /\ IsFiniteSet(cfg')
    BY <1>1, <1>3, <1>4, <2>1, CountedAdds DEF KeysTyped
  <2>3. (FilesIn(disk.known) \cup FilesRead)' = F \cup G
    BY <1>4, <2>1
  <2>4. Counted'
    BY <2>2, <2>3 DEF Counted
  <2>5. F \cup G \subseteq Files
    BY <1>1, <1>4, <2>1, AllIsFiles
  <2>6. KeysIn(F \cup G)' \subseteq Files \X Keys
    BY <2>5 DEF KeysIn
  <2> QED BY <2>2, <2>4, <2>6
<1>6. SearchTyped'
  <2>1. todo' \subseteq DOMAIN disk'.roots
    BY <1>3 DEF SearchRoots, AskedFor
  <2>2. searched' \in Seq([root : DOMAIN disk.roots, cut : BOOLEAN])'
    BY <1>3
  <2>3. PlacesOf(hist)' \subseteq Files \X Keys /\ IsFiniteSet(hist')
    BY <1>3 DEF PlacesOf, KeysTyped
  <2>4. budget' \in Int /\ cut' \in BOOLEAN /\ IsFiniteSet(read') /\ FilesRead' \subseteq Files
    BY <1>1, <1>3, <1>4
  <2> QED BY <1>1, <1>5, <2>1, <2>2, <2>3, <2>4 DEF SearchTyped
<1>7. Spent'
  <2>1. FromHome' = FromHome /\ Cardinality(w.read) <= FromHome
    <3>1. FromHome' = FromHome
      BY DEF FromHome, HomeListing
    <3>2. Cardinality(w.read) <= FromHome
      BY <1>1, <1>2, <1>4, MinOfTwo DEF FromHome
    <3> QED BY <3>1, <3>2
  <2>2. Len(searched') = 0
    BY <1>3
  <2> QED BY <1>1, <1>3, <1>4, <2>1, <2>2 DEF Spent
<1>8. Scoped'
  BY <1>2, <1>3 DEF Scoped, Honest
<1>9. EveryRootIsReached' /\ UnreadIsMarked'
  BY <1>3 DEF EveryRootIsReached, UnreadIsMarked
<1>10. HomeTold'
  <2>1. FilesIn(HomeListing)' = FilesIn(HomeListing)
    BY DEF FilesIn, Texts, HomeListing
  <2> QED BY <1>2, <1>3, <1>4, <2>1 DEF HomeTold, Honest
<1>11. Dealt(docs, named)'
  BY <1>3, DiskDecides DEF Dealt
<1>12. ReadIsThere'
  BY <1>4 DEF ReadIsThere, FilesIn, Texts, HomeListing
<1> QED BY <1>5, <1>6, <1>7, <1>8, <1>9, <1>10, <1>11, <1>12 DEF SearchInv, Walking

\* One more root is dealt with, and what was read there is searched.
LEMMA WalkRootCounts ==
    ASSUME SearchInv, NEW docs, NEW named, Walking(docs, named), WalkRoot, UNCHANGED disk
    PROVE  Walking(docs, named)'
<1>1. PICK i \in todo, spend \in Nat \ {0} : \E w : RootStep(i, w, spend)
  BY WalkRootSteps DEF SearchInv
<1>2. PICK w : RootStep(i, w, spend)
  BY <1>1
<1> DEFINE new == {x.file : x \in w.read}
<1>3. FilesRead' = FilesRead \cup new /\ UNCHANGED disk
  BY <1>2 DEF RootStep, FilesRead
<1>4. /\ \A k \in DOMAIN searched : searched'[k] = searched[k]
      /\ searched'[Len(searched) + 1].root = i
      /\ DOMAIN searched' = DOMAIN searched \cup {Len(searched) + 1}
  <2>1. searched \in Seq([root : DOMAIN disk.roots, cut : BOOLEAN])
        /\ [root |-> i, cut |-> w.cut] \in [root : DOMAIN disk.roots, cut : BOOLEAN]
    BY <1>2 DEF RootStep, SearchInv, SearchTyped
  <2> QED BY <1>2, <2>1 DEF RootStep
<1>5. HomeTold'
  <2>1. FilesIn(HomeListing)' = FilesIn(HomeListing)
    BY <1>3 DEF FilesIn, Texts, HomeListing
  <2> QED BY <1>2, <1>3, <2>1 DEF RootStep, HomeTold, Walking
<1>6. Counted'
  <2>1. PICK F, G : F = FilesIn(disk.known) \cup FilesRead /\ G = new
    OBVIOUS
  <2>2. IsFiniteSet(w.read) /\ G \subseteq Files /\ cfg' = cfg \cup ScanFiles(w.read)
        /\ G = {x.file : x \in w.read}
    BY <1>2, <2>1 DEF RootStep
  <2>3. PlacesOf(cfg) = KeysIn(F) /\ IsFiniteSet(cfg) /\ disk \in Disks
    BY <2>1 DEF Walking, Counted, SearchInv, SearchTyped
  <2>4. PlacesOf(cfg)' = KeysIn(F \cup G)'
    BY <1>3, <2>2, <2>3, CountedAdds
  <2>5. (FilesIn(disk.known) \cup FilesRead)' = F \cup G
    BY <1>3, <2>1 DEF FilesIn, Texts
  <2> QED BY <2>4, <2>5 DEF Counted
<1>7. Dealt(docs, named)'
  <2>1. todo = todo' \cup {i}
    BY <1>2 DEF RootStep
  <2>2. {searched'[k].root : k \in DOMAIN searched'} = {searched[k].root : k \in DOMAIN searched} \cup {i}
    BY <1>4
  <2>3. SearchRoots(docs, named)' = SearchRoots(docs, named)
    BY <1>3, DiskDecides
  <2> QED BY <2>1, <2>2, <2>3 DEF Dealt, Walking
<1>8. ReadIsThere'
  <2>1. SUFFICES ASSUME NEW f \in FilesRead'
                 PROVE  \/ f \in FilesIn(HomeListing)'
                        \/ \E k \in DOMAIN searched' :
                               RootWalked(k)'.real = "folder" /\ f \in FilesIn(RootWalked(k)'.tree)
    BY DEF ReadIsThere, FilesIn, Texts
  <2>2. \A k \in DOMAIN searched : RootWalked(k)' = RootWalked(k)
    BY <1>3, <1>4 DEF RootWalked
  <2>3. \E k \in DOMAIN searched' : RootWalked(k)' = disk.roots[i]
    <3>1. PICK n : n = Len(searched) + 1
      OBVIOUS
    <3>2. n \in DOMAIN searched' /\ searched'[n].root = i
      BY <1>4, <3>1
    <3>3. RootWalked(n)' = disk.roots[i]
      BY <1>3, <3>2 DEF RootWalked
    <3> QED BY <3>2, <3>3
  <2>4. CASE f \in FilesRead
    <3>1. FilesIn(HomeListing)' = FilesIn(HomeListing)
      BY <1>3 DEF FilesIn, Texts, HomeListing
    <3> QED BY <1>4, <2>2, <2>4, <3>1 DEF Walking, ReadIsThere
  <2>5. CASE f \in new
    <3>1. disk.roots[i].real = "folder"
      <4>1. w.read # {}
        BY <2>5
      <4> QED BY <1>2, <4>1 DEF RootStep
    <3>2. f \in FilesIn(disk.roots[i].tree)
      BY <1>2, <2>5, <3>1 DEF RootStep, Honest
    <3> QED BY <2>3, <3>1, <3>2
  <2> QED BY <1>3, <2>1, <2>4, <2>5
<1> QED BY <1>5, <1>6, <1>7, <1>8 DEF Walking

\* To drop what was met twice keeps what was found.
LEMMA DedupeKeeps ==
    ASSUME SearchInv, Dedupe, UNCHANGED disk
    PROVE  /\ SearchInv' /\ todo' = {} /\ PlacesOf(cfg)' = PlacesOf(cfg)
           /\ Cardinality(cfg') = Cardinality(PlacesOf(cfg)')
           /\ UNCHANGED <<read, cut, searched, hist>>
<1>1. /\ cfg' = Deduped(cfg) /\ IsFiniteSet(cfg) /\ todo' = {}
      /\ UNCHANGED <<todo, budget, read, cut, searched, hist>>
  BY DEF Dedupe, SearchInv, SearchTyped
<1>2. IsFiniteSet(cfg') /\ PlacesOf(cfg)' = PlacesOf(cfg)
      /\ Cardinality(cfg') = Cardinality(PlacesOf(cfg)')
  <2>1. PlacesOf(cfg)' = PlacesOf(Deduped(cfg))
    BY <1>1 DEF PlacesOf
  <2> QED BY <1>1, <2>1, DedupedOnce
<1>3. SearchTyped'
  <2>1. FilesRead' = FilesRead /\ PlacesOf(hist)' = PlacesOf(hist)
    BY <1>1 DEF FilesRead, PlacesOf
  <2> QED BY <1>1, <1>2, <2>1 DEF SearchInv, SearchTyped
<1>4. Spent' /\ Scoped'
  BY <1>1 DEF SearchInv, Spent, Scoped, FromHome, HomeListing
<1>5. EveryRootIsReached' /\ UnreadIsMarked'
  BY <1>1 DEF SearchInv, EveryRootIsReached, UnreadIsMarked, RootWalked, FilesRead
<1> QED BY <1>1, <1>2, <1>3, <1>4, <1>5 DEF SearchInv

\* A search that stands still keeps what it promises.
LEMMA SearchStays ==
    ASSUME UNCHANGED <<disk, searching>>
    PROVE  /\ SearchInv => SearchInv'
           /\ Unwalked => Unwalked'
           /\ \A docs, named : Walking(docs, named) => Walking(docs, named)'
           /\ PlacesOf(cfg)' = PlacesOf(cfg) /\ PlacesOf(hist)' = PlacesOf(hist)
           /\ FilesRead' = FilesRead
<1>1. UNCHANGED <<disk, todo, budget, read, cut, searched, hist, cfg>>
  BY DEF searching
<1>2. FilesRead' = FilesRead /\ PlacesOf(cfg)' = PlacesOf(cfg) /\ PlacesOf(hist)' = PlacesOf(hist)
  BY <1>1 DEF FilesRead, PlacesOf
<1>3. SearchTyped => SearchTyped'
  BY <1>1, <1>2 DEF SearchTyped
<1>4. Spent /\ Scoped => Spent' /\ Scoped'
  BY <1>1 DEF Spent, Scoped, FromHome, HomeListing
<1>5. EveryRootIsReached /\ UnreadIsMarked => EveryRootIsReached' /\ UnreadIsMarked'
  BY <1>1, <1>2 DEF EveryRootIsReached, UnreadIsMarked, RootWalked
<1>6. Unwalked => Unwalked'
  BY <1>1 DEF Unwalked
<1>7. ASSUME NEW docs, NEW named, Walking(docs, named) PROVE Walking(docs, named)'
  <2>1. HomeTold' /\ ReadIsThere'
    BY <1>1, <1>2, <1>7 DEF Walking, HomeTold, HomeListing, ReadIsThere, RootWalked
  <2>2. Counted' /\ Dealt(docs, named)'
    BY <1>1, <1>2, <1>7 DEF Walking, Counted, Dealt, KeysIn, Legible, SearchRoots, AskedFor
  <2> QED BY <2>1, <2>2 DEF Walking
<1> QED BY <1>2, <1>3, <1>4, <1>5, <1>6, <1>7 DEF SearchInv

\* A search that no limit stopped has read the files that it owes a look, and no
\* other.
LEMMA WholeSearch ==
    ASSUME SearchInv, NEW docs, NEW named, Walking(docs, named), todo = {}, ~cut
    PROVE  FilesIn(disk.known) \cup FilesRead = InReach(docs, named)
<1> DEFINE asked == AskedFor(docs, named)
           there(i) == disk.roots[i].real = "folder"
<1>1. SearchRoots(docs, named) = {searched[i].root : i \in DOMAIN searched}
  BY DEF Walking, Dealt
<1>2. SearchRoots(docs, named) \subseteq ToldApart(docs, named)
  BY DEF SearchRoots, ToldApart
<1>3. disk \in Disks /\ disk.roots \in Seq(Root) /\ asked \subseteq DOMAIN disk.roots /\ asked \in SUBSET Nat
  BY DiskIsTyped DEF SearchInv, SearchTyped, AskedFor
<1>4. ASSUME NEW i \in ToldApart(docs, named), there(i)
      PROVE  FilesIn(disk.roots[i].tree) \subseteq FilesRead
  <2> DEFINE same == {j \in asked : disk.roots[j].fold = disk.roots[i].fold}
  <2>1. i \in asked /\ i \in same /\ same \in SUBSET Nat
    BY <1>3 DEF ToldApart
  <2> HIDE DEF same
  <2>2. PICK j \in same : \A k \in same : j <= k
    BY <2>1, Least
  <2>3. j \in asked /\ disk.roots[j].fold = disk.roots[i].fold /\ j <= i /\ j \in Nat /\ i \in Nat
    BY <1>3, <2>1, <2>2 DEF same
  <2>4. j \in SearchRoots(docs, named)
    <3>1. \A k \in asked : k < j => disk.roots[k].fold # disk.roots[j].fold
      BY <1>3, <2>2, <2>3 DEF same
    <3> QED BY <2>3, <3>1 DEF SearchRoots
  <2>5. disk.roots[j].path = disk.roots[i].path
    <3>1. CASE j = i
      BY <3>1
    <3>2. CASE j # i
      BY <2>3, <3>2 DEF ToldApart
    <3> QED BY <3>1, <3>2
  <2>6. disk.roots[j].real = "folder" /\ disk.roots[j].tree = disk.roots[i].tree
    <3>1. disk.roots[i] \in ToSet(disk.roots) /\ disk.roots[j] \in ToSet(disk.roots)
      BY <1>3, <2>1, <2>3 DEF ToSet
    <3> QED BY <1>3, <1>4, <2>5, <3>1, DisksAssumption
  <2>7. PICK k \in DOMAIN searched : RootWalked(k) = disk.roots[j]
    BY <1>1, <2>4 DEF RootWalked
  <2> QED BY <2>6, <2>7 DEF SearchInv, UnreadIsMarked
<1>5. FilesIn(HomeListing) \subseteq FilesRead
  BY DEF Walking, HomeTold
<1>6. FilesRead \subseteq InReach(docs, named)
  <2>1. SUFFICES ASSUME NEW f \in FilesRead, f \notin FilesIn(HomeListing)
                 PROVE  f \in InReach(docs, named)
    BY DEF InReach
  <2>2. PICK k \in DOMAIN searched : RootWalked(k).real = "folder" /\ f \in FilesIn(RootWalked(k).tree)
    BY <2>1 DEF Walking, ReadIsThere
  <2>3. searched[k].root \in ToldApart(docs, named)
    BY <1>1, <1>2
  <2> QED BY <2>2, <2>3 DEF RootWalked, InReach
<1>7. InReach(docs, named) \subseteq FilesIn(disk.known) \cup FilesRead
  BY <1>4, <1>5 DEF InReach
<1> QED BY <1>6, <1>7 DEF InReach

\* No more files are read than the budget has, but for one in each root.
LEMMA BudgetIsKept == SearchInv => BudgetHolds
<1> SUFFICES ASSUME SearchTyped, Spent PROVE BudgetHolds
  BY DEF SearchInv
<1>1. /\ Cardinality(read) \in Nat /\ Cardinality(todo) \in Nat /\ budget \in Int
      /\ MaxFiles \in Nat /\ FromHome \in Nat /\ Len(searched) \in Nat
  <2>1. IsFiniteSet(todo) /\ FromHome \in Nat
    BY DiskIsTyped, FS_Subset DEF SearchTyped
  <2> QED BY <2>1, BudgetAssumption, FS_CardinalityType DEF SearchTyped
<1>2. MaxFiles <= Max({MaxFiles, FromHome + Len(searched)})
      /\ FromHome + Len(searched) <= Max({MaxFiles, FromHome + Len(searched)})
      /\ Max({MaxFiles, FromHome + Len(searched)}) \in Int
  <2>1. PICK m \in Nat : m = FromHome + Len(searched)
    BY <1>1
  <2>2. MaxFiles \in Int /\ m \in Int
    BY <1>1
  <2>3. MaxFiles <= Max({MaxFiles, m}) /\ m <= Max({MaxFiles, m}) /\ Max({MaxFiles, m}) \in Int
    BY <2>2, MaxOfTwo
  <2> QED BY <2>1, <2>3
<1>3. Cardinality(read) <= Max({MaxFiles, FromHome + Len(searched)})
  BY <1>1, <1>2 DEF Spent
<1> QED BY <1>3 DEF BudgetHolds, FromHome
=============================================================================
