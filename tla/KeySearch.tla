------------------------------ MODULE KeySearch ------------------------------
(***************************************************************************)
(* The search for plaintext keys (checks/secrets.go, secretwalk.go).       *)
(* Files known by name are read first; then the text files in the home     *)
(* folder itself; then those under a list of roots, each with its share of *)
(* what is left of one budget of files.                                    *)
(*                                                                         *)
(* A folder is the sequence of entries a walk meets, in its order:         *)
(* "text", a file the search opens; "other", anything it meets and does    *)
(* not open (another kind of file, one too large or too deep, a skipped    *)
(* folder); "closed", a folder that cannot be read.                        *)
(***************************************************************************)
EXTENDS Integers, Sequences, FiniteSets, SequencesExt

CONSTANTS
    Files,       \* paths of files
    Keys,        \* places in a file where a key is: its line and masked value
    Disks,       \* what a machine can hold, see DisksAssumption
    MaxFiles,    \* the budget (walkMaxFiles, 600 in the code)
    MaxHits      \* keys reported of one file (40 in the code)

Entries == [file : Files, kind : {"text", "other", "closed"}]
Root == [path : STRING, fold : STRING,     \* its path, and that in lower case
         real : {"folder", "link", "missing"}, asked : {"ai", "docs", "named"},
         tree : Seq(Entries)]

ASSUME DisksAssumption ==
    \A d \in Disks :
        /\ d.home \in Seq(Entries) /\ d.shut \in BOOLEAN   \* shut: it cannot be listed
        /\ {d.known, d.history} \subseteq Seq(Entries)
        /\ d.roots \in Seq(Root)
        /\ \A r, s \in ToSet(d.roots) :   \* the path decides which folder it is
               r.path = s.path => r.fold = s.fold /\ r.real = s.real /\ r.tree = s.tree
        /\ d.keys \in [Files -> Seq(Keys)]
        /\ d.legible \in [Files -> Nat]   \* the keys before what cannot be read of a file
ASSUME BudgetAssumption == {MaxFiles, MaxHits} \subseteq Nat \ {0}

VARIABLES
    disk,      \* what is searched
    todo,      \* the roots left to walk, as positions in disk.roots
    budget,    \* files left to read
    read,      \* what was read: [walk, entry, file], the entry-th entry of that walk
    cut,       \* a limit stopped the search somewhere
    searched,  \* the roots walked: [root, cut], cut when stopped early
    hist, cfg  \* keys found in history files and everywhere else: [at, file, key],
               \* at being the walk and the entry, and which key of its file it is

searching == <<todo, budget, read, cut, searched, hist, cfg>>

KeySearchInit ==
    /\ todo = {} /\ budget = MaxFiles /\ read = {} /\ cut = FALSE
    /\ searched = <<>> /\ hist = {} /\ cfg = {}

-----------------------------------------------------------------------------
\* The walks: of the files known by name, of the home folder, of each root.
KnownWalk == 0
HomeWalk == 1
RootWalk == Len(searched) + 2

Texts(tree) == {i \in DOMAIN tree : tree[i].kind = "text"}

FilesIn(tree) == {tree[i].file : i \in Texts(tree)}

\* Every text file of a folder, as read in walk n.
All(n, tree) == {[walk |-> n, entry |-> i, file |-> tree[i].file] : i \in Texts(tree)}

\* scanFile: the keys of a file, MaxHits of them at most. A file that cannot be opened
\* has none, and a line of more than 1 MiB ends it, both without a word.
Legible(file) == {k \in DOMAIN disk.keys[file] : k <= MaxHits /\ k <= disk.legible[file]}

ScanFile(x) ==
    {[at |-> <<x.walk, x.entry, k>>, file |-> x.file, key |-> disk.keys[x.file][k]] :
        k \in Legible(x.file)}

ScanFiles(xs) == UNION {ScanFile(x) : x \in xs}

\* How many files are read before entry i, when nothing stops the walk.
Before(tree, i) == Cardinality({j \in Texts(tree) : j < i})

\* Mutant: a folder that cannot be read ends the walk.
WalkAborting(n, tree, spend) ==
    LET shut == {i \in DOMAIN tree : tree[i].kind = "closed"}
        t == IF shut = {} THEN tree ELSE SubSeq(tree, 1, Min(shut) - 1)
    IN  [read |-> {x \in All(n, t) : Before(t, x.entry) < spend},
         cut |-> \E i \in DOMAIN t : Before(t, i) >= spend]

\* A walk reads text files while it may, and stops at the first entry, of whatever
\* kind, that it meets with nothing left to spend.
Walk(n, tree, spend) ==
    [read |-> {x \in All(n, tree) : Before(tree, x.entry) < spend},
     cut |-> \E i \in DOMAIN tree : Before(tree, i) >= spend]

\* WalkDir does not enter a root that is a link.
WalkForKeys(n, root, spend) ==
    IF root.real = "folder" THEN Walk(n, root.tree, spend) ELSE [read |-> {}, cut |-> FALSE]

\* searchRoots: the roots that were asked for and are there, each path once; paths
\* that differ in case only count as one.
AskedFor(docs, named) ==
    {i \in DOMAIN disk.roots : /\ disk.roots[i].real # "missing"
                               /\ disk.roots[i].asked = "docs" => docs
                               /\ disk.roots[i].asked = "named" => named}

SearchRoots(docs, named) ==
    {i \in AskedFor(docs, named) :
        \A j \in AskedFor(docs, named) : j < i => disk.roots[j].fold # disk.roots[i].fold}

\* Mutant: a share can be nothing.
ShareOfNothing(left, roots) == IF left < 0 THEN 0 ELSE left \div roots
Share(left, roots) == IF left < roots THEN 1 ELSE left \div roots

\* Mutant: the budget is not charged with what a root used.
NotCharged(left, used) == left
Charged(left, used) == left - used

\* dedupeHits: of the same key at the same place one is kept.
Place(h) == <<h.file, h.key>>
Deduped(hits) == {CHOOSE h \in hits : Place(h) = p : p \in {Place(h) : h \in hits}}

-----------------------------------------------------------------------------
\* The files known by name, those of the shell history only when asked.
ReadKnown(history) ==
    /\ hist' = IF history THEN ScanFiles(All(KnownWalk, disk.history)) ELSE {}
    /\ cfg' = ScanFiles(All(KnownWalk, disk.known))
    /\ UNCHANGED <<todo, budget, read, cut, searched>>

\* homeTopLevel, and the list of what to walk next. A home folder that cannot be
\* listed gives nothing, and counts as searched.
HomeListing == IF disk.shut THEN <<>> ELSE disk.home

ReadHome(docs, named) ==
    LET w == Walk(HomeWalk, HomeListing, budget)
    IN  /\ read' = w.read
        /\ cfg' = cfg \cup ScanFiles(w.read)
        /\ budget' = Charged(budget, Cardinality(w.read))
        /\ cut' = w.cut
        /\ todo' = SearchRoots(docs, named)
        /\ UNCHANGED <<searched, hist>>

WalkRoot ==
    /\ todo # {}
    /\ LET i == Min(todo)
           w == WalkForKeys(RootWalk, disk.roots[i], Share(budget, Cardinality(todo)))
       IN  /\ read' = read \cup w.read
           /\ cfg' = cfg \cup ScanFiles(w.read)
           /\ budget' = Charged(budget, Cardinality(w.read))
           /\ cut' = (cut \/ w.cut)
           /\ searched' = Append(searched, [root |-> i, cut |-> w.cut])
           /\ todo' = todo \ {i}
    /\ UNCHANGED hist

Dedupe ==
    /\ todo = {}
    /\ cfg' = Deduped(cfg)
    /\ UNCHANGED <<todo, budget, read, cut, searched, hist>>

FilesRead == {x.file : x \in read}

\* Whether a finding says how far the search went: only when a file was read.
Scope == IF read = {} THEN "unsaid" ELSE IF cut THEN "cut" ELSE "whole"

-----------------------------------------------------------------------------
\* The budget bounds the whole search, whatever the folders hold: no more files are
\* read than it has, unless the home folder left less of it than there are roots;
\* then every root may still read one file, and none of them reads a second.
BudgetHolds ==
    Cardinality(read) <=
        Max({MaxFiles, Min({MaxFiles, Cardinality(Texts(HomeListing))}) + Len(searched)})

\* The keys that scanFile finds in files, each as a place.
KeysIn(files) ==
    {p \in files \X Keys :
        \E k \in Legible(p[1]) : disk.keys[p[1]][k] = p[2]}

\* The folders that were asked for, but of those whose paths differ only in case,
\* which the search takes for one, only the first.
ToldApart(docs, named) ==
    {i \in AskedFor(docs, named) :
        \A j \in AskedFor(docs, named) :
            j < i /\ disk.roots[j].fold = disk.roots[i].fold => disk.roots[j].path = disk.roots[i].path}

\* The files that the search owes a look.
InReach(docs, named) ==
    FilesIn(disk.known) \cup FilesIn(HomeListing)
    \cup UNION {FilesIn(disk.roots[i].tree) :
                   i \in {i \in ToldApart(docs, named) : disk.roots[i].real = "folder"}}

RootWalked(i) == disk.roots[searched[i].root]

\* A root may run out of room, but none is left out: however much the home folder
\* and earlier roots held, a text file was read in every root that has one and is
\* a folder (a root that is a link to a folder is named and not read).
EveryRootIsReached ==
    \A i \in DOMAIN searched :
        RootWalked(i).real = "folder" /\ FilesIn(RootWalked(i).tree) # {} =>
            FilesIn(RootWalked(i).tree) \cap FilesRead # {}

\* A text file that was met and not read is never passed over in silence: the root
\* it is in is marked as stopped early, and the search as cut short.
UnreadIsMarked ==
    \A i \in DOMAIN searched :
        RootWalked(i).real = "folder" /\ ~(FilesIn(RootWalked(i).tree) \subseteq FilesRead) =>
            searched[i].cut /\ cut
=============================================================================
