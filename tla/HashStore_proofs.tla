-------------------------- MODULE HashStore_proofs --------------------------
(***************************************************************************)
(* Proofs about the hash index on disk: whatever the corpora, the machines *)
(* and the downloads, and however many builds, installs and scans overlap, *)
(* fail, are killed or lose their power.                                   *)
(***************************************************************************)
EXTENDS HashStore, HashIndex_proofs

-----------------------------------------------------------------------------
(* The invariant. *)

Types ==
    /\ machine \in Machines /\ download \in Downloads
    /\ DOMAIN disk = Inodes
    /\ live \in Inodes \cup {None} /\ tmp \in Inodes \cup {None}
    /\ made \in [Inodes -> {"build", "install", "spoiled"}]
    /\ wpc \in [Writers -> WriterSteps] /\ DOMAIN job = Writers
    /\ wfd \in [Writers -> Inodes \cup {None}]
    /\ spc \in [Scans -> {"idle", "meta", "files", "done"}]
    /\ sfd \in [Scans -> Inodes \cup {None}]
    /\ DOMAIN table = Scans /\ DOMAIN hits = Scans /\ DOMAIN verdict = Scans
    /\ fault \in [Scans -> {"none", "read", "length"}]
    /\ at \in [Scans -> Nat \ {0}] /\ checked \in [Scans -> Nat]

\* An index of which only header and table are written.
Begun(c) == [table |-> Offsets(Sorted(c)), entries |-> <<>>]

Whole(x) == (\E c \in Corpora : x = Index(c)) \/ (\E d \in Downloads : x = d.file)

\* What is in a file that was written without company.
FileInv(i) ==
    /\ made[i] # "spoiled" => \/ disk[i] = Empty
                              \/ \E c \in Corpora : disk[i] = Begun(c)
                              \/ Whole(disk[i])
    /\ made[i] = "install" => i \in synced

\* No scan reads what still has the temporary name.
NamesInv == tmp # None => tmp # live /\ \A s \in Scans : sfd[s] # tmp

\* A build knows what is in its file as long as it has that to itself; an install
\* always has its file to itself.
Written(w) ==
    /\ wpc[w] = "table" => disk[wfd[w]] = Empty
    /\ wpc[w] = "entries" => disk[wfd[w]] = Begun(job[w])
    /\ wpc[w] = "rename" => disk[wfd[w]] = Index(job[w])

Own(w) ==
    /\ wfd[w] \notin {live, tmp}
    /\ \A v \in Writers \ {w} : wfd[v] # wfd[w]
    /\ \A s \in Scans : sfd[s] # wfd[w]

WriterInv(w) ==
    /\ wfd[w] # None <=> wpc[w] \in {"table", "entries", "rename", "place"}
    /\ wpc[w] # "idle" => job[w] \in Corpora
    /\ wfd[w] # None /\ made[wfd[w]] # "spoiled" =>
        /\ Written(w)
        /\ \A v \in Writers \ {w} : wfd[v] # wfd[w]
    /\ wpc[w] = "place" => Own(w)
    /\ w \in sealed => Verified(download)
    /\ w \in sealed /\ wpc[w] = "place" => disk[wfd[w]] = download.file

\* A scan has read its table from a whole file, and knows of the files it has
\* looked up which are in the corpus.
Looked(s) ==
    {machine.files[i].key : i \in {j \in DOMAIN machine.files :
                                      j < at[s] /\ IsHashed(machine.files[j])}}

Searched(s, c) ==
    /\ hits[s] = Looked(s) \cap c
    /\ checked[s] = 0 <=> Looked(s) = {}
    /\ IF spc[s] = "done"
       THEN \/ at[s] > Len(machine.files) /\ verdict[s] = Summary(hits[s], checked[s])
            \/ verdict[s] = "broken" /\ fault[s] = "read"
       ELSE verdict[s] = None

Watched(s) == sfd[s] # None /\ made[sfd[s]] # "spoiled" /\ fault[s] # "length"

ScanInv(s) ==
    /\ sfd[s] = None => spc[s] \in {"idle", "done"}
    /\ spc[s] = "idle" => /\ sfd[s] = None /\ at[s] = 1 /\ hits[s] = {}
                          /\ checked[s] = 0 /\ verdict[s] = None /\ fault[s] = "none"
    /\ Watched(s) =>
        /\ Accepts(disk[sfd[s]]) /\ Whole(disk[sfd[s]])
        /\ table[s] = disk[sfd[s]].table
        /\ \A c \in Corpora : disk[sfd[s]] = Index(c) => Searched(s, c)

IndInv ==
    /\ Types
    /\ \A i \in Inodes : FileInv(i)
    /\ NamesInv
    /\ \A w \in Writers : WriterInv(w)
    /\ \A s \in Scans : ScanInv(s)

-----------------------------------------------------------------------------
(* The files. *)

\* No file is none, and neither is an outcome.
LEMMA NoneIsApart ==
    /\ None \notin Inodes
    /\ None \notin {"none", "refused", "broken", "match", "nothing", "clean"}
BY DistinctAssumption

\* There is an inode for a new file, and nothing leads to it.
LEMMA FreshIsUnused ==
    ASSUME Types
    PROVE  Fresh \in Inodes /\ Unused(Fresh)
<1> DEFINE W == {wfd[w] : w \in Writers}
           S == {sfd[s] : s \in Scans}
           L == {live, tmp}
<1>1. IsFiniteSet(W) /\ Cardinality(W) <= Cardinality(Writers)
  <2>1. wfd \in Surjection(Writers, W)
    BY DEF Types, Surjection
  <2> QED BY <2>1, InodesAssumption, FS_Surjection
<1>2. IsFiniteSet(S) /\ Cardinality(S) <= Cardinality(Scans)
  <2>1. sfd \in Surjection(Scans, S)
    BY DEF Types, Surjection
  <2> QED BY <2>1, InodesAssumption, FS_Surjection
<1>3. IsFiniteSet(L) /\ Cardinality(L) <= 2
  <2>1. IsFiniteSet({live}) /\ Cardinality({live}) = 1
    BY FS_Singleton
  <2>2. IsFiniteSet({live} \cup {tmp}) /\ Cardinality({live} \cup {tmp}) <= 2
    BY <2>1, FS_AddElement
  <2>3. L = {live} \cup {tmp}
    OBVIOUS
  <2> QED BY <2>2, <2>3
<1> HIDE DEF W, S, L
<1>4. /\ IsFiniteSet(L \cup W) /\ IsFiniteSet((L \cup W) \cup S)
      /\ Cardinality((L \cup W) \cup S) <= Cardinality(Writers) + Cardinality(Scans) + 2
  <2>1. \A T, U : IsFiniteSet(T) /\ IsFiniteSet(U) =>
            /\ IsFiniteSet(T \cup U) /\ Cardinality(T \cup U) \in Nat
            /\ Cardinality(T) \in Nat /\ Cardinality(U) \in Nat
            /\ Cardinality(T \cup U) <= Cardinality(T) + Cardinality(U)
    <3> SUFFICES ASSUME NEW T, NEW U, IsFiniteSet(T), IsFiniteSet(U)
                 PROVE  /\ IsFiniteSet(T \cup U) /\ Cardinality(T \cup U) \in Nat
                        /\ Cardinality(T) \in Nat /\ Cardinality(U) \in Nat
                        /\ Cardinality(T \cup U) <= Cardinality(T) + Cardinality(U)
      OBVIOUS
    <3>1. /\ IsFiniteSet(T \cup U)
          /\ Cardinality(T \cup U) = Cardinality(T) + Cardinality(U) - Cardinality(T \cap U)
      BY FS_Union
    <3>2. IsFiniteSet(T \cap U)
      BY FS_Intersection
    <3>3. /\ Cardinality(T) \in Nat /\ Cardinality(U) \in Nat
          /\ Cardinality(T \cap U) \in Nat /\ Cardinality(T \cup U) \in Nat
      BY <3>1, <3>2, FS_CardinalityType
    <3> QED BY <3>1, <3>3
  <2>2. /\ IsFiniteSet(L \cup W) /\ Cardinality(L \cup W) \in Nat
        /\ Cardinality(L) \in Nat /\ Cardinality(W) \in Nat
        /\ Cardinality(L \cup W) <= Cardinality(L) + Cardinality(W)
    BY <1>1, <1>3, <2>1
  <2>3. /\ IsFiniteSet((L \cup W) \cup S) /\ Cardinality((L \cup W) \cup S) \in Nat
        /\ Cardinality(S) \in Nat
        /\ Cardinality((L \cup W) \cup S) <= Cardinality(L \cup W) + Cardinality(S)
    BY <1>2, <2>1, <2>2
  <2>4. Cardinality(Writers) \in Nat /\ Cardinality(Scans) \in Nat
    BY InodesAssumption, FS_CardinalityType
  <2> QED BY <1>1, <1>2, <1>3, <2>2, <2>3, <2>4
<1>5. \E i \in Inodes : i \notin (L \cup W) \cup S
  <2> SUFFICES ASSUME Inodes \in SUBSET ((L \cup W) \cup S) PROVE FALSE
    OBVIOUS
  <2>1. Cardinality(Inodes) <= Cardinality((L \cup W) \cup S)
    BY <1>4, FS_Subset
  <2>2. /\ Cardinality(Inodes) \in Nat /\ Cardinality((L \cup W) \cup S) \in Nat
        /\ Cardinality(Writers) \in Nat /\ Cardinality(Scans) \in Nat
    BY <1>4, InodesAssumption, FS_CardinalityType
  <2> QED BY <1>4, <2>1, <2>2, InodesAssumption
<1>6. \E i \in Inodes : Unused(i)
  BY <1>5 DEF Unused, L, W, S
<1> QED BY <1>6 DEF Fresh

\* The index of a corpus is one Open accepts, and a search in it finds what is in
\* the corpus and never fails.
LEMMA IndexIsGood ==
    ASSUME NEW c \in Corpora
    PROVE  /\ Accepts(Index(c)) /\ (Accepts(Begun(c)) => Begun(c) = Index(c))
           /\ \A k \in Keys : /\ ~CannotRead(Index(c).table, Index(c).entries, k)
                              /\ Found(Index(c).table, Index(c).entries, k) <=> k \in c
<1>1. c \in SUBSET Keys /\ IsFiniteSet(c) /\ Cardinality(c) < Counts
  BY CorporaAssumption
<1>2. Sorted(c) \in Seq(Keys) /\ Increasing(Sorted(c)) /\ Len(Sorted(c)) < Counts
  BY <1>1, SortedIsInOrder
<1>3. /\ Offsets(Sorted(c))[Buckets] = Len(Entries(Sorted(c)))
      /\ \A k \in Keys : ~CannotRead(Offsets(Sorted(c)), Entries(Sorted(c)), k)
  BY <1>2, IndexIsReadable
<1>4. \A k \in Keys : Found(Offsets(Sorted(c)), Entries(Sorted(c)), k) <=> k \in c
  BY <1>1, IndexIsMembership
<1>5. Accepts(Begun(c)) => Begun(c) = Index(c)
  <2>1. SUFFICES ASSUME Accepts(Begun(c)) PROVE Begun(c) = Index(c)
    OBVIOUS
  <2>2. Len(Entries(Sorted(c))) = 0
    BY <1>3, <2>1 DEF Accepts, Begun
  <2>3. Entries(Sorted(c)) \in Seq(Int)
    <3>1. \A i \in DOMAIN Sorted(c) : Entry(Sorted(c)[i]) \in Int
      BY <1>2, KeyParts
    <3>2. DOMAIN Sorted(c) = 1..Len(Sorted(c)) /\ Len(Sorted(c)) \in Nat
      BY <1>2
    <3> QED BY <3>1, <3>2 DEF Entries
  <2>4. Entries(Sorted(c)) = <<>>
    BY <2>2, <2>3
  <2> QED BY <2>4 DEF Begun, Index
<1>6. Accepts(Index(c))
  BY <1>3, DownloadsAssumption DEF Accepts, Index
<1> QED BY <1>3, <1>4, <1>5, <1>6 DEF Index

-----------------------------------------------------------------------------
(* What others can do without disturbing a writer or a scan. *)

Undisturbed(w) ==
    /\ wpc'[w] = wpc[w] /\ wfd'[w] = wfd[w] /\ job'[w] = job[w]
    /\ w \in sealed' => w \in sealed /\ download' = download
    /\ wfd[w] # None /\ made'[wfd[w]] # "spoiled" =>
        /\ made[wfd[w]] # "spoiled" /\ disk'[wfd[w]] = disk[wfd[w]]
        /\ \A v \in Writers \ {w} : wfd'[v] # wfd[v] => wfd'[v] # wfd[w]
    /\ wpc[w] = "place" => Own(w)' /\ disk'[wfd[w]] = disk[wfd[w]]

\* A writer whose file nobody else changes keeps what holds of it.
LEMMA WriterKept ==
    ASSUME NEW w \in Writers, WriterInv(w), Undisturbed(w)
    PROVE  WriterInv(w)'
<1>1. wfd[w] # None /\ made'[wfd[w]] # "spoiled" =>
          Written(w)' /\ \A v \in Writers \ {w} : wfd'[v] # wfd'[w]
  BY DEF WriterInv, Undisturbed, Written
<1>2. wpc'[w] = "place" => Own(w)'
  BY DEF Undisturbed
<1>3. w \in sealed' => Verified(download')
  BY DEF WriterInv, Undisturbed
<1>4. w \in sealed' /\ wpc'[w] = "place" => disk'[wfd'[w]] = (download').file
  BY DEF WriterInv, Undisturbed
<1> QED BY <1>1, <1>2, <1>3, <1>4 DEF WriterInv, Undisturbed

Unseen(s) ==
    /\ machine' = machine
    /\ spc'[s] = spc[s] /\ sfd'[s] = sfd[s] /\ table'[s] = table[s]
    /\ at'[s] = at[s] /\ hits'[s] = hits[s] /\ checked'[s] = checked[s]
    /\ verdict'[s] = verdict[s] /\ fault'[s] = fault[s]
    /\ sfd[s] # None /\ made'[sfd[s]] # "spoiled" /\ fault[s] # "length" =>
        made[sfd[s]] # "spoiled" /\ disk'[sfd[s]] = disk[sfd[s]]

\* What a scan has looked up depends on its place alone.
LEMMA LookedKept ==
    ASSUME NEW s \in Scans, machine' = machine, at'[s] = at[s]
    PROVE  Looked(s)' = Looked(s)
BY DEF Looked, IsHashed

\* So does a scan whose file nobody changes.
LEMMA ScanKept ==
    ASSUME NEW s \in Scans, ScanInv(s), Unseen(s)
    PROVE  ScanInv(s)'
<1>1. Watched(s)' => Watched(s) /\ disk'[sfd'[s]] = disk[sfd[s]]
  BY DEF Watched, Unseen
<1>2. \A c \in Corpora : Searched(s, c) => Searched(s, c)'
  BY LookedKept DEF Searched, Unseen
<1> QED BY <1>1, <1>2 DEF ScanInv, Unseen

\* A step of a writer that closes its file, if anything, and writes to none.
Quiet(w) ==
    /\ UNCHANGED <<machine, download, disk, synced, made, reading>>
    /\ \A v \in Writers \ {w} : /\ wpc'[v] = wpc[v] /\ wfd'[v] = wfd[v] /\ job'[v] = job[v]
                                /\ v \in sealed' => v \in sealed
    /\ wfd'[w] = None
    /\ tmp' \in {tmp, None}
    /\ \/ live' = live
       \/ live' = tmp /\ tmp' = None
       \/ live' = wfd[w] /\ wpc[w] = "place"

\* A step of a writer that changes no file keeps the invariant.
LEMMA QuietStep ==
    ASSUME IndInv, NEW w \in Writers, Quiet(w), Types', WriterInv(w)'
    PROVE  IndInv'
<1>1. \A i \in Inodes : FileInv(i)'
  BY DEF IndInv, FileInv, Quiet
<1>2. NamesInv'
  BY DEF IndInv, NamesInv, Quiet, reading, WriterInv, Own
<1>3. ASSUME NEW v \in Writers \ {w} PROVE WriterInv(v)'
  <2>1. WriterInv(v) /\ WriterInv(w)
    BY DEF IndInv
  <2>2. wpc[v] = "place" => Own(v)'
    <3> SUFFICES ASSUME wpc[v] = "place" PROVE Own(v)'
      OBVIOUS
    <3>1. Own(v) /\ wfd'[v] = wfd[v] /\ wfd[v] # None
      BY <2>1 DEF WriterInv, Quiet
    <3>2. wfd[v] \notin {live', tmp'}
      BY <3>1 DEF Own, Quiet
    <3>3. \A u \in Writers \ {v} : wfd'[u] # wfd[v]
      BY <3>1 DEF Own, Quiet
    <3> QED BY <3>1, <3>2, <3>3 DEF Own, Quiet, reading
  <2>3. \A u \in Writers \ {v} : wfd'[u] # wfd[u] => wfd'[u] = None
    BY DEF Quiet
  <2>4. Undisturbed(v)
    BY <2>2, <2>3 DEF Undisturbed, Quiet
  <2> QED BY <2>1, <2>4, WriterKept
<1>4. ASSUME NEW s \in Scans PROVE ScanInv(s)'
  BY ScanKept DEF IndInv, Quiet, Unseen, reading
<1> QED BY <1>1, <1>2, <1>3, <1>4 DEF IndInv

\* A step of a writer that writes to the file it has, or now has, open.
Writes(w, i) ==
    /\ UNCHANGED <<machine, download, live, sealed, reading>>
    /\ \A v \in Writers \ {w} : wpc'[v] = wpc[v] /\ wfd'[v] = wfd[v] /\ job'[v] = job[v]
    /\ wfd'[w] = i
    /\ \A j \in Inodes \ {i} : /\ disk'[j] = disk[j] /\ made'[j] = made[j]
                               /\ j \in synced => j \in synced'
    /\ made'[i] # "spoiled" => \A v \in Writers \ {w} : wfd[v] # i
    /\ \A v \in Writers \ {w} : wpc[v] = "place" => wfd[v] # i
    /\ tmp' = tmp \/ (tmp' = i /\ wpc'[w] # "place")
    /\ \A s \in Scans : sfd[s] = i /\ made'[i] # "spoiled" /\ fault[s] # "length" =>
                            made[i] # "spoiled" /\ disk'[i] = disk[i]

\* So does one that changes the file it has open, or makes one.
LEMMA WriteStep ==
    ASSUME IndInv, NEW w \in Writers, NEW i \in Inodes, Writes(w, i),
           Types', FileInv(i)', NamesInv', WriterInv(w)'
    PROVE  IndInv'
<1>1. ASSUME NEW j \in Inodes \ {i} PROVE FileInv(j)'
  BY DEF IndInv, FileInv, Writes
<1>2. ASSUME NEW v \in Writers \ {w} PROVE WriterInv(v)'
  <2>1. WriterInv(v) /\ wfd[v] \in Inodes \cup {None}
    BY DEF IndInv, Types
  <2>2. wpc[v] = "place" => Own(v)' /\ disk'[wfd[v]] = disk[wfd[v]]
    <3> SUFFICES ASSUME wpc[v] = "place" PROVE Own(v)' /\ disk'[wfd[v]] = disk[wfd[v]]
      OBVIOUS
    <3>1. Own(v) /\ wfd'[v] = wfd[v] /\ wfd[v] \in Inodes \ {i}
      BY <2>1 DEF WriterInv, Writes
    <3>2. \A u \in Writers \ {v} : wfd'[u] # wfd[v]
      BY <3>1 DEF Own, Writes
    <3> QED BY <3>1, <3>2 DEF Own, Writes, reading
  <2>3. wfd[v] # None /\ made'[wfd[v]] # "spoiled" => wfd[v] \in Inodes \ {i}
    BY <2>1 DEF Writes
  <2>4. \A u \in Writers \ {v} : wfd'[u] # wfd[u] => wfd'[u] = i
    BY DEF Writes
  <2>5. Undisturbed(v)
    BY <2>2, <2>3, <2>4 DEF Undisturbed, Writes
  <2> QED BY <2>1, <2>5, WriterKept
<1>3. ASSUME NEW s \in Scans PROVE ScanInv(s)'
  <2>1. ScanInv(s) /\ sfd[s] \in Inodes \cup {None}
    BY DEF IndInv, Types
  <2>2. Unseen(s)
    BY <2>1 DEF Unseen, Writes, reading
  <2> QED BY <2>1, <2>2, ScanKept
<1> QED BY <1>1, <1>2, <1>3 DEF IndInv

-----------------------------------------------------------------------------
(* The steps of the commands. *)

\* A command that ends is a quiet step.
LEMMA QuitIsQuiet ==
    ASSUME IndInv, NEW w \in Writers, Quit(w), Quiet(w)
    PROVE  IndInv'
<1>1. Types'
  BY DEF IndInv, Types, Quit, Quiet, reading, WriterSteps
<1>2. WriterInv(w)'
  BY <1>1 DEF IndInv, Types, WriterInv, Quit, Quiet
<1> QED BY <1>1, <1>2, QuietStep

\* An index is about to be built from a list.
LEMMA BuildBegins ==
    ASSUME IndInv, NEW w \in Writers, NEW c \in Corpora, StartBuild(w, c), UNCHANGED machine
    PROVE  IndInv'
<1>1. Types /\ WriterInv(w)
  BY DEF IndInv
<1>2. wfd[w] = None
  BY <1>1 DEF WriterInv, StartBuild, Begin
<1>3. Types'
  BY <1>1 DEF Types, StartBuild, Begin, store, reading, WriterSteps
<1>4. Quiet(w)
  BY <1>1, <1>2 DEF Types, Quiet, StartBuild, Begin, store, reading
<1>5. WriterInv(w)'
  BY <1>1, <1>2 DEF Types, WriterInv, StartBuild, Begin
<1> QED BY <1>3, <1>4, <1>5, QuietStep

\* A download is about to be installed.
LEMMA InstallBegins ==
    ASSUME IndInv, NEW w \in Writers, Verify(w), UNCHANGED machine
    PROVE  IndInv'
<1>1. Types /\ WriterInv(w)
  BY DEF IndInv
<1>2. wfd[w] = None
  BY <1>1 DEF WriterInv, Verify, Begin
<1>3. Types'
  BY <1>1 DEF Types, Verify, Begin, store, reading, WriterSteps
<1>4. Quiet(w)
  BY <1>1, <1>2 DEF Types, Quiet, Verify, Begin, store, reading
<1>5. WriterInv(w)'
  BY <1>1, <1>2, DownloadsAssumption DEF Types, WriterInv, Verify, Begin
<1> QED BY <1>3, <1>4, <1>5, QuietStep

\* The temporary file is opened, cut to nothing if it is there.
LEMMA OpensTmp ==
    ASSUME IndInv, NEW w \in Writers, OpenTmp(w), UNCHANGED machine
    PROVE  IndInv'
<1>1. Types /\ WriterInv(w) /\ NamesInv /\ wpc[w] = "open" /\ wfd[w] = None /\ job[w] \in Corpora
  BY DEF IndInv, OpenTmp, Go, WriterInv
<1>2. PICK i \in Inodes : i = IF tmp = None THEN Fresh ELSE tmp
  BY <1>1, FreshIsUnused DEF Types
<1>3. /\ i # None /\ i # live /\ \A s \in Scans : sfd[s] # i
      /\ \A v \in Writers : wpc[v] = "place" => wfd[v] # i
  <2>1. CASE tmp = None
    BY <1>1, <1>2, <2>1, FreshIsUnused, NoneIsApart DEF Unused
  <2>2. CASE tmp # None
    <3>1. \A v \in Writers : wpc[v] = "place" => wfd[v] # tmp
      BY DEF IndInv, WriterInv, Own
    <3> QED BY <1>1, <1>2, <2>2, <3>1 DEF Types, NamesInv
  <2> QED BY <2>1, <2>2
<1>4. /\ tmp' = i /\ wfd' = [wfd EXCEPT ![w] = i] /\ disk' = [disk EXCEPT ![i] = Empty]
      /\ synced' = synced \ {i} /\ wpc' = [wpc EXCEPT ![w] = "table"]
      /\ made' = [made EXCEPT ![i] = IF \E v \in Writers : wfd[v] = i
                                     THEN "spoiled" ELSE "build"]
      /\ UNCHANGED <<live, download, job, sealed, reading>>
  BY <1>2 DEF OpenTmp, Go, scan
<1>5. Types'
  BY <1>1, <1>4 DEF Types, reading, WriterSteps
<1>6. Writes(w, i)
  BY <1>1, <1>3, <1>4 DEF Types, Writes
<1>7. FileInv(i)'
  BY <1>1, <1>4 DEF Types, FileInv
<1>8. NamesInv'
  BY <1>3, <1>4 DEF NamesInv, reading
<1>9. WriterInv(w)'
  BY <1>1, <1>3, <1>4 DEF Types, WriterInv, Written
<1> QED BY <1>5, <1>6, <1>7, <1>8, <1>9, WriteStep

\* What is in the file of a build that has it to itself.
LEMMA WritesTable ==
    ASSUME IndInv, NEW w \in Writers, WriteTable(w), UNCHANGED machine
    PROVE  IndInv'
<1>0. PICK i \in Inodes : i = wfd[w]
  BY DEF IndInv, Types, WriteTable, Go, WriterInv
<1>1. /\ Types /\ WriterInv(w) /\ NamesInv /\ wpc[w] = "table" /\ job[w] \in Corpora
      /\ FileInv(i)
  BY DEF IndInv, WriteTable, Go, WriterInv
<1>2. /\ wpc' = [wpc EXCEPT ![w] = "entries"]
      /\ disk' = [disk EXCEPT ![i] = [disk[i] EXCEPT !.table = Offsets(Sorted(job[w]))]]
      /\ UNCHANGED <<live, tmp, synced, made, download, wfd, job, sealed, reading>>
  BY <1>0 DEF WriteTable, Go, scan
<1>3. made[i] # "spoiled" => disk'[i] = Begun(job[w]) /\ disk[i] = Empty
  BY <1>0, <1>1, <1>2 DEF Types, WriterInv, Written, Empty, Begun
<1>4. Types'
  BY <1>0, <1>1, <1>2 DEF Types, reading, WriterSteps
<1>5. Writes(w, i)
  <2>1. \A s \in Scans : sfd[s] = i /\ made[i] # "spoiled" => fault[s] = "length"
    BY <1>0, <1>1, <1>3, NoneIsApart DEF IndInv, ScanInv, Watched, Accepts, Empty
  <2> QED BY <1>0, <1>1, <1>2, <2>1 DEF IndInv, Types, Writes, WriterInv, Own
<1>6. FileInv(i)'
  BY <1>0, <1>1, <1>2, <1>3 DEF FileInv
<1>7. NamesInv'
  BY <1>0, <1>1, <1>2 DEF NamesInv, reading
<1>8. WriterInv(w)'
  BY <1>0, <1>1, <1>2, <1>3 DEF Types, WriterInv, Written
<1> QED BY <1>4, <1>5, <1>6, <1>7, <1>8, WriteStep

\* The digests follow the table they are counted in.
LEMMA WritesEntries ==
    ASSUME IndInv, NEW w \in Writers, WriteEntries(w), UNCHANGED machine
    PROVE  IndInv'
<1> DEFINE new == Entries(Sorted(job[w]))
<1>0. PICK i \in Inodes : i = wfd[w]
  BY DEF IndInv, Types, WriteEntries, Go, WriterInv
<1>1. /\ Types /\ WriterInv(w) /\ NamesInv /\ wpc[w] = "entries" /\ job[w] \in Corpora
      /\ FileInv(i)
  BY DEF IndInv, WriteEntries, Go, WriterInv
<1>2. /\ wpc' = [wpc EXCEPT ![w] = "rename"]
      /\ disk' = [disk EXCEPT ![i] = [disk[i] EXCEPT !.entries = Over(new, disk[i].entries)]]
      /\ UNCHANGED <<live, tmp, synced, made, download, wfd, job, sealed, reading>>
  BY <1>0 DEF WriteEntries, Go, scan
<1>3. Over(new, <<>>) = new
  <2>1. Sorted(job[w]) \in Seq(Keys)
    BY <1>1, CorporaAssumption, SortedIsInOrder
  <2>2. \A j \in DOMAIN Sorted(job[w]) : Entry(Sorted(job[w])[j]) \in Int
    BY <2>1, KeyParts
  <2>3. DOMAIN Sorted(job[w]) = 1..Len(Sorted(job[w])) /\ Len(Sorted(job[w])) \in Nat
    BY <2>1
  <2>4. new \in Seq(Int)
    BY <2>2, <2>3 DEF Entries
  <2> HIDE DEF new
  <2>5. SubSeq(<<>>, Len(new) + 1, Len(<<>>)) = <<>>
    BY <2>4
  <2> QED BY <2>4, <2>5 DEF Over
<1>4. made[i] # "spoiled" => disk'[i] = Index(job[w]) /\ disk[i] = Begun(job[w])
  BY <1>0, <1>1, <1>2, <1>3 DEF Types, WriterInv, Written, Begun, Index
<1> HIDE DEF new
<1>5. Types'
  BY <1>0, <1>1, <1>2 DEF Types, reading, WriterSteps
<1>6. Writes(w, i)
  <2>1. ASSUME NEW s \in Scans, sfd[s] = i, made[i] # "spoiled", fault[s] # "length"
        PROVE  disk'[i] = disk[i]
    <3>1. Accepts(Begun(job[w]))
      BY <1>1, <1>4, <2>1, NoneIsApart DEF IndInv, ScanInv, Watched
    <3> QED BY <1>1, <1>4, <2>1, <3>1, IndexIsGood
  <2> QED BY <1>0, <1>1, <1>2, <2>1 DEF IndInv, Types, Writes, WriterInv, Own
<1>7. FileInv(i)'
  BY <1>0, <1>1, <1>2, <1>4 DEF FileInv, Whole
<1>8. NamesInv'
  BY <1>0, <1>1, <1>2 DEF NamesInv, reading
<1>9. WriterInv(w)'
  BY <1>0, <1>1, <1>2, <1>4 DEF Types, WriterInv, Written
<1> QED BY <1>5, <1>6, <1>7, <1>8, <1>9, WriteStep

\* A download that was verified is copied to a new file.
LEMMA Copies ==
    ASSUME IndInv, NEW w \in Writers, Copy(w), UNCHANGED machine
    PROVE  IndInv'
<1>1. Types /\ WriterInv(w) /\ NamesInv /\ wpc[w] = "copy"
  BY DEF IndInv, Copy, Go
<1>2. PICK i \in Inodes : i = Fresh /\ i # None /\ Unused(i)
  BY <1>1, FreshIsUnused, NoneIsApart
<1>3. /\ wfd' = [wfd EXCEPT ![w] = i] /\ disk' = [disk EXCEPT ![i] = download.file]
      /\ synced' = synced \cup {i} /\ wpc' = [wpc EXCEPT ![w] = "place"]
      /\ made' = [made EXCEPT ![i] = "install"]
      /\ UNCHANGED <<live, tmp, download, job, sealed, reading>>
  BY <1>2 DEF Copy, Go, scan
<1>4. Types'
  BY <1>1, <1>2, <1>3 DEF Types, reading, WriterSteps
<1>5. Writes(w, i)
  BY <1>1, <1>2, <1>3 DEF Types, Writes, Unused
<1>6. FileInv(i)'
  BY <1>1, <1>2, <1>3 DEF Types, FileInv, Whole
<1>7. NamesInv'
  BY <1>1, <1>3 DEF NamesInv, reading
<1>8. WriterInv(w)'
  <2>1. Own(w)'
    BY <1>1, <1>2, <1>3 DEF Types, Own, Unused, reading
  <2> QED BY <1>1, <1>2, <1>3, <2>1 DEF Types, WriterInv, Written, Own
<1> QED BY <1>4, <1>5, <1>6, <1>7, <1>8, WriteStep

\* The other steps of a command close its file or leave it alone.
LEMMA RunsQuietly ==
    ASSUME IndInv, NEW w \in Writers, UNCHANGED machine,
           RenameTmp(w) \/ RemoveTmp(w) \/ Fail(w) \/ Probe(w) \/ Place(w)
    PROVE  IndInv'
<1>1. Types /\ WriterInv(w)
  BY DEF IndInv
<1>2. CASE RenameTmp(w)
  <2>1. PICK b \in {"remove", "drop"} : wpc' = [wpc EXCEPT ![w] = b] /\ wpc[w] = "rename"
    BY <1>2 DEF RenameTmp, Go
  <2>2. /\ wfd' = [wfd EXCEPT ![w] = None]
        /\ UNCHANGED <<disk, synced, made, download, job, sealed, reading>>
        /\ tmp' \in {tmp, None} /\ (live' = live \/ (live' = tmp /\ tmp' = None))
    BY <1>2 DEF RenameTmp, scan
  <2>3. Types'
    BY <1>1, <2>1, <2>2 DEF Types, reading, WriterSteps
  <2>4. Quiet(w)
    BY <1>1, <2>1, <2>2 DEF Types, Quiet
  <2>5. WriterInv(w)'
    BY <1>1, <2>1, <2>2 DEF Types, WriterInv
  <2> QED BY <2>3, <2>4, <2>5, QuietStep
<1>3. CASE RemoveTmp(w) \/ Fail(w)
  <2>1. /\ UNCHANGED <<disk, live, synced, made, download, reading>> /\ tmp' \in {tmp, None}
    BY <1>3 DEF RemoveTmp, Fail, scan
  <2>2. CASE Quit(w)
    <3>1. Quiet(w)
      BY <1>1, <2>1, <2>2 DEF Types, Quiet, Quit
    <3> QED BY <2>2, <3>1, QuitIsQuiet
  <2>3. CASE /\ Go(w, "remove", "label") /\ UNCHANGED <<wfd, job, sealed>>
    <3>1. Types'
      BY <1>1, <2>1, <2>3 DEF Types, Go, reading, WriterSteps
    <3>2. Quiet(w)
      BY <1>1, <2>1, <2>3 DEF Types, Quiet, Go, WriterInv
    <3>3. WriterInv(w)'
      BY <1>1, <2>1, <2>3 DEF Types, WriterInv, Go
    <3> QED BY <3>1, <3>2, <3>3, QuietStep
  <2>4. CASE /\ wpc[w] # "idle" /\ wpc' = [wpc EXCEPT ![w] = "drop"]
             /\ wfd' = [wfd EXCEPT ![w] = None] /\ UNCHANGED <<job, sealed>>
    <3>1. Types'
      BY <1>1, <2>1, <2>4 DEF Types, reading, WriterSteps
    <3>2. Quiet(w)
      BY <1>1, <2>1, <2>4 DEF Types, Quiet
    <3>3. WriterInv(w)'
      BY <1>1, <2>1, <2>4 DEF Types, WriterInv
    <3> QED BY <3>1, <3>2, <3>3, QuietStep
  <2> QED BY <1>3, <2>2, <2>3, <2>4 DEF RemoveTmp, Fail, Go
<1>4. CASE Probe(w)
  <2>1. UNCHANGED <<disk, live, tmp, synced, made, download, reading>> /\ wpc[w] = "probe"
    BY <1>4 DEF Probe, Go, store, scan
  <2>2. CASE Go(w, "probe", "copy") /\ UNCHANGED <<wfd, job, sealed>>
    <3>1. Types'
      BY <1>1, <2>1, <2>2 DEF Types, Go, reading, WriterSteps
    <3>2. Quiet(w)
      BY <1>1, <2>1, <2>2 DEF Types, Quiet, Go, WriterInv
    <3>3. WriterInv(w)'
      BY <1>1, <2>1, <2>2 DEF Types, WriterInv, Go
    <3> QED BY <3>1, <3>2, <3>3, QuietStep
  <2>3. CASE Quit(w)
    <3>1. Quiet(w)
      BY <1>1, <2>1, <2>3 DEF Types, Quiet, Quit
    <3> QED BY <2>3, <3>1, QuitIsQuiet
  <2> QED BY <1>4, <2>2, <2>3 DEF Probe
<1>5. CASE Place(w)
  <2>1. /\ wpc' = [wpc EXCEPT ![w] = "origin"] /\ wfd' = [wfd EXCEPT ![w] = None]
        /\ live' = wfd[w] /\ wpc[w] = "place"
        /\ UNCHANGED <<disk, tmp, synced, made, download, job, sealed, reading>>
    BY <1>5 DEF Place, Go, scan
  <2>2. Types'
    BY <1>1, <2>1 DEF Types, reading, WriterSteps
  <2>3. Quiet(w)
    BY <1>1, <2>1 DEF Types, Quiet
  <2>4. WriterInv(w)'
    BY <1>1, <2>1 DEF Types, WriterInv
  <2> QED BY <2>2, <2>3, <2>4, QuietStep
<1> QED BY <1>2, <1>3, <1>4, <1>5

\* The last step of a command and the end of its process.
LEMMA EndsQuietly ==
    ASSUME IndInv, NEW w \in Writers, UNCHANGED machine, Label(w) \/ Unlabelled(w) \/ Kill(w)
    PROVE  IndInv'
<1>1. Quit(w) /\ tmp' = tmp
  BY DEF Label, Unlabelled, Kill, Finish
<1>2. UNCHANGED <<disk, live, synced, made, download, reading>>
  BY DEF Label, Unlabelled, Kill, scan
<1>3. Quiet(w)
  BY <1>1, <1>2 DEF IndInv, Types, Quiet, Quit
<1> QED BY <1>1, <1>3, QuitIsQuiet

-----------------------------------------------------------------------------
(* What happens to the machine and its files. *)

\* Only what was synced is sure to be there after a power loss.
LEMMA PowerIsLost ==
    ASSUME IndInv, PowerLoss, UNCHANGED machine
    PROVE  IndInv'
<1>1. DOMAIN disk' = Inodes /\ \A i \in synced \cap Inodes : disk'[i] = disk[i]
  <2>1. PICK x : disk' = [i \in Inodes |-> IF i \in synced THEN disk[i] ELSE
                                           IF i = live THEN x ELSE Empty]
    BY DEF PowerLoss
  <2> QED BY <2>1
<1>2. made' = [i \in Inodes |-> IF disk'[i] # disk[i] /\ made[i] = "build"
                                THEN "spoiled" ELSE made[i]]
  BY DEF PowerLoss
<1>3. Types'
  BY <1>1, <1>2 DEF IndInv, Types, PowerLoss, WriterSteps
<1>4. ASSUME NEW i \in Inodes PROVE FileInv(i)'
  <2>1. FileInv(i) /\ made[i] \in {"build", "install", "spoiled"}
    BY DEF IndInv, Types
  <2>2. made'[i] # "spoiled" => made[i] # "spoiled" /\ disk'[i] = disk[i]
    BY <1>1, <1>2, <2>1 DEF FileInv
  <2>3. i \in synced'
    BY DEF PowerLoss
  <2> QED BY <2>1, <2>2, <2>3 DEF FileInv
<1>5. NamesInv'
  BY NoneIsApart DEF IndInv, Types, NamesInv, PowerLoss
<1>6. ASSUME NEW w \in Writers PROVE WriterInv(w)'
  BY DEF WriterInv, PowerLoss
<1>7. ASSUME NEW s \in Scans PROVE ScanInv(s)'
  BY DEF ScanInv, Watched, PowerLoss
<1> QED BY <1>3, <1>4, <1>5, <1>6, <1>7 DEF IndInv

\* A changed download is one that nobody verified.
LEMMA DownloadChanges ==
    ASSUME IndInv, ChangeDownload, UNCHANGED machine
    PROVE  IndInv'
<1>1. /\ UNCHANGED <<machine, disk, live, tmp, synced, made, wpc, wfd, job, reading>>
      /\ download' \in Downloads /\ sealed' = {}
  BY DEF ChangeDownload, store, scan
<1>2. Types'
  BY <1>1 DEF IndInv, Types, reading
<1>3. \A i \in Inodes : FileInv(i)'
  BY <1>1 DEF IndInv, FileInv
<1>4. NamesInv'
  BY <1>1 DEF IndInv, NamesInv, reading
<1>5. \A w \in Writers : WriterInv(w)'
  <2>1. \A w \in Writers : WriterInv(w) => WriterInv(w)'
    BY <1>1 DEF WriterInv, Written, Own, reading
  <2> QED BY <2>1 DEF IndInv
<1>6. \A s \in Scans : ScanInv(s)'
  BY <1>1, ScanKept DEF IndInv, Unseen, reading
<1> QED BY <1>2, <1>3, <1>4, <1>5, <1>6 DEF IndInv

\* A file put there by hand is one that no writer made.
LEMMA CopiedByHand ==
    ASSUME IndInv, CopyByHand, UNCHANGED machine
    PROVE  IndInv'
<1>1. live \in Inodes
  BY DEF IndInv, Types, CopyByHand
<1>2. /\ UNCHANGED <<machine, live, tmp, download, wpc, wfd, job, sealed, reading>>
      /\ made' = [made EXCEPT ![live] = "spoiled"] /\ synced' = synced \ {live}
      /\ DOMAIN disk' = Inodes
      /\ \A i \in Inodes \ {live} : disk'[i] = disk[i]
  BY DEF IndInv, Types, CopyByHand, writer
<1>3. Types'
  BY <1>2 DEF IndInv, Types, reading
<1>4. \A i \in Inodes : FileInv(i)'
  BY <1>1, <1>2 DEF IndInv, Types, FileInv
<1>5. NamesInv'
  BY <1>2 DEF IndInv, NamesInv, reading
<1>6. ASSUME NEW w \in Writers PROVE WriterInv(w)'
  <2>1. WriterInv(w) /\ wfd[w] \in Inodes \cup {None}
    BY DEF IndInv, Types
  <2>2. wpc[w] = "place" => Own(w)' /\ disk'[wfd[w]] = disk[wfd[w]]
    BY <1>2, <2>1 DEF WriterInv, Own, reading
  <2>3. Undisturbed(w)
    BY <1>1, <1>2, <2>1, <2>2 DEF IndInv, Types, Undisturbed
  <2> QED BY <2>1, <2>3, WriterKept
<1>7. ASSUME NEW s \in Scans PROVE ScanInv(s)'
  <2>1. ScanInv(s) /\ sfd[s] \in Inodes \cup {None}
    BY DEF IndInv, Types
  <2>2. Unseen(s)
    BY <1>1, <1>2, <2>1 DEF IndInv, Types, Unseen, reading
  <2> QED BY <2>1, <2>2, ScanKept
<1> QED BY <1>3, <1>4, <1>5, <1>6, <1>7 DEF IndInv

-----------------------------------------------------------------------------
(* The steps of a scan. *)

Scanning(s) ==
    \/ OpenIndex(s) \/ ReadMeta(s) \/ LookUp(s) \/ Report(s) \/ Leave(s)
    \/ OpenFails(s) \/ LengthUnknown(s) \/ MetaFails(s) \/ LookUpFails(s)

Reads(s) ==
    /\ UNCHANGED <<machine, store, download, writer>>
    /\ \A r \in Scans \ {s} :
        /\ spc'[r] = spc[r] /\ sfd'[r] = sfd[r] /\ table'[r] = table[r]
        /\ at'[r] = at[r] /\ hits'[r] = hits[r] /\ checked'[r] = checked[r]
        /\ verdict'[r] = verdict[r] /\ fault'[r] = fault[r]
    /\ sfd'[s] \in {sfd[s], live, None}

\* A step of a scan changes no file.
LEMMA ReadStep ==
    ASSUME IndInv, NEW s \in Scans, Reads(s), Types', ScanInv(s)'
    PROVE  IndInv'
<1>1. \A i \in Inodes : FileInv(i)'
  BY DEF IndInv, FileInv, Reads, store
<1>2. NamesInv'
  BY DEF IndInv, NamesInv, Reads, store
<1>3. ASSUME NEW w \in Writers PROVE WriterInv(w)'
  <2>1. WriterInv(w)
    BY DEF IndInv
  <2>2. wpc[w] = "place" => Own(w)'
    BY <2>1 DEF WriterInv, Own, Reads, store, writer
  <2>3. Undisturbed(w)
    BY <2>2 DEF Undisturbed, Reads, store, writer
  <2> QED BY <2>1, <2>3, WriterKept
<1>4. ASSUME NEW r \in Scans \ {s} PROVE ScanInv(r)'
  BY ScanKept DEF IndInv, Unseen, Reads, store
<1> QED BY <1>1, <1>2, <1>3, <1>4 DEF IndInv

\* A scan opens the index that has the name now.
LEMMA OpensIndex ==
    ASSUME IndInv, NEW s \in Scans, OpenIndex(s), UNCHANGED machine
    PROVE  IndInv'
<1>1. Types /\ ScanInv(s) /\ spc[s] = "idle" /\ sfd[s] = None
  BY DEF IndInv, OpenIndex, ScanInv
<1>2. UNCHANGED <<machine, store, download, writer, at, hits, checked, fault>>
  BY DEF OpenIndex
<1>3. CASE \E v : End(s, v) /\ UNCHANGED <<sfd, table>>
  <2>1. PICK v : End(s, v) /\ UNCHANGED <<sfd, table>>
    BY <1>3
  <2>2. Types'
    BY <1>1, <1>2, <2>1 DEF Types, End, store, writer
  <2>3. Reads(s)
    BY <1>1, <1>2, <2>1 DEF Types, Reads, End
  <2>4. ScanInv(s)'
    BY <1>1, <1>2, <2>1 DEF Types, ScanInv, Watched, End
  <2> QED BY <2>2, <2>3, <2>4, ReadStep
<1>4. CASE /\ live # None /\ Accepts(disk[live])
           /\ spc' = [spc EXCEPT ![s] = "meta"] /\ sfd' = [sfd EXCEPT ![s] = live]
           /\ table' = [table EXCEPT ![s] = disk[live].table] /\ UNCHANGED verdict
  <2>1. Types'
    BY <1>1, <1>2, <1>4 DEF Types, store, writer
  <2>2. Reads(s)
    BY <1>1, <1>2, <1>4 DEF Types, Reads
  <2>3. made[live] # "spoiled" => Whole(disk[live])
    <3>1. FileInv(live)
      BY <1>1, <1>4 DEF IndInv, Types
    <3>2. disk[live] # Empty
      BY <1>4 DEF Accepts, Empty
    <3>3. \A c \in Corpora : disk[live] = Begun(c) => disk[live] = Index(c)
      BY <1>4, IndexIsGood
    <3> QED BY <3>1, <3>2, <3>3 DEF FileInv, Whole
  <2>4. \A c \in Corpora : Searched(s, c)'
    <3>1. at'[s] = 1 /\ hits'[s] = {} /\ checked'[s] = 0 /\ verdict'[s] = None
      BY <1>1, <1>2, <1>4 DEF ScanInv
    <3>2. Looked(s)' = {}
      <4>1. machine.files \in Seq([key : Keys, size : {"tiny", "usual", "huge", "gone"}])
        BY <1>1, MachinesAssumption DEF Types
      <4>2. \A j \in DOMAIN machine.files : ~(j < 1)
        BY <4>1
      <4> QED BY <1>2, <3>1, <4>2 DEF Looked
    <3>3. spc'[s] = "meta"
      BY <1>1, <1>4 DEF Types
    <3> QED BY <3>1, <3>2, <3>3 DEF Searched
  <2>5. /\ sfd'[s] = live /\ spc'[s] = "meta" /\ table'[s] = disk[live].table
        /\ UNCHANGED <<disk, made>>
    BY <1>1, <1>2, <1>4 DEF Types, store
  <2>6. Accepts(disk[live])
    BY <1>4
  <2>7. ScanInv(s)'
    BY <1>4, <2>3, <2>4, <2>5, <2>6 DEF ScanInv, Watched, Accepts
  <2> QED BY <2>1, <2>2, <2>7, ReadStep
<1> QED BY <1>3, <1>4 DEF OpenIndex, Opened

\* It reads what was noted of the index, or closes it.
LEMMA ReadsMeta ==
    ASSUME IndInv, NEW s \in Scans, ReadMeta(s) \/ Leave(s), UNCHANGED machine
    PROVE  IndInv'
<1>1. Types /\ ScanInv(s)
  BY DEF IndInv
<1>2. CASE ReadMeta(s)
  <2>1. /\ spc[s] = "meta" /\ spc' = [spc EXCEPT ![s] = "files"]
        /\ UNCHANGED <<machine, store, download, writer, sfd, table, at, hits, checked, verdict,
                       fault>>
    BY <1>2 DEF ReadMeta
  <2>2. Types'
    BY <1>1, <2>1 DEF Types, store, writer
  <2>3. Reads(s)
    BY <1>1, <2>1 DEF Types, Reads
  <2>4. ScanInv(s)'
    <3>1. spc'[s] = "files"
      BY <1>1, <2>1 DEF Types
    <3>2. Watched(s)' = Watched(s) /\ UNCHANGED disk
      BY <2>1 DEF Watched, store
    <3>3. \A c \in Corpora : Searched(s, c) => Searched(s, c)'
      BY <2>1, <3>1, LookedKept DEF Searched
    <3> QED BY <1>1, <2>1, <3>1, <3>2, <3>3 DEF ScanInv
  <2> QED BY <2>2, <2>3, <2>4, ReadStep
<1>3. CASE Leave(s)
  <2>1. /\ spc' = [spc EXCEPT ![s] = "idle"] /\ sfd' = [sfd EXCEPT ![s] = None]
        /\ table' = [table EXCEPT ![s] = None] /\ at' = [at EXCEPT ![s] = 1]
        /\ hits' = [hits EXCEPT ![s] = {}] /\ checked' = [checked EXCEPT ![s] = 0]
        /\ verdict' = [verdict EXCEPT ![s] = None] /\ fault' = [fault EXCEPT ![s] = "none"]
        /\ UNCHANGED <<machine, store, download, writer>>
    BY <1>3 DEF Leave
  <2>2. Types'
    BY <1>1, <2>1 DEF Types, store, writer
  <2>3. Reads(s)
    BY <1>1, <2>1 DEF Types, Reads
  <2>4. ScanInv(s)'
    BY <1>1, <2>1 DEF Types, ScanInv, Watched
  <2> QED BY <2>2, <2>3, <2>4, ReadStep
<1> QED BY <1>2, <1>3

\* Looking up one file more.
LEMMA LooksUp ==
    ASSUME IndInv, NEW s \in Scans, LookUp(s), UNCHANGED machine
    PROVE  IndInv'
<1> DEFINE f == machine.files[at[s]]
           x == disk[sfd[s]].entries
<1>1. Types /\ ScanInv(s) /\ spc[s] = "files" /\ at[s] <= Len(machine.files)
  BY DEF IndInv, LookUp
<1>2. UNCHANGED <<machine, store, download, writer, sfd, table, fault>>
  BY DEF LookUp
<1>3. /\ machine.files \in Seq([key : Keys, size : {"tiny", "usual", "huge", "gone"}])
      /\ at[s] \in Nat \ {0} /\ checked[s] \in Nat
  BY <1>1, MachinesAssumption DEF Types
<1>4. \A j \in DOMAIN machine.files : j < at[s] + 1 <=> j < at[s] \/ j = at[s]
  BY <1>3
<1>5. at[s] \in DOMAIN machine.files /\ f.key \in Keys
  <2>1. Len(machine.files) \in Nat /\ DOMAIN machine.files = 1..Len(machine.files)
    BY <1>3
  <2>2. at[s] \in DOMAIN machine.files
    BY <1>1, <1>3, <2>1
  <2>3. \A R : machine.files \in Seq(R) => f \in R
    BY <2>1, <2>2, ElementOfSeq
  <2> QED BY <1>3, <2>2, <2>3
<1>6. \A c \in Corpora : Watched(s) /\ disk[sfd[s]] = Index(c) =>
          /\ Searched(s, c) /\ table[s] = Index(c).table /\ x = Index(c).entries
  BY <1>1 DEF ScanInv
<1>7. CASE ~IsHashed(f) /\ at' = [at EXCEPT ![s] = @ + 1]
           /\ UNCHANGED <<spc, verdict, hits, checked>>
  <2>1. Types'
    BY <1>1, <1>2, <1>7 DEF Types, store, writer
  <2>2. Reads(s)
    BY <1>1, <1>2, <1>7 DEF Types, Reads
  <2>3. Looked(s)' = Looked(s)
    <3>1. at'[s] = at[s] + 1
      BY <1>1, <1>7 DEF Types
    <3> QED BY <1>2, <1>4, <1>7, <3>1 DEF Looked, IsHashed
  <2>4. \A c \in Corpora : Searched(s, c) => Searched(s, c)'
    BY <1>1, <1>7, <2>3 DEF Searched
  <2>5. Watched(s)' = Watched(s) /\ UNCHANGED disk
    BY <1>2 DEF Watched, store
  <2>6. ScanInv(s)'
    BY <1>1, <1>2, <1>7, <2>4, <2>5 DEF ScanInv
  <2> QED BY <2>1, <2>2, <2>6, ReadStep
<1>8. CASE /\ CannotRead(table[s], x, f.key)
           /\ End(s, "broken") /\ UNCHANGED <<at, hits, checked>>
  <2>1. Types'
    BY <1>1, <1>2, <1>8 DEF Types, End, store, writer
  <2>2. Reads(s)
    BY <1>1, <1>2, <1>8 DEF Types, Reads, End
  <2>3. \A c \in Corpora : ~(Watched(s) /\ disk[sfd[s]] = Index(c))
    BY <1>5, <1>6, <1>8, IndexIsGood
  <2>4. Watched(s)' = Watched(s) /\ UNCHANGED disk
    BY <1>2 DEF Watched, store
  <2>5. spc'[s] = "done"
    BY <1>1, <1>8 DEF Types, End
  <2>6. ScanInv(s)'
    BY <1>1, <1>2, <2>3, <2>4, <2>5 DEF ScanInv
  <2> QED BY <2>1, <2>2, <2>6, ReadStep
<1>9. CASE /\ IsHashed(f) /\ at' = [at EXCEPT ![s] = @ + 1]
           /\ checked' = [checked EXCEPT ![s] = @ + 1]
           /\ hits' = [hits EXCEPT ![s] =
                          IF Found(table[s], x, f.key) THEN @ \cup {f.key} ELSE @]
           /\ UNCHANGED <<spc, verdict>>
  <2>1. Types'
    BY <1>1, <1>2, <1>9 DEF Types, store, writer
  <2>2. Reads(s)
    BY <1>1, <1>2, <1>9 DEF Types, Reads
  <2>3. Looked(s)' = Looked(s) \cup {f.key}
    <3>1. at'[s] = at[s] + 1
      BY <1>1, <1>9 DEF Types
    <3> QED BY <1>2, <1>4, <1>5, <1>9, <3>1 DEF Looked, IsHashed
  <2>4. ASSUME NEW c \in Corpora, Watched(s), disk[sfd[s]] = Index(c)
        PROVE  Searched(s, c)'
    <3>1. Searched(s, c) /\ (Found(table[s], x, f.key) <=> f.key \in c)
      BY <1>5, <1>6, <2>4, IndexIsGood
    <3>2. hits'[s] = IF f.key \in c THEN hits[s] \cup {f.key} ELSE hits[s]
      BY <1>1, <1>9, <3>1 DEF Types
    <3>3. checked'[s] = checked[s] + 1
      BY <1>1, <1>9 DEF Types
    <3> QED BY <1>1, <1>3, <1>9, <2>3, <3>1, <3>2, <3>3 DEF Searched
  <2>5. Watched(s)' = Watched(s) /\ UNCHANGED disk
    BY <1>2 DEF Watched, store
  <2>6. ScanInv(s)'
    BY <1>1, <1>2, <1>9, <2>4, <2>5 DEF ScanInv
  <2> QED BY <2>1, <2>2, <2>6, ReadStep
<1> QED BY <1>7, <1>8, <1>9 DEF LookUp

\* What it reports is what it found.
LEMMA Reports ==
    ASSUME IndInv, NEW s \in Scans, Report(s), UNCHANGED machine
    PROVE  IndInv'
<1>1. Types /\ ScanInv(s) /\ spc[s] = "files" /\ at[s] > Len(machine.files)
  BY DEF IndInv, Report
<1>2. /\ UNCHANGED <<machine, store, download, writer, sfd, table, at, hits, checked, fault>>
      /\ End(s, Summary(hits[s], checked[s]))
  BY DEF Report
<1>3. Types'
  BY <1>1, <1>2 DEF Types, End, store, writer
<1>4. Reads(s)
  BY <1>1, <1>2 DEF Types, Reads, End
<1>5. spc'[s] = "done" /\ verdict'[s] = Summary(hits[s], checked[s])
  BY <1>1, <1>2 DEF Types, End
<1>6. \A c \in Corpora : Searched(s, c) => Searched(s, c)'
  BY <1>1, <1>2, <1>5, LookedKept DEF Searched
<1>7. Watched(s)' = Watched(s) /\ UNCHANGED disk
  BY <1>2 DEF Watched, store
<1>8. ScanInv(s)'
  BY <1>1, <1>2, <1>5, <1>6, <1>7 DEF ScanInv
<1> QED BY <1>3, <1>4, <1>8, ReadStep

\* A call of the scan is refused: it ends, it goes on without the metadata, or it
\* does not know how long its file is.
LEMMA Refused ==
    ASSUME IndInv, NEW s \in Scans, UNCHANGED machine,
           OpenFails(s) \/ LengthUnknown(s) \/ MetaFails(s) \/ LookUpFails(s)
    PROVE  IndInv'
<1>1. Types /\ ScanInv(s) /\ UNCHANGED <<machine, store, download, writer, at, hits, checked>>
  BY DEF IndInv, OpenFails, LengthUnknown, MetaFails, LookUpFails, Faulty
<1>2. CASE OpenFails(s)
  <2>1. /\ fault' \in [Scans -> {"none", "read", "length"}] /\ \A r \in Scans \ {s} : fault'[r] = fault[r]
        /\ UNCHANGED <<sfd, table>> /\ spc[s] = "idle" /\ End(s, "refused")
    BY <1>1, <1>2 DEF Types, OpenFails, Faulty
  <2>2. Types'
    BY <1>1, <2>1 DEF Types, End, store, writer
  <2>3. Reads(s)
    BY <1>1, <2>1 DEF Types, Reads, End
  <2>4. ScanInv(s)'
    BY <1>1, <2>1 DEF Types, ScanInv, Watched, End
  <2> QED BY <2>2, <2>3, <2>4, ReadStep
<1>3. CASE LengthUnknown(s)
  <2>1. /\ fault' \in [Scans -> {"none", "read", "length"}] /\ \A r \in Scans \ {s} : fault'[r] = fault[r]
        /\ fault'[s] = "length" /\ spc' = [spc EXCEPT ![s] = "meta"]
        /\ sfd' = [sfd EXCEPT ![s] = live] /\ live # None
        /\ table' = [table EXCEPT ![s] = disk[live].table] /\ UNCHANGED verdict
    BY <1>1, <1>3 DEF Types, ScanInv, LengthUnknown, Faulty, Opened
  <2>2. Types'
    BY <1>1, <2>1 DEF Types, store, writer
  <2>3. Reads(s)
    BY <1>1, <2>1 DEF Types, Reads
  <2>4. ScanInv(s)'
    BY <1>1, <2>1 DEF Types, ScanInv, Watched
  <2> QED BY <2>2, <2>3, <2>4, ReadStep
<1>4. CASE MetaFails(s)
  <2>1. /\ fault' \in [Scans -> {"none", "read", "length"}] /\ \A r \in Scans \ {s} : fault'[r] = fault[r]
        /\ fault'[s] \in {"read", fault[s]} /\ (fault[s] = "length" => fault'[s] = "length")
        /\ spc' = [spc EXCEPT ![s] = "files"]
        /\ spc[s] = "meta" /\ UNCHANGED <<sfd, table, verdict>>
    BY <1>1, <1>4 DEF Types, MetaFails, Faulty
  <2>2. Types'
    BY <1>1, <2>1 DEF Types, store, writer
  <2>3. Reads(s)
    BY <1>1, <2>1 DEF Types, Reads
  <2>4. ScanInv(s)'
    <3>1. spc'[s] = "files"
      BY <1>1, <2>1 DEF Types
    <3>2. \A c \in Corpora : Searched(s, c) => Searched(s, c)'
      BY <1>1, <2>1, <3>1, LookedKept DEF Searched
    <3> QED BY <1>1, <2>1, <3>1, <3>2 DEF ScanInv, Watched, store
  <2> QED BY <2>2, <2>3, <2>4, ReadStep
<1>5. CASE LookUpFails(s)
  <2>1. /\ fault' \in [Scans -> {"none", "read", "length"}] /\ \A r \in Scans \ {s} : fault'[r] = fault[r]
        /\ fault[s] \in {"none", "read"} => fault'[s] = "read"
        /\ fault[s] = "length" => fault'[s] = "length"
        /\ UNCHANGED <<sfd, table>> /\ spc[s] = "files" /\ End(s, "broken")
    BY <1>1, <1>5 DEF Types, LookUpFails, Faulty
  <2>2. Types'
    BY <1>1, <2>1 DEF Types, End, store, writer
  <2>3. Reads(s)
    BY <1>1, <2>1 DEF Types, Reads, End
  <2>4. ScanInv(s)'
    <3>1. spc'[s] = "done" /\ verdict'[s] = "broken"
      BY <1>1, <2>1 DEF Types, End
    <3>2. Watched(s)' => Watched(s) /\ fault'[s] = "read" /\ UNCHANGED disk
      BY <1>1, <2>1 DEF Types, Watched, store
    <3>3. \A c \in Corpora : Searched(s, c) /\ Watched(s)' => Searched(s, c)'
      BY <1>1, <3>1, <3>2, LookedKept DEF Searched
    <3> QED BY <1>1, <2>1, <3>1, <3>2, <3>3 DEF ScanInv
  <2> QED BY <2>2, <2>3, <2>4, ReadStep
<1> QED BY <1>2, <1>3, <1>4, <1>5

-----------------------------------------------------------------------------
(* The theorems. *)

\* The invariant holds at the start,
LEMMA InitIndInv == Init => IndInv
<1> SUFFICES ASSUME Init PROVE IndInv
  OBVIOUS
<1>1. Types
  BY DEF Init, Types, WriterSteps
<1>2. /\ \A i \in Inodes : FileInv(i)
      /\ NamesInv
      /\ \A w \in Writers : WriterInv(w)
      /\ \A s \in Scans : ScanInv(s)
  BY DEF Init, FileInv, NamesInv, WriterInv, ScanInv, Watched
<1> QED BY <1>1, <1>2 DEF IndInv

\* every step keeps it,
LEMMA StepKeepsIndInv == IndInv /\ [Next]_vars => IndInv'
<1> SUFFICES ASSUME IndInv, [Next]_vars PROVE IndInv'
  OBVIOUS
<1>1. ASSUME NEW w \in Writers, UNCHANGED machine,
             \/ \E c \in Corpora : StartBuild(w, c)
             \/ OpenTmp(w) \/ WriteTable(w) \/ WriteEntries(w) \/ RenameTmp(w) \/ RemoveTmp(w)
             \/ Verify(w) \/ Probe(w) \/ Copy(w) \/ Place(w)
             \/ Label(w) \/ Unlabelled(w) \/ Fail(w) \/ Kill(w)
      PROVE  IndInv'
  BY <1>1, BuildBegins, InstallBegins, OpensTmp, WritesTable, WritesEntries, Copies, RunsQuietly,
     EndsQuietly
<1>2. ASSUME NEW s \in Scans, UNCHANGED machine,
             Scanning(s)
      PROVE  IndInv'
  BY <1>2, OpensIndex, ReadsMeta, LooksUp, Reports, Refused DEF Scanning
<1>3. CASE PowerLoss /\ UNCHANGED machine
  BY <1>3, PowerIsLost
<1>4. CASE ChangeDownload /\ UNCHANGED machine
  BY <1>4, DownloadChanges
<1>5. CASE CopyByHand /\ UNCHANGED machine
  BY <1>5, CopiedByHand
<1>6. CASE UNCHANGED vars
  <2>1. UNCHANGED <<machine, download, disk, live, tmp, synced, made, wpc, wfd, job, sealed,
                    spc, sfd, table, at, hits, checked, verdict, fault>>
    BY <1>6 DEF vars, store, writer, scan, reading
  <2>2. Types'
    BY <2>1 DEF IndInv, Types
  <2>3. NamesInv' /\ \A i \in Inodes : FileInv(i)'
    BY <2>1 DEF IndInv, NamesInv, FileInv
  <2>4. \A w \in Writers : WriterInv(w)'
    <3>1. \A w \in Writers : WriterInv(w) => WriterInv(w)'
      BY <2>1 DEF WriterInv, Written, Own
    <3> QED BY <3>1 DEF IndInv
  <2>5. \A s \in Scans : ScanInv(s)'
    BY <2>1, ScanKept DEF IndInv, Unseen
  <2> QED BY <2>2, <2>3, <2>4, <2>5 DEF IndInv
<1> QED BY <1>1, <1>2, <1>3, <1>4, <1>5, <1>6 DEF Next, Step, Scanning

\* and so it holds always.
LEMMA IndInvHolds == Spec => []IndInv
BY InitIndInv, StepKeepsIndInv, PTL DEF Spec

\* An install that found the download to be the signed one puts exactly that in
\* place, unless the download was changed after it looked (Verify, Install).
THEOREM SignedIsInstalled == Spec => []OnlySignedInstalled
<1>1. IndInv => OnlySignedInstalled
  BY DEF IndInv, WriterInv, OnlySignedInstalled, Verified
<1> QED BY <1>1, IndInvHolds, PTL

\* No interrupted, failed or repeated build or install, and no loss of power after
\* an install, leaves a part of an index that a scan would open (writeIndex,
\* copyFile, Open).
THEOREM WholeIsOpened == Spec => []OpenedIsWhole
<1>1. IndInv => OpenedIsWhole
  BY DEF IndInv, ScanInv, Watched, Whole, OpenedIsWhole, Holds
<1> QED BY <1>1, IndInvHolds, PTL

\* A report says of the machine what is true of the index that was open, whatever
\* happened to the name and the metadata meanwhile (reportMalwareHashes, Contains).
THEOREM TruthIsReported == Spec => []VerdictIsTrue
<1>1. ASSUME IndInv PROVE VerdictIsTrue
  <2> SUFFICES ASSUME NEW s \in Scans, NEW c \in Corpora, Holds(s, c),
                      made[sfd[s]] # "spoiled", fault[s] # "length"
               PROVE  /\ verdict[s] = "match" => hits[s] = Eligible \cap c /\ hits[s] # {}
                      /\ verdict[s] = "clean" => Eligible \cap c = {} /\ Eligible # {}
                      /\ verdict[s] = "nothing" => Eligible = {}
                      /\ verdict[s] = "broken" => fault[s] = "read"
    BY DEF VerdictIsTrue
  <2>1. Searched(s, c)
    BY <1>1 DEF IndInv, ScanInv, Watched, Holds
  <2>2. CASE spc[s] # "done"
    BY <2>1, <2>2, NoneIsApart DEF Searched
  <2>3. CASE spc[s] = "done" /\ verdict[s] # "broken"
    <3>1. machine.files \in Seq([key : Keys, size : {"tiny", "usual", "huge", "gone"}])
          /\ at[s] \in Nat
      BY <1>1, MachinesAssumption DEF IndInv, Types
    <3>2. at[s] > Len(machine.files) /\ verdict[s] = Summary(hits[s], checked[s])
      BY <2>1, <2>3 DEF Searched
    <3>3. \A j \in DOMAIN machine.files : j < at[s]
      BY <3>1, <3>2
    <3>4. Looked(s) = Eligible
      BY <3>3 DEF Looked, Eligible
    <3> QED BY <2>1, <3>2, <3>4 DEF Searched, Summary
  <2>4. CASE spc[s] = "done" /\ verdict[s] = "broken"
    BY <2>1, <2>4 DEF Searched, Summary
  <2> QED BY <2>2, <2>3, <2>4
<1> QED BY <1>1, IndInvHolds, PTL

-----------------------------------------------------------------------------
(* A command without company keeps its promise. *)

InPlace(x) == live # None /\ disk[live] = x /\ Accepts(x)

\* What a command that has had no company can rely on.
Along(w) ==
    /\ \A v \in Writers \ {w} : wpc[v] = "idle"
    /\ wpc[w] \in {"table", "entries", "rename"} => tmp = wfd[w] /\ made[wfd[w]] = "build"
    /\ wpc[w] \in {"probe", "copy", "place"} => w \in sealed
    /\ wpc[w] \in {"copy", "place"} => Accepts(download.file)
    /\ wpc[w] \in {"remove", "label"} => InPlace(Index(job[w]))
    /\ wpc[w] = "origin" => InPlace(download.signed)

\* As long as no other command starts, its corpus is in place.
PromiseKept ==
    promise # None => /\ InPlace(promise.file)
                      /\ promise.name # None => promise.name \in Corpora /\ meta = promise.name
                      /\ \A w \in Writers : wpc[w] = "idle"

\* A scan that was promised a corpus reads that corpus, and no command has its file.
Due(s) ==
    due[s] # None =>
        /\ spc[s] # "idle"
        /\ sfd[s] # None /\ disk[sfd[s]] = due[s].file /\ table[s] = due[s].file.table
        /\ \A w \in Writers : wfd[w] # sfd[s]
        /\ spc[s] = "meta" => due[s] = promise
        /\ spc[s] # "meta" /\ due[s].name # None => quoted[s] = due[s].name
        /\ verdict[s] \notin {"none", "refused"}

DueInv ==
    /\ DOMAIN due = Scans /\ DOMAIN quoted = Scans
    /\ lone \in Writers => Along(lone)
    /\ PromiseKept
    /\ \A s \in Scans : Due(s)

\* A step of a command under way keeps the promises to the scans.
LEMMA CommandGoesOn ==
    ASSUME IndInv, DueInv, NEW w \in Writers, wpc[w] # "idle",
           UNCHANGED <<lone, promise, due, reading>>,
           \A v \in Writers \ {w} : wpc'[v] = wpc[v] /\ wfd'[v] = wfd[v],
           \A s \in Scans : due[s] # None => /\ disk'[sfd[s]] = disk[sfd[s]]
                                             /\ wfd'[w] # sfd[s],
           lone = w => Along(w)'
    PROVE  DueInv'
<1>1. promise = None
  BY DEF DueInv, PromiseKept
<1>2. lone' \in Writers => Along(lone)'
  <2>1. lone \in Writers => lone = w
    BY DEF DueInv, Along
  <2> QED BY <2>1
<1>3. ASSUME NEW s \in Scans PROVE Due(s)'
  BY DEF DueInv, Due, reading
<1>4. PromiseKept'
  BY <1>1 DEF PromiseKept
<1> QED BY <1>2, <1>3, <1>4 DEF DueInv, reading

\* Building an index keeps what is due to scans that come after.
LEMMA BuildKeepsPromises ==
    ASSUME IndInv, DueInv, NEW w \in Writers,
           \/ OpenTmp(w) \/ WriteTable(w) \/ WriteEntries(w) \/ RenameTmp(w) \/ RemoveTmp(w)
           \/ Fail(w)
    PROVE  DueInv'
<1>1. Types /\ WriterInv(w) /\ UNCHANGED <<lone, promise, due, reading>>
  BY DEF IndInv, OpenTmp, WriteTable, WriteEntries, RenameTmp, RemoveTmp, Fail, scan
<1>2. lone = w => Along(w)
  BY DEF DueInv
<1>3. CASE OpenTmp(w)
  <2>1. PICK i \in Inodes : i = IF tmp = None THEN Fresh ELSE tmp
    BY <1>1, FreshIsUnused DEF Types
  <2>2. i # None /\ \A s \in Scans : sfd[s] # i
    <3>1. CASE tmp = None
      BY <1>1, <2>1, <3>1, FreshIsUnused, NoneIsApart DEF Unused
    <3>2. CASE tmp # None
      BY <2>1, <3>2 DEF IndInv, NamesInv
    <3> QED BY <3>1, <3>2
  <2>3. /\ wpc[w] = "open" /\ wpc' = [wpc EXCEPT ![w] = "table"] /\ tmp' = i
        /\ wfd' = [wfd EXCEPT ![w] = i] /\ disk' = [disk EXCEPT ![i] = Empty]
        /\ made' = [made EXCEPT ![i] = IF \E v \in Writers : wfd[v] = i
                                       THEN "spoiled" ELSE "build"]
    BY <1>3, <2>1 DEF OpenTmp, Go
  <2>4. lone = w => \A v \in Writers : wfd[v] = None
    BY <1>2, <2>3 DEF IndInv, WriterInv, Along
  <2>5. lone = w => Along(w)'
    BY <1>1, <1>2, <2>2, <2>3, <2>4 DEF Types, Along
  <2>6. \A s \in Scans : due[s] # None => disk'[sfd[s]] = disk[sfd[s]] /\ wfd'[w] # sfd[s]
    BY <1>1, <2>2, <2>3 DEF Types
  <2> QED BY <1>1, <2>3, <2>5, <2>6, CommandGoesOn DEF Types
<1>4. CASE WriteTable(w) \/ WriteEntries(w)
  <2>1. /\ wpc[w] \in {"table", "entries"} /\ UNCHANGED <<tmp, wfd, made>>
        /\ \/ wpc' = [wpc EXCEPT ![w] = "entries"]
           \/ wpc' = [wpc EXCEPT ![w] = "rename"]
    BY <1>4 DEF WriteTable, WriteEntries, Go
  <2>2. \E x : disk' = [disk EXCEPT ![wfd[w]] = x]
    BY <1>4 DEF WriteTable, WriteEntries
  <2>3. lone = w => Along(w)'
    BY <1>1, <1>2, <2>1 DEF Types, Along
  <2>4. \A s \in Scans : due[s] # None => disk'[sfd[s]] = disk[sfd[s]] /\ wfd'[w] # sfd[s]
    BY <1>1, <2>1, <2>2 DEF Types, DueInv, Due
  <2> QED BY <1>1, <2>1, <2>3, <2>4, CommandGoesOn DEF Types
<1>5. CASE RenameTmp(w)
  <2>1. /\ wpc[w] = "rename" /\ wfd' = [wfd EXCEPT ![w] = None] /\ UNCHANGED disk
    BY <1>5 DEF RenameTmp, Go
  <2>2. \/ /\ wpc' = [wpc EXCEPT ![w] = "remove"] /\ tmp # None /\ live' = tmp
           /\ UNCHANGED job
        \/ wpc' = [wpc EXCEPT ![w] = "drop"]
    BY <1>5 DEF RenameTmp, Go
  <2>3. lone = w => Along(w)'
    <3> SUFFICES ASSUME lone = w PROVE Along(w)'
      OBVIOUS
    <3>1. tmp = wfd[w] /\ disk[wfd[w]] = Index(job[w]) /\ job[w] \in Corpora
      BY <1>1, <1>2, <2>1 DEF Along, WriterInv, Written
    <3> QED BY <1>1, <1>2, <2>1, <2>2, <3>1, IndexIsGood DEF Types, Along, InPlace
  <2>4. \A s \in Scans : due[s] # None => wfd'[w] # sfd[s]
    BY <1>1, <2>1 DEF Types, DueInv, Due
  <2> QED BY <1>1, <2>1, <2>2, <2>3, <2>4, CommandGoesOn DEF Types
<1>6. CASE RemoveTmp(w) \/ Fail(w)
  <2>1. /\ wpc[w] # "idle" /\ UNCHANGED <<disk, live>>
        /\ \/ /\ wpc' = [wpc EXCEPT ![w] = "label"] /\ wpc[w] = "remove"
              /\ UNCHANGED <<wfd, job>>
           \/ \E b \in {"idle", "drop"} :
                 wpc' = [wpc EXCEPT ![w] = b] /\ wfd' = [wfd EXCEPT ![w] = None]
    BY <1>6 DEF RemoveTmp, Fail, Quit, Go
  <2>2. lone = w => Along(w)'
    BY <1>1, <1>2, <2>1 DEF Types, Along, InPlace
  <2>3. \A s \in Scans : due[s] # None => wfd'[w] # sfd[s]
    BY <1>1, <2>1 DEF Types, DueInv, Due
  <2> QED BY <1>1, <2>1, <2>2, <2>3, CommandGoesOn DEF Types
<1> QED BY <1>3, <1>4, <1>5, <1>6

\* So does installing one.
LEMMA InstallKeepsPromises ==
    ASSUME IndInv, DueInv, NEW w \in Writers, Probe(w) \/ Copy(w) \/ Place(w)
    PROVE  DueInv'
<1>1. Types /\ WriterInv(w) /\ UNCHANGED <<lone, promise, due, reading>>
  BY DEF IndInv, Probe, Copy, Place, scan
<1>2. lone = w => Along(w)
  BY DEF DueInv
<1>3. CASE Probe(w)
  <2>1. /\ wpc[w] = "probe" /\ UNCHANGED <<download, disk>>
        /\ \/ /\ wpc' = [wpc EXCEPT ![w] = "copy"] /\ Accepts(download.file)
              /\ UNCHANGED <<wfd, job, sealed>>
           \/ wpc' = [wpc EXCEPT ![w] = "idle"] /\ wfd' = [wfd EXCEPT ![w] = None]
    BY <1>3 DEF Probe, Quit, Go, store
  <2>2. lone = w => Along(w)'
    BY <1>1, <1>2, <2>1 DEF Types, Along
  <2>3. \A s \in Scans : due[s] # None => wfd'[w] # sfd[s]
    BY <1>1, <2>1 DEF Types, DueInv, Due
  <2> QED BY <1>1, <2>1, <2>2, <2>3, CommandGoesOn DEF Types
<1>4. CASE Copy(w)
  <2>1. PICK i \in Inodes : i = Fresh /\ Unused(i)
    BY <1>1, FreshIsUnused
  <2>2. /\ wpc[w] = "copy" /\ wpc' = [wpc EXCEPT ![w] = "place"]
        /\ wfd' = [wfd EXCEPT ![w] = i] /\ disk' = [disk EXCEPT ![i] = download.file]
        /\ UNCHANGED <<download, job, sealed>>
    BY <1>4, <2>1 DEF Copy, Go
  <2>3. lone = w => Along(w)'
    BY <1>1, <1>2, <2>2 DEF Types, Along
  <2>4. \A s \in Scans : due[s] # None => disk'[sfd[s]] = disk[sfd[s]] /\ wfd'[w] # sfd[s]
    BY <1>1, <2>1, <2>2 DEF Types, Unused
  <2> QED BY <1>1, <2>2, <2>3, <2>4, CommandGoesOn DEF Types
<1>5. CASE Place(w)
  <2>1. /\ wpc[w] = "place" /\ wpc' = [wpc EXCEPT ![w] = "origin"] /\ live' = wfd[w]
        /\ wfd' = [wfd EXCEPT ![w] = None] /\ UNCHANGED <<disk, download, job, sealed>>
    BY <1>5 DEF Place, Go
  <2>2. lone = w => Along(w)'
    <3> SUFFICES ASSUME lone = w PROVE Along(w)'
      OBVIOUS
    <3>1. /\ w \in sealed /\ Accepts(download.file) /\ wfd[w] # None
          /\ disk[wfd[w]] = download.file /\ Verified(download)
      BY <1>1, <1>2, <2>1 DEF Along, WriterInv
    <3> QED BY <1>1, <1>2, <2>1, <3>1 DEF Types, Along, InPlace, Verified
  <2>3. \A s \in Scans : due[s] # None => wfd'[w] # sfd[s]
    BY <1>1, <2>1 DEF Types, DueInv, Due
  <2> QED BY <1>1, <2>1, <2>2, <2>3, CommandGoesOn DEF Types
<1> QED BY <1>3, <1>4, <1>5

\* A command that ends promises no more than it did.
LEMMA EndKeepsPromises ==
    ASSUME IndInv, DueInv, NEW w \in Writers, Label(w) \/ Unlabelled(w) \/ Kill(w)
    PROVE  DueInv'
<1>1. /\ Types /\ wpc[w] # "idle" /\ wpc' = [wpc EXCEPT ![w] = "idle"]
      /\ wfd' = [wfd EXCEPT ![w] = None] /\ UNCHANGED <<disk, live, lone, due, reading>>
  BY DEF IndInv, Label, Unlabelled, Kill, Finish, Quit, scan
<1>2. \A s \in Scans : due[s] # None => sfd[s] # None
  BY DEF DueInv, Due
<1>3. lone = w => Along(w) /\ Along(w)'
  BY <1>1 DEF Types, DueInv, Along
<1>4. CASE promise' = promise
  BY <1>1, <1>2, <1>3, <1>4, CommandGoesOn DEF Types
<1>5. CASE (Label(w) \/ Unlabelled(w)) /\ lone = w
  <2>0. PICK n : /\ Finish(w, n) /\ wpc[w] \in {"label", "origin"}
                 /\ n # None => n \in Corpora /\ meta' = n
    BY <1>1, <1>5 DEF Label, Unlabelled, IndInv, WriterInv
  <2>1. /\ promise = None /\ (promise').name = n
        /\ (promise').file = (IF wpc[w] = "label" THEN Index(job[w]) ELSE download.signed)
    BY <1>1, <1>5, <2>0 DEF Finish, DueInv, PromiseKept
  <2>2. PromiseKept'
    <3>1. InPlace((promise').file) /\ \A v \in Writers \ {w} : wpc[v] = "idle"
      BY <1>3, <1>5, <2>0, <2>1 DEF Along
    <3>2. \A v \in Writers : wpc'[v] = "idle"
      BY <1>1, <3>1 DEF Types
    <3> QED BY <1>1, <2>0, <2>1, <3>1, <3>2 DEF PromiseKept, InPlace
  <2>3. ASSUME NEW s \in Scans PROVE Due(s)'
    BY <1>1, <2>1 DEF Types, DueInv, Due, reading
  <2>4. lone' \in Writers => Along(lone)'
    BY <1>1, <1>3, <1>5
  <2> QED BY <1>1, <2>2, <2>3, <2>4 DEF DueInv, reading
<1> QED BY <1>4, <1>5 DEF Label, Unlabelled, Kill, Finish

\* A command that starts takes back what was promised.
LEMMA BeginKeepsPromises ==
    ASSUME IndInv, DueInv, NEW w \in Writers, Verify(w) \/ \E c \in Corpora : StartBuild(w, c)
    PROVE  DueInv'
<1>1. /\ Types /\ wpc[w] = "idle" /\ UNCHANGED <<store, download, wfd, reading>>
      /\ \E l \in {"open", "probe"} : wpc' = [wpc EXCEPT ![w] = l]
      /\ lone' = (IF Alive = {} THEN w ELSE None) /\ promise' = None
      /\ due' = [s \in Scans |-> IF spc[s] = "meta" THEN None ELSE due[s]]
  BY DEF IndInv, Verify, StartBuild, Begin
<1>2. PromiseKept'
  BY <1>1 DEF PromiseKept
<1>3. ASSUME NEW s \in Scans PROVE Due(s)'
  BY <1>1 DEF DueInv, Due, reading, store
<1>4. Alive = {} => Along(w)'
  <2>1. Alive = {} => \A v \in Writers \ {w} : wpc'[v] = "idle"
    BY <1>1 DEF Types, Alive
  <2>2. wpc'[w] = "probe" => w \in sealed'
    <3>1. CASE Verify(w)
      BY <1>1, <3>1 DEF Types, Verify, Begin
    <3>2. CASE \E c \in Corpora : StartBuild(w, c)
      BY <1>1, <3>2 DEF Types, StartBuild, Begin
    <3> QED BY <3>1, <3>2
  <2>3. wpc'[w] \in {"open", "probe"}
    BY <1>1 DEF Types
  <2> QED BY <2>1, <2>2, <2>3 DEF Along
<1>5. lone' \in Writers => Along(lone)'
  BY <1>1, <1>4, DistinctAssumption
<1> QED BY <1>1, <1>2, <1>3, <1>5 DEF DueInv, reading

\* What happens to the machine breaks no promise that still stands.
LEMMA EventsKeepPromises ==
    ASSUME IndInv, DueInv, PowerLoss \/ ChangeDownload \/ CopyByHand
    PROVE  DueInv'
<1>1. lone' \notin Writers
  BY DistinctAssumption DEF PowerLoss, ChangeDownload, CopyByHand
<1>2. CASE PowerLoss
  BY <1>1, <1>2 DEF PowerLoss, DueInv, PromiseKept, Due
<1>3. CASE ChangeDownload
  <2>1. UNCHANGED <<store, wpc, wfd, scan, promise>>
    BY <1>3 DEF ChangeDownload
  <2>2. PromiseKept'
    BY <2>1 DEF DueInv, PromiseKept, InPlace, store
  <2>3. \A s \in Scans : Due(s)'
    BY <2>1 DEF DueInv, Due, store, scan, reading
  <2> QED BY <1>1, <2>1, <2>2, <2>3 DEF DueInv, scan, reading
<1>4. CASE CopyByHand
  <2>1. promise' = None /\ due' = [s \in Scans |-> None] /\ UNCHANGED reading
    BY <1>4 DEF CopyByHand
  <2> QED BY <1>1, <2>1 DEF DueInv, PromiseKept, Due, reading
<1> QED BY <1>2, <1>3, <1>4

\* A scan keeps what was due when it opened the index.
LEMMA ScanKeepsPromises ==
    ASSUME IndInv, DueInv, NEW s \in Scans,
           Scanning(s)
    PROVE  DueInv'
<1>1. Types /\ Due(s) /\ UNCHANGED <<store, download, writer, lone, promise>>
  BY DEF IndInv, DueInv, OpenFails, LengthUnknown, MetaFails, LookUpFails, Faulty, Scanning, OpenIndex, ReadMeta, LookUp, Report, Leave
<1>2. PromiseKept' /\ (lone' \in Writers => Along(lone)')
  BY <1>1 DEF DueInv, PromiseKept, Along, InPlace, store, writer
<1>3. DOMAIN due = Scans /\ DOMAIN quoted = Scans /\ PromiseKept
  BY DEF DueInv
<1>4. SUFFICES ASSUME \A r \in Scans \ {s} :
                          /\ spc'[r] = spc[r] /\ sfd'[r] = sfd[r] /\ table'[r] = table[r]
                          /\ quoted'[r] = quoted[r] /\ due'[r] = due[r]
                          /\ verdict'[r] = verdict[r],
                      DOMAIN due' = Scans, DOMAIN quoted' = Scans
               PROVE  Due(s)'
  <2>1. /\ \A r \in Scans \ {s} :
            /\ spc'[r] = spc[r] /\ sfd'[r] = sfd[r] /\ table'[r] = table[r]
            /\ quoted'[r] = quoted[r] /\ due'[r] = due[r] /\ verdict'[r] = verdict[r]
        /\ DOMAIN due' = Scans /\ DOMAIN quoted' = Scans
    <3>1. CASE OpenIndex(s)
      BY <1>1, <1>3, <3>1 DEF Types, OpenIndex, Opened, End
    <3>2. CASE ReadMeta(s)
      BY <1>1, <1>3, <3>2 DEF Types, ReadMeta
    <3>3. CASE LookUp(s)
      BY <1>1, <1>3, <3>3 DEF Types, LookUp, End
    <3>4. CASE Report(s)
      BY <1>1, <1>3, <3>4 DEF Types, Report, End
    <3>5. CASE Leave(s)
      BY <1>1, <1>3, <3>5 DEF Types, Leave
    <3>6. CASE OpenFails(s) \/ LengthUnknown(s)
      BY <1>1, <1>3, <3>6 DEF Types, OpenFails, LengthUnknown, Faulty, Opened, End
    <3>7. CASE MetaFails(s) \/ LookUpFails(s)
      BY <1>1, <1>3, <3>7 DEF Types, MetaFails, LookUpFails, Faulty, End
    <3> QED BY <3>1, <3>2, <3>3, <3>4, <3>5, <3>6, <3>7 DEF Scanning
  <2>2. \A r \in Scans \ {s} : Due(r)'
    BY <1>1, <2>1 DEF DueInv, Due, store, writer
  <2> QED BY <1>2, <1>4, <2>1, <2>2 DEF DueInv
<1>5. CASE OpenIndex(s)
  <2>1. due'[s] = promise /\ verdict[s] = None /\ UNCHANGED <<disk, wfd>>
    BY <1>1, <1>3, <1>5 DEF IndInv, ScanInv, OpenIndex, store, writer
  <2>2. SUFFICES ASSUME promise # None PROVE Due(s)'
    BY <2>1 DEF Due
  <2>3. /\ live # None /\ disk[live] = promise.file
        /\ Accepts(disk[live]) /\ \A w \in Writers : wfd[w] = None
    BY <1>3, <2>2 DEF PromiseKept, InPlace, IndInv, WriterInv
  <2>4. /\ spc' = [spc EXCEPT ![s] = "meta"] /\ sfd' = [sfd EXCEPT ![s] = live]
        /\ table' = [table EXCEPT ![s] = disk[live].table] /\ UNCHANGED verdict
    BY <1>5, <2>3 DEF OpenIndex, Opened
  <2>5. /\ spc'[s] = "meta" /\ sfd'[s] = live /\ table'[s] = promise.file.table
        /\ verdict'[s] = None
    BY <1>1, <2>1, <2>3, <2>4 DEF Types
  <2> QED BY <1>1, <2>1, <2>3, <2>5, NoneIsApart DEF Due
<1>6. CASE ReadMeta(s)
  <2>1. /\ spc[s] = "meta" /\ spc'[s] = "files" /\ quoted'[s] = Quoted(meta)
        /\ UNCHANGED <<disk, wfd, sfd, table, verdict, due>>
    BY <1>1, <1>3, <1>6 DEF Types, ReadMeta, store, writer
  <2>2. due[s] # None /\ due[s].name # None => quoted'[s] = due[s].name
    <3> SUFFICES ASSUME due[s] # None, due[s].name # None PROVE quoted'[s] = due[s].name
      OBVIOUS
    <3>1. due[s].name \in Corpora /\ meta = due[s].name
      BY <1>1, <1>3, <2>1 DEF Due, PromiseKept
    <3> QED BY <2>1, <3>1, DistinctAssumption DEF Quoted
  <2> QED BY <1>1, <2>1, <2>2 DEF Due
<1>7. CASE LookUp(s) \/ Report(s)
  <2>1. /\ spc[s] = "files" /\ spc'[s] \in {"files", "done"}
        /\ verdict'[s] \in {verdict[s], "broken", "match", "nothing", "clean"}
        /\ UNCHANGED <<disk, wfd, sfd, table, quoted, due>>
    BY <1>1, <1>7 DEF Types, LookUp, Report, End, Summary, store, writer
  <2> QED BY <1>1, <2>1 DEF Due
<1>8. CASE Leave(s) \/ OpenFails(s) \/ LengthUnknown(s) \/ MetaFails(s) \/ LookUpFails(s)
  <2>1. due'[s] = None
    BY <1>3, <1>8 DEF Leave, OpenFails, LengthUnknown, MetaFails, LookUpFails, Faulty
  <2> QED BY <2>1 DEF Due
<1> QED BY <1>5, <1>6, <1>7, <1>8 DEF Scanning

\* Nothing is due at the start,
LEMMA InitDueInv == Init => DueInv
BY DistinctAssumption DEF Init, DueInv, PromiseKept, Due

\* and every step keeps what is due.
LEMMA StepKeepsDueInv == IndInv /\ DueInv /\ [Next]_vars => DueInv'
<1> SUFFICES ASSUME IndInv, DueInv, [Next]_vars PROVE DueInv'
  OBVIOUS
<1>1. ASSUME NEW w \in Writers,
             \/ \E c \in Corpora : StartBuild(w, c)
             \/ OpenTmp(w) \/ WriteTable(w) \/ WriteEntries(w) \/ RenameTmp(w) \/ RemoveTmp(w)
             \/ Verify(w) \/ Probe(w) \/ Copy(w) \/ Place(w)
             \/ Label(w) \/ Unlabelled(w) \/ Fail(w) \/ Kill(w)
      PROVE  DueInv'
  BY <1>1, BeginKeepsPromises, BuildKeepsPromises, InstallKeepsPromises, EndKeepsPromises
<1>2. ASSUME NEW s \in Scans,
             Scanning(s)
      PROVE  DueInv'
  BY <1>2, ScanKeepsPromises
<1>3. CASE PowerLoss \/ ChangeDownload \/ CopyByHand
  BY <1>3, EventsKeepPromises
<1>4. CASE UNCHANGED vars
  BY <1>4 DEF vars, store, writer, scan, reading, DueInv, PromiseKept, Due, Along, InPlace
<1> QED BY <1>1, <1>2, <1>3, <1>4 DEF Next, Step, Scanning

\* What a command without company that reported success put in place is what the next
\* scan searches, and its metadata, if it could be written, is what the report names
\* (Build, Install, Open).
THEOREM FinishedIsFound == Spec => []FinishedIsUsed
<1>1. DueInv => FinishedIsUsed
  BY DEF DueInv, Due, FinishedIsUsed
<1>2. IndInv /\ DueInv /\ [Next]_vars => DueInv'
  BY StepKeepsDueInv
<1> QED BY <1>1, <1>2, InitDueInv, IndInvHolds, PTL DEF Spec
-----------------------------------------------------------------------------
(* Every variable keeps its type. *)

\* A scan counts no more files than it has passed.
CountInv == \A s \in Scans : checked[s] < at[s]
TypeInv == IndInv /\ DueInv /\ TypeOK /\ CountInv

\* What is written is a file.
LEMMA EmptyIsFile == Empty \in File
BY DEF Empty, File

\* Table and entries of a corpus have the types of a file's parts.
LEMMA PartsAreOfFile ==
    ASSUME NEW c \in Corpora
    PROVE  Offsets(Sorted(c)) \in [0..Buckets -> Nat] /\ Entries(Sorted(c)) \in Seq(0..Tails-1)
<1> DEFINE keys == Sorted(c)
<1>0. c \in SUBSET Keys /\ IsFiniteSet(c)
  BY CorporaAssumption
<1>1. keys \in Seq(Keys)
  BY <1>0, SortedIsInOrder
<1> HIDE DEF keys
<1>2. \A b \in 0..Buckets : Offsets(keys)[b] \in Nat
  <2>1. Len(keys) < Counts
    BY <1>0, CorporaAssumption, SortedIsInOrder DEF keys
  <2> QED BY <1>1, <2>1, OffsetsStop
<1>3. Offsets(keys) \in [0..Buckets -> Nat]
  BY <1>2 DEF Offsets
<1> DEFINE T == 0..Tails-1
<1>4. \A i \in 1..Len(keys) : Entry(keys[i]) \in T
  BY <1>1, KeyParts
<1>5. DOMAIN keys = 1..Len(keys) /\ Len(keys) \in Nat
  BY <1>1
<1> HIDE DEF T
<1>6. Entries(keys) \in Seq(T)
  BY <1>4, <1>5 DEF Entries
<1> QED BY <1>3, <1>6 DEF keys, T

\* Writing over what is there gives entries again.
LEMMA OverIsSequence ==
    ASSUME NEW T, NEW new \in Seq(T), NEW old \in Seq(T)
    PROVE  Over(new, old) \in Seq(T)
<1>1. Len(new) \in Nat /\ Len(old) \in Nat
  BY LenProperties
<1>2. SubSeq(old, Len(new) + 1, Len(old)) \in Seq(T)
  <2>1. \A i \in Len(new) + 1 .. Len(old) : old[i] \in T
    BY <1>1, ElementOfSeq
  <2> QED BY <1>1, <2>1, SubSeqProperties
<1> QED BY <1>2, ConcatProperties DEF Over

\* So does losing the content to zeros.
LEMMA ZeroedIsFile ==
    ASSUME NEW x \in File
    PROVE  Zeroed(x) \in File
<1> DEFINE T == 0..Tails-1
<1>1. x.entries \in Seq(T) /\ 0 \in T
  BY SizesAssumption DEF File
<1> HIDE DEF T
<1>2. DOMAIN x.entries = 1..Len(x.entries) /\ Len(x.entries) \in Nat
  BY <1>1
<1>3. [i \in DOMAIN x.entries |-> 0] \in Seq(T)
  BY <1>1, <1>2
<1> USE DEF T
<1> QED BY <1>3 DEF Zeroed, File

\* At first every variable has its type.
LEMMA InitTypes == Init => TypeInv
<1> SUFFICES ASSUME Init PROVE TypeOK /\ CountInv
  BY InitIndInv, InitDueInv DEF TypeInv
<1>1. machine.files \in Seq([key : Keys, size : {"tiny", "usual", "huge", "gone"}])
  BY MachinesAssumption DEF Init
<1>2. Len(machine.files) \in Nat
  BY <1>1, LenProperties
<1>3. disk \in [Inodes -> File]
  BY EmptyIsFile DEF Init
<1>4. made \in [Inodes -> {"build", "install", "spoiled"}]
  BY DEF Init
<1>5. CountInv
  BY DEF Init, CountInv
<1> QED BY <1>2, <1>3, <1>4, <1>5, LimitsAssumption DEF Init, TypeOK, WriterSteps, Alive, Promises

\* The parts of the types a command or an event changes, or that follow from what
\* it leaves alone.
StoreTypes ==
    /\ disk \in [Inodes -> File] /\ {live, tmp} \subseteq Inodes \cup {None}
    /\ meta \in Corpora \cup {None, Torn} /\ synced \subseteq Inodes
    /\ made \in [Inodes -> {"build", "install", "spoiled"}]
    /\ download \in Downloads
    /\ promise \in Promises /\ lone \in Writers \cup {None}
    /\ writes \in 0..MaxWrites /\ events \in 0..MaxEvents
WriterTypes ==
    /\ wpc \in [Writers -> WriterSteps] /\ wfd \in [Writers -> Inodes \cup {None}]
    /\ job \in [Writers -> Corpora \cup {None}] /\ sealed \subseteq Alive
ScanTypes ==
    /\ spc \in [Scans -> {"idle", "meta", "files", "done"}]
    /\ sfd \in [Scans -> Inodes \cup {None}]
    /\ \A s \in Scans : (sfd[s] = None) = (table[s] = None)
    /\ quoted \in [Scans -> Corpora \cup {None}]
    /\ at \in [Scans -> 1..Len(machine.files) + 1]
    /\ hits \in [Scans -> SUBSET Keys]
    /\ checked \in [Scans -> 0..Len(machine.files)]
    /\ verdict \in [Scans -> {None, "none", "refused", "broken", "match", "nothing", "clean"}]
    /\ fault \in [Scans -> {"none", "read", "length"}] /\ due \in [Scans -> Promises]

\* The type invariant in three parts.
LEMMA TypesApart == TypeOK <=> machine \in Machines /\ StoreTypes /\ WriterTypes /\ ScanTypes
BY DEF TypeOK, StoreTypes, WriterTypes, ScanTypes

\* A command that ends takes its seal with it.
LEMMA QuitTypes ==
    ASSUME WriterTypes, NEW w \in Writers, Quit(w)
    PROVE  WriterTypes'
BY DEF WriterTypes, Quit, Alive, WriterSteps

\* A command that goes on stays alive.
LEMMA GoTypes ==
    ASSUME WriterTypes, NEW w \in Writers, NEW a \in WriterSteps \ {"idle"},
           NEW b \in WriterSteps \ {"idle"}, Go(w, a, b), sealed' = sealed,
           job' = job, wfd' \in [Writers -> Inodes \cup {None}]
    PROVE  WriterTypes'
BY DEF WriterTypes, Go, Alive

\* Begin starts a command with a corpus.
LEMMA BeginTypes ==
    ASSUME TypeOK, NEW w \in Writers, NEW l \in WriterSteps \ {"idle"}, NEW c \in Corpora,
           Begin(w, l, c), wfd' = wfd, sealed' \subseteq sealed \cup {w},
           UNCHANGED <<store, download, reading, machine>>
    PROVE  TypeOK'
<1>1. WriterTypes'
  BY DEF TypeOK, WriterTypes, Begin, Alive, WriterSteps
<1>2. StoreTypes'
  BY LimitsAssumption DEF TypeOK, StoreTypes, Begin, store, Promises
<1>3. ScanTypes'
  <2>1. due' \in [Scans -> Promises]
    BY DEF TypeOK, Begin, Promises
  <2> QED BY <2>1 DEF TypeOK, ScanTypes, reading
<1>4. machine' \in Machines
  BY DEF TypeOK
<1> QED BY <1>1, <1>2, <1>3, <1>4 DEF TypeOK, StoreTypes, WriterTypes, ScanTypes

\* Unchanged readers keep their types.
LEMMA SameScans ==
    ASSUME ScanTypes, UNCHANGED <<machine, reading>>,
           due' = due \/ due' \in [Scans -> Promises]
    PROVE  ScanTypes'
BY DEF ScanTypes, reading

\* What a command promises is a file, with the name of a corpus or none.
LEMMA FinishTypes ==
    ASSUME TypeInv, NEW w \in Writers, NEW n \in Corpora \cup {None},
           wpc[w] \in {"label", "origin"}, Finish(w, n)
    PROVE  promise' \in Promises /\ WriterTypes'
<1>0. StoreTypes /\ WriterTypes /\ WriterInv(w)
  BY TypesApart DEF TypeInv, IndInv
<1>1. WriterTypes'
  BY <1>0, QuitTypes DEF Finish
<1>2. CASE lone # w
  BY <1>0, <1>1, <1>2 DEF Finish, StoreTypes
<1>3. CASE lone = w
  <2> DEFINE x == IF wpc[w] = "label" THEN Index(job[w]) ELSE download.signed
  <2>1. promise' = [file |-> x, name |-> n]
    BY <1>3 DEF Finish
  <2>2. x \in File
    <3>1. CASE wpc[w] = "label"
      <4>1. job[w] \in Corpora
        BY <1>0, <3>1 DEF WriterInv
      <4> QED BY <3>1, <4>1, PartsAreOfFile DEF Index, File
    <3>2. CASE wpc[w] = "origin"
      <4>1. x = disk[live] /\ live # None
        BY <1>3, <3>2 DEF TypeInv, DueInv, Along, InPlace
      <4> HIDE DEF x
      <4> QED BY <1>0, <4>1 DEF StoreTypes
    <3> QED BY <3>1, <3>2
  <2> HIDE DEF x
  <2> QED BY <1>1, <2>1, <2>2 DEF Promises
<1> QED BY <1>1, <1>2, <1>3

\* Every step of a command keeps the types.
LEMMA CommandTypes ==
    ASSUME TypeInv, NEW w \in Writers, UNCHANGED machine,
           \/ \E c \in Corpora : StartBuild(w, c)
           \/ OpenTmp(w) \/ WriteTable(w) \/ WriteEntries(w) \/ RenameTmp(w) \/ RemoveTmp(w)
           \/ Verify(w) \/ Probe(w) \/ Copy(w) \/ Place(w)
           \/ Label(w) \/ Unlabelled(w) \/ Fail(w) \/ Kill(w)
    PROVE  TypeOK'
<1>0. machine \in Machines /\ StoreTypes /\ WriterTypes /\ ScanTypes /\ Types /\ WriterInv(w)
  BY TypesApart DEF TypeInv, IndInv
<1>1. ASSUME NEW c \in Corpora, StartBuild(w, c) PROVE TypeOK'
  BY <1>1, BeginTypes DEF StartBuild, WriterSteps, TypeInv
<1>2. CASE Verify(w)
  <2>1. download.corpus \in Corpora
    BY <1>0, DownloadsAssumption DEF StoreTypes
  <2> QED BY <1>2, <2>1, BeginTypes DEF Verify, WriterSteps, TypeInv
<1> SUFFICES ASSUME \/ OpenTmp(w) \/ WriteTable(w) \/ WriteEntries(w) \/ RenameTmp(w)
                    \/ RemoveTmp(w) \/ Probe(w) \/ Copy(w) \/ Place(w) \/ Label(w)
                    \/ Unlabelled(w) \/ Fail(w) \/ Kill(w)
             PROVE  StoreTypes' /\ WriterTypes' /\ ScanTypes'
  BY <1>0, <1>1, <1>2, TypesApart DEF TypeOK, StoreTypes, WriterTypes, ScanTypes
<1>3. ScanTypes'
  BY <1>0, SameScans DEF OpenTmp, WriteTable, WriteEntries, RenameTmp, RemoveTmp, Probe, Copy,
                         Place, Label, Unlabelled, Fail, Kill, scan
<1> SUFFICES StoreTypes' /\ WriterTypes'
  BY <1>3
<1>4. CASE OpenTmp(w)
  <2> DEFINE i == IF tmp = None THEN Fresh ELSE tmp
  <2>1. i \in Inodes
    BY <1>0, FreshIsUnused DEF StoreTypes
  <2>2. /\ tmp' = i /\ wfd' = [wfd EXCEPT ![w] = i]
        /\ disk' = [disk EXCEPT ![i] = Empty] /\ synced' = synced \ {i}
        /\ made' = [made EXCEPT ![i] =
                       IF \E v \in Writers : wfd[v] = i THEN "spoiled" ELSE "build"]
        /\ UNCHANGED <<live, meta, download, job, sealed, bounds, lone, promise>>
        /\ Go(w, "open", "table")
    BY <1>4 DEF OpenTmp
  <2> HIDE DEF i
  <2>3. StoreTypes'
    BY <1>0, <2>1, <2>2, EmptyIsFile DEF StoreTypes, bounds
  <2>4. wfd' \in [Writers -> Inodes \cup {None}]
    BY <1>0, <2>1, <2>2 DEF WriterTypes
  <2> QED BY <1>0, <2>2, <2>3, <2>4, GoTypes DEF WriterSteps
<1>5. CASE WriteTable(w)
  <2>1. job[w] \in Corpora /\ wfd[w] \in Inodes
    BY <1>0, <1>5 DEF WriteTable, Go, WriterInv, Types
  <2>2. [disk[wfd[w]] EXCEPT !.table = Offsets(Sorted(job[w]))] \in File
    BY <1>0, <2>1, PartsAreOfFile DEF StoreTypes, File
  <2>3. StoreTypes'
    BY <1>0, <1>5, <2>1, <2>2 DEF WriteTable, StoreTypes, bounds
  <2> QED BY <1>0, <1>5, <2>3, GoTypes DEF WriteTable, WriterSteps, WriterTypes
<1>6. CASE WriteEntries(w)
  <2>1. job[w] \in Corpora /\ wfd[w] \in Inodes
    BY <1>0, <1>6 DEF WriteEntries, Go, WriterInv, Types
  <2>2. disk[wfd[w]].entries \in Seq(0..Tails-1) /\ disk[wfd[w]] \in File
    BY <1>0, <2>1 DEF StoreTypes, File
  <2>3. Over(Entries(Sorted(job[w])), disk[wfd[w]].entries) \in Seq(0..Tails-1)
    BY <2>1, <2>2, PartsAreOfFile, OverIsSequence
  <2>4. [disk[wfd[w]] EXCEPT !.entries = Over(Entries(Sorted(job[w])), disk[wfd[w]].entries)]
            \in File
    BY <2>2, <2>3 DEF File
  <2>5. StoreTypes'
    BY <1>0, <1>6, <2>1, <2>4 DEF WriteEntries, StoreTypes, bounds
  <2> QED BY <1>0, <1>6, <2>5, GoTypes DEF WriteEntries, WriterSteps, WriterTypes
<1>7. CASE RenameTmp(w)
  <2>1. StoreTypes'
    BY <1>0, <1>7 DEF RenameTmp, StoreTypes, bounds
  <2>2. wfd' \in [Writers -> Inodes \cup {None}] /\ UNCHANGED <<job, sealed>>
    BY <1>0, <1>7 DEF RenameTmp, WriterTypes
  <2> QED BY <1>0, <1>7, <2>1, <2>2, GoTypes DEF RenameTmp, WriterSteps
<1>8. CASE RemoveTmp(w)
  <2>1. StoreTypes'
    BY <1>0, <1>8 DEF RemoveTmp, StoreTypes, bounds
  <2>2. CASE Quit(w)
    BY <1>0, <2>1, <2>2, QuitTypes
  <2>3. CASE ~Quit(w)
    BY <1>0, <1>8, <2>1, <2>3, GoTypes DEF RemoveTmp, WriterSteps, WriterTypes
  <2> QED BY <2>2, <2>3
<1>9. CASE Probe(w)
  <2>1. StoreTypes'
    BY <1>0, <1>9 DEF Probe, StoreTypes, bounds, store
  <2>2. CASE Quit(w)
    BY <1>0, <2>1, <2>2, QuitTypes
  <2>3. CASE ~Quit(w)
    BY <1>0, <1>9, <2>1, <2>3, GoTypes DEF Probe, WriterSteps, WriterTypes
  <2> QED BY <2>2, <2>3
<1>10. CASE Copy(w)
  <2>1. Fresh \in Inodes /\ download.file \in File
    BY <1>0, FreshIsUnused, DownloadsAssumption DEF StoreTypes
  <2>2. StoreTypes'
    BY <1>0, <1>10, <2>1 DEF Copy, StoreTypes, bounds
  <2>3. wfd' \in [Writers -> Inodes \cup {None}]
    BY <1>0, <1>10, <2>1 DEF Copy, WriterTypes
  <2> QED BY <1>0, <1>10, <2>2, <2>3, GoTypes DEF Copy, WriterSteps
<1>11. CASE Place(w)
  <2>1. StoreTypes'
    BY <1>0, <1>11 DEF Place, StoreTypes, WriterTypes, bounds
  <2>2. wfd' \in [Writers -> Inodes \cup {None}]
    BY <1>0, <1>11 DEF Place, WriterTypes
  <2> QED BY <1>0, <1>11, <2>1, <2>2, GoTypes DEF Place, WriterSteps
<1>12. CASE Label(w) \/ Unlabelled(w)
  <2>1. PICK n \in Corpora \cup {None} : Finish(w, n) /\ wpc[w] \in {"label", "origin"}
    BY <1>0, <1>12 DEF Label, Unlabelled, WriterInv
  <2>2. promise' \in Promises /\ WriterTypes'
    BY <2>1, FinishTypes
  <2>3. job[w] \in Corpora
    BY <1>0, <2>1 DEF WriterInv
  <2>4. /\ meta' \in Corpora \cup {None, Torn}
        /\ writes' \in 0..MaxWrites /\ events' \in 0..MaxEvents
    BY <1>0, <1>12, <2>3, LimitsAssumption DEF Label, Unlabelled, Event, StoreTypes, bounds
  <2>5. StoreTypes'
    BY <1>0, <1>12, <2>2, <2>4 DEF Label, Unlabelled, StoreTypes
  <2> QED BY <2>2, <2>5
<1>13. CASE Fail(w) \/ Kill(w)
  <2>1. StoreTypes'
    BY <1>0, <1>13, LimitsAssumption DEF Fail, Kill, Event, StoreTypes
  <2>2. CASE Quit(w)
    BY <1>0, <2>1, <2>2, QuitTypes
  <2>3. CASE ~Quit(w)
    <3>1. PICK a \in WriterSteps \ {"idle"}, b \in WriterSteps \ {"idle"} :
              Go(w, a, b) /\ UNCHANGED <<job, sealed>>
      BY <1>13, <2>3 DEF Fail, Kill, Go, WriterSteps
    <3>2. wfd' \in [Writers -> Inodes \cup {None}]
      BY <1>0, <1>13, <2>3 DEF Fail, Kill, WriterTypes
    <3> QED BY <1>0, <2>1, <3>1, <3>2, GoTypes
  <2> QED BY <2>2, <2>3
<1> QED BY <1>4, <1>5, <1>6, <1>7, <1>8, <1>9, <1>10, <1>11, <1>12, <1>13

\* What happens to the machine keeps every file a file.
LEMMA EventTypes ==
    ASSUME TypeInv, UNCHANGED machine, PowerLoss \/ ChangeDownload \/ CopyByHand
    PROVE  TypeOK'
<1>0. machine \in Machines /\ StoreTypes /\ WriterTypes /\ ScanTypes /\ Types
  BY TypesApart DEF TypeInv, IndInv
<1>1. CASE PowerLoss
  <2>1. disk' \in [Inodes -> File]
    <3>1. PICK x \in (IF live = None THEN {Empty} ELSE {disk[live], Empty, Zeroed(disk[live])}) :
              disk' = [i \in Inodes |-> IF i \in synced THEN disk[i] ELSE
                                        IF i = live THEN x ELSE Empty]
      BY <1>1 DEF PowerLoss
    <3>2. x \in File
      BY <1>0, <3>1, EmptyIsFile, ZeroedIsFile DEF StoreTypes
    <3> QED BY <1>0, <3>1, <3>2, EmptyIsFile DEF StoreTypes
  <2>2. StoreTypes'
    BY <1>0, <1>1, <2>1, LimitsAssumption DEF PowerLoss, Event, StoreTypes, Promises
  <2>3. WriterTypes'
    BY <1>1 DEF PowerLoss, WriterTypes, WriterSteps, Alive
  <2>4. ScanTypes'
    <3>1. Len(machine.files) \in Nat
      BY <1>0, MachinesAssumption, LenProperties
    <3> QED BY <1>1, <3>1 DEF PowerLoss, ScanTypes, Promises
  <2> QED BY <1>0, <2>2, <2>3, <2>4 DEF TypeOK, StoreTypes, WriterTypes, ScanTypes
<1>2. CASE ChangeDownload
  <2>1. StoreTypes'
    BY <1>0, <1>2, LimitsAssumption DEF ChangeDownload, Event, StoreTypes, store
  <2>2. WriterTypes'
    BY <1>0, <1>2 DEF ChangeDownload, WriterTypes, Alive
  <2>3. ScanTypes'
    BY <1>0, <1>2, SameScans DEF ChangeDownload, scan
  <2> QED BY <1>0, <2>1, <2>2, <2>3 DEF TypeOK, StoreTypes, WriterTypes, ScanTypes
<1>3. CASE CopyByHand
  <2>1. PICK x \in {download.file, Empty} : disk' = [disk EXCEPT ![live] = x]
    BY <1>3 DEF CopyByHand
  <2>2. x \in File
    BY <1>0, <2>1, EmptyIsFile, DownloadsAssumption DEF StoreTypes
  <2>3. StoreTypes'
    BY <1>0, <1>3, <2>1, <2>2, LimitsAssumption DEF CopyByHand, Event, StoreTypes, Promises
  <2>4. WriterTypes'
    BY <1>0, <1>3 DEF CopyByHand, WriterTypes, Alive, writer
  <2>5. ScanTypes'
    BY <1>0, <1>3, SameScans DEF CopyByHand, Promises
  <2> QED BY <1>0, <2>3, <2>4, <2>5 DEF TypeOK, StoreTypes, WriterTypes, ScanTypes
<1> QED BY <1>1, <1>2, <1>3

\* A scan that opens an index has its table.
LEMMA TablesGoWithFiles ==
    ASSUME ScanTypes, Types, NEW s \in Scans, live \in Inodes, disk[live].table # None,
           sfd' = [sfd EXCEPT ![s] = live], table' = [table EXCEPT ![s] = disk[live].table]
    PROVE  \A q \in Scans : (sfd'[q] = None) = (table'[q] = None)
<1> SUFFICES ASSUME NEW q \in Scans PROVE sfd'[q] = None <=> table'[q] = None
  OBVIOUS
<1>1. CASE q = s
  BY <1>1, NoneIsApart DEF ScanTypes, Types
<1>2. CASE q # s
  BY <1>2 DEF ScanTypes, Types
<1> QED BY <1>1, <1>2

\* A scan counts within the machine, and keeps its table as long as its file.
LEMMA ReadingTypes ==
    ASSUME TypeInv, NEW s \in Scans, UNCHANGED machine,
           Scanning(s)
    PROVE  TypeOK' /\ CountInv'
<1>0. machine \in Machines /\ StoreTypes /\ WriterTypes /\ ScanTypes /\ CountInv /\ Types
  BY TypesApart DEF TypeInv, IndInv
<1>1. machine.files \in Seq([key : Keys, size : {"tiny", "usual", "huge", "gone"}]) /\ Len(machine.files) \in Nat
  BY <1>0, MachinesAssumption, LenProperties
<1>2. StoreTypes' /\ WriterTypes'
  <2>1. UNCHANGED <<store, download, writer, lone, promise>>
    BY DEF Scanning, OpenIndex, ReadMeta, LookUp, Report, Leave, OpenFails, LengthUnknown,
           MetaFails, LookUpFails, Faulty
  <2>2. writes' \in 0..MaxWrites /\ events' \in 0..MaxEvents
    BY <1>0, LimitsAssumption
       DEF Scanning, OpenIndex, ReadMeta, LookUp, Report, Leave, OpenFails, LengthUnknown,
           MetaFails, LookUpFails, Faulty, Event, StoreTypes, bounds
  <2> QED BY <1>0, <2>1, <2>2 DEF StoreTypes, WriterTypes, store, writer, Alive
<1> SUFFICES ScanTypes' /\ CountInv'
  BY <1>0, <1>2 DEF TypeOK, StoreTypes, WriterTypes, ScanTypes
<1>3. CASE OpenIndex(s)
  <2>1. live # None /\ Accepts(disk[live]) => disk[live].table # None
    BY DEF Accepts
  <2>2. CASE End(s, "none") \/ End(s, "refused")
    <3>1. /\ UNCHANGED <<quoted, at, hits, checked, sfd, table, fault>>
          /\ due' = [due EXCEPT ![s] = promise]
      BY <1>0, <1>3, <2>2 DEF OpenIndex, Opened, End, ScanTypes
    <3> QED BY <1>0, <2>2, <3>1 DEF End, StoreTypes, ScanTypes, CountInv
  <2>3. CASE ~(End(s, "none") \/ End(s, "refused"))
    <3>1. live \in Inodes /\ disk[live].table # None
      BY <1>0, <1>3, <2>1, <2>3 DEF OpenIndex, StoreTypes
    <3>2. /\ spc' = [spc EXCEPT ![s] = "meta"] /\ sfd' = [sfd EXCEPT ![s] = live]
          /\ table' = [table EXCEPT ![s] = disk[live].table]
          /\ UNCHANGED <<verdict, quoted, at, hits, checked, fault>>
          /\ due' = [due EXCEPT ![s] = promise]
      BY <1>3, <2>3 DEF OpenIndex, Opened
    <3>3. \A q \in Scans : (sfd'[q] = None) = (table'[q] = None)
      BY <1>0, <3>1, <3>2, TablesGoWithFiles
    <3> QED BY <1>0, <3>1, <3>2, <3>3 DEF StoreTypes, ScanTypes, CountInv
  <2> QED BY <2>2, <2>3
<1>4. CASE ReadMeta(s)
  BY <1>0, <1>4 DEF ReadMeta, Quoted, StoreTypes, ScanTypes, CountInv
<1>5. CASE LookUp(s)
  <2>0. at[s] \in 1..Len(machine.files)
    BY <1>0, <1>1, <1>5 DEF LookUp, ScanTypes
  <2>1. at[s] \in 1..Len(machine.files) /\ machine.files[at[s]].key \in Keys
    <3>1. machine.files[at[s]] \in [key : Keys, size : {"tiny", "usual", "huge", "gone"}]
      BY <1>1, <2>0, ElementOfSeq
    <3> QED BY <2>0, <3>1
  <2>2. UNCHANGED <<sfd, table, quoted, fault, due>>
    BY <1>5 DEF LookUp
  <2>3. CASE End(s, "broken") /\ UNCHANGED <<at, hits, checked>>
    BY <1>0, <2>2, <2>3 DEF End, ScanTypes, CountInv
  <2>4. CASE at' = [at EXCEPT ![s] = @ + 1] /\ UNCHANGED <<spc, verdict, hits, checked>>
    BY <1>0, <1>1, <2>1, <2>2, <2>4 DEF ScanTypes, CountInv
  <2>5. CASE /\ at' = [at EXCEPT ![s] = @ + 1]
             /\ checked' = [checked EXCEPT ![s] = @ + 1]
             /\ hits' = [hits EXCEPT ![s] =
                            IF Found(table[s], disk[sfd[s]].entries, machine.files[at[s]].key)
                            THEN @ \cup {machine.files[at[s]].key} ELSE @]
             /\ UNCHANGED <<spc, verdict>>
    <3>1. checked[s] + 1 < at[s] + 1 /\ checked[s] + 1 \in 0..Len(machine.files)
          /\ at[s] + 1 \in 1..Len(machine.files) + 1
      BY <1>0, <1>1, <2>1 DEF ScanTypes, CountInv
    <3>2. checked' \in [Scans -> 0..Len(machine.files)] /\ at' \in [Scans -> 1..Len(machine.files) + 1]
      BY <1>0, <2>5, <3>1 DEF ScanTypes
    <3>3. CountInv'
      BY <1>0, <2>5, <3>1 DEF ScanTypes, CountInv
    <3>4. hits' \in [Scans -> SUBSET Keys]
      BY <1>0, <2>1, <2>5 DEF ScanTypes
    <3> QED BY <1>0, <2>2, <2>5, <3>2, <3>3, <3>4 DEF ScanTypes
  <2> QED BY <1>5, <2>3, <2>4, <2>5 DEF LookUp
<1>6. CASE Report(s)
  BY <1>0, <1>6 DEF Report, End, Summary, ScanTypes, CountInv
<1>7. CASE Leave(s)
  <2>1. \A q \in Scans : (sfd'[q] = None) = (table'[q] = None)
    <3> SUFFICES ASSUME NEW q \in Scans PROVE sfd'[q] = None <=> table'[q] = None
      OBVIOUS
    <3> QED BY <1>0, <1>7 DEF Leave, ScanTypes, Types
  <2> QED BY <1>0, <1>1, <1>7, <2>1 DEF Leave, ScanTypes, CountInv, Promises
<1>8. ASSUME NEW f \in {"none", "read", "length"}, Faulty(s, f)
      PROVE  /\ UNCHANGED <<at, hits, checked>> /\ due' \in [Scans -> Promises]
             /\ fault' \in [Scans -> {"none", "read", "length"}]
  BY <1>0, <1>8 DEF Faulty, ScanTypes, Promises
<1>9. CASE OpenFails(s) \/ MetaFails(s) \/ LookUpFails(s)
  <2>1. /\ UNCHANGED <<sfd, table, quoted>>
        /\ UNCHANGED <<at, hits, checked>> /\ due' \in [Scans -> Promises]
        /\ fault' \in [Scans -> {"none", "read", "length"}]
    BY <1>8, <1>9 DEF OpenFails, MetaFails, LookUpFails
  <2> QED BY <1>0, <1>9, <2>1 DEF OpenFails, MetaFails, LookUpFails, End, ScanTypes, CountInv
<1>10. CASE LengthUnknown(s)
  <2>1. /\ live \in Inodes /\ disk[live].table # None
        /\ spc' = [spc EXCEPT ![s] = "meta"] /\ sfd' = [sfd EXCEPT ![s] = live]
        /\ table' = [table EXCEPT ![s] = disk[live].table] /\ UNCHANGED <<verdict, quoted>>
        /\ UNCHANGED <<at, hits, checked>> /\ due' \in [Scans -> Promises]
        /\ fault' \in [Scans -> {"none", "read", "length"}]
    BY <1>0, <1>8, <1>10 DEF LengthUnknown, Opened, StoreTypes
  <2>2. \A q \in Scans : (sfd'[q] = None) = (table'[q] = None)
    BY <1>0, <2>1, TablesGoWithFiles
  <2> QED BY <1>0, <2>1, <2>2 DEF ScanTypes, CountInv
<1> QED BY <1>3, <1>4, <1>5, <1>6, <1>7, <1>9, <1>10 DEF Scanning

\* Every step keeps the types.
LEMMA StepKeepsTypes == TypeInv /\ [Next]_vars => TypeInv'
<1> SUFFICES ASSUME TypeInv, [Next]_vars PROVE TypeOK' /\ CountInv'
  BY StepKeepsIndInv, StepKeepsDueInv DEF TypeInv
<1>1. ASSUME NEW w \in Writers, UNCHANGED machine,
             \/ \E c \in Corpora : StartBuild(w, c)
             \/ OpenTmp(w) \/ WriteTable(w) \/ WriteEntries(w) \/ RenameTmp(w) \/ RemoveTmp(w)
             \/ Verify(w) \/ Probe(w) \/ Copy(w) \/ Place(w)
             \/ Label(w) \/ Unlabelled(w) \/ Fail(w) \/ Kill(w)
      PROVE  TypeOK' /\ CountInv'
  <2>1. UNCHANGED <<at, checked>>
    BY <1>1 DEF StartBuild, OpenTmp, WriteTable, WriteEntries, RenameTmp, RemoveTmp, Verify, Probe,
                Copy, Place, Label, Unlabelled, Fail, Kill, scan, reading
  <2> QED BY <1>1, <2>1, CommandTypes DEF TypeInv, CountInv
<1>2. CASE UNCHANGED machine /\ (PowerLoss \/ ChangeDownload \/ CopyByHand)
  <2>1. CountInv'
    BY <1>2 DEF PowerLoss, ChangeDownload, CopyByHand, scan, reading, TypeInv, CountInv
  <2> QED BY <1>2, <2>1, EventTypes
<1>3. CASE UNCHANGED vars
  BY <1>3 DEF vars, store, writer, scan, reading, bounds, TypeInv, TypeOK, CountInv, Alive
<1> QED BY <1>1, <1>2, <1>3, ReadingTypes DEF Next, Step, Scanning

\* Every variable keeps its type: whatever happens to the files, none is ever
\* more or less than a file, and no scan counts past the machine.
THEOREM TypeCorrect == Spec => []TypeOK
<1>1. TypeInv => TypeOK
  BY DEF TypeInv
<1> QED BY <1>1, InitTypes, StepKeepsTypes, PTL DEF Spec
=============================================================================
