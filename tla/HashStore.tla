----------------------------- MODULE HashStore -----------------------------
(***************************************************************************)
(* The malware hash index on disk (internal/hashdb, checks/hashdb.go): the *)
(* commands that put one in place, --build-hashdb and --install-hashdb,    *)
(* and the scans that read it.                                             *)
(*                                                                         *)
(* An index is a file and a second one, its metadata, with what a report   *)
(* says of its origin.  A build writes hashdb.bin.tmp, a name all builds   *)
(* share, an install a file of its own; both rename it into place and then *)
(* write the metadata.  Files are kept as inodes: a name leads to one, an  *)
(* open file stays with its own whatever happens to the name.              *)
(***************************************************************************)
EXTENDS HashIndex

CONSTANTS
    Writers,      \* invocations with --build-hashdb or --install-hashdb
    Scans,        \* invocations that scan
    Corpora,      \* the sets of keys an index is built from
    Downloads,    \* what can be downloaded: [file, signed, pair, corpus], the file, what
                  \* the signed manifest describes (or None), whether it names a file of
                  \* this name, and the corpus its metadata names
    Machines,     \* [files, hashAll]: the files a scan looks up, [key, size], those of
                  \* the components first, and whether it is told to hash all weights
    Inodes,       \* enough for every file that can be open or have a name
    MaxWrites,    \* bound on builds and installs
    MaxEvents,    \* bound on failures, killed processes, changes of the download
    None, Torn    \* no inode, step, corpus; metadata that is cut off

\* More keys, in an index of 26 GB, could not be counted.
ASSUME CorporaAssumption ==
    \A c \in Corpora : c \subseteq Keys /\ IsFiniteSet(c) /\ Cardinality(c) < Counts
ASSUME MachinesAssumption ==
    Machines \subseteq [files : Seq([key : Keys, size : {"tiny", "usual", "huge", "gone"}]),
                       hashAll : BOOLEAN]
\* Every process can have a file open, next to the two that have a name.
ASSUME InodesAssumption ==
    /\ IsFiniteSet(Writers) /\ IsFiniteSet(Scans) /\ IsFiniteSet(Inodes)
    /\ Cardinality(Inodes) > Cardinality(Writers) + Cardinality(Scans) + 2
ASSUME LimitsAssumption == {MaxWrites, MaxEvents} \subseteq Nat
ASSUME DistinctAssumption ==
    /\ {None, Torn} \cap (Corpora \cup Inodes \cup Writers) = {} /\ None # Torn
    /\ None \notin {"none", "refused", "broken", "match", "nothing", "clean"}

Empty == [table |-> None, entries |-> <<>>]
Index(c) == [table |-> Offsets(Sorted(c)), entries |-> Entries(Sorted(c))]

\* Open: the header and the table are there, and the file is as long as they say.
Accepts(x) == x.table # None /\ x.table[Buckets] = Len(x.entries)

\* A download can be any file, and its manifest, signed or not, can name any corpus:
\* WriteManifest takes over whatever metadata lies beside the index.
File == [table : {None} \cup [0..Buckets -> Nat], entries : Seq(0..Tails-1)]
ASSUME DownloadsAssumption ==
    /\ \A c \in Corpora : Index(c).table # None
    /\ \A d \in Downloads : d.file \in File /\ d.corpus \in Corpora

VARIABLES
    machine,      \* the files a scan looks up
    disk,         \* disk[i]: the content of inode i
    live, tmp,    \* the inodes of hashdb.bin and hashdb.bin.tmp, or None
    meta,         \* hashdb.meta.json: the corpus it describes, None, or Torn
    synced,       \* the inodes whose content survives a power loss
    made,         \* history: what wrote an inode, "build" or "install"; "spoiled" when
                  \* two builds have had it open, a build lost its content with the
                  \* power, or it was copied over by hand
    download,     \* the downloaded file and its manifest
    wpc, wfd, job,\* of each writer: its next step, its open file, its corpus
    sealed,       \* history: the writers whose download is still the one they verified
    spc, sfd,     \* of each scan: its next step, its open index
    table, quoted,\* the offsets it has read, the metadata it has read
    at, hits,     \* the next file, the keys that matched
    checked,      \* how many files it has looked up
    verdict,      \* what it reported
    fault,        \* history: what the system refused it first: "read", to open or read
                  \* a file of the store, or "length", to tell how long the index is
    due,          \* history: the promise when it opened the index, None after a fault
    writes, events,  \* used up bounds
    lone,         \* history: the writer that has had no company and no change of
                  \* the download, or None
    promise       \* history: the index last put in place by a command that had no
                  \* company and reported success, and the corpus its metadata names,
                  \* None if that was not written; None once another writer has started

store == <<disk, live, tmp, meta, synced, made>>
writer == <<wpc, wfd, job, sealed>>
reading == <<spc, sfd, table, quoted, at, hits, checked, verdict, fault>>
scan == <<reading, due>>
bounds == <<writes, events>>
vars == <<machine, store, download, writer, scan, bounds, lone, promise>>

Init ==
    /\ machine \in Machines
    /\ disk = [i \in Inodes |-> Empty]
    /\ live = None /\ tmp = None /\ meta = None /\ synced = {}
    /\ made = [i \in Inodes |-> "spoiled"]
    /\ download \in Downloads
    /\ wpc = [w \in Writers |-> "idle"]
    /\ wfd = [w \in Writers |-> None] /\ job = [w \in Writers |-> None] /\ sealed = {}
    /\ spc = [s \in Scans |-> "idle"] /\ sfd = [s \in Scans |-> None]
    /\ table = [s \in Scans |-> None] /\ quoted = [s \in Scans |-> None]
    /\ at = [s \in Scans |-> 1] /\ hits = [s \in Scans |-> {}]
    /\ checked = [s \in Scans |-> 0] /\ verdict = [s \in Scans |-> None]
    /\ fault = [s \in Scans |-> "none"] /\ due = [s \in Scans |-> None]
    /\ writes = 0 /\ events = 0
    /\ lone = None /\ promise = None

Event == events < MaxEvents /\ events' = events + 1 /\ UNCHANGED writes

Alive == {w \in Writers : wpc[w] # "idle"}

\* An inode no name and no open file leads to.
Unused(i) == i \notin {live, tmp} \cup {wfd[w] : w \in Writers} \cup {sfd[s] : s \in Scans}
Fresh == CHOOSE i \in Inodes : Unused(i)

-----------------------------------------------------------------------------
(* The commands. *)

Begin(w, l, c) ==
    /\ wpc[w] = "idle" /\ writes < MaxWrites
    /\ wpc' = [wpc EXCEPT ![w] = l]
    /\ job' = [job EXCEPT ![w] = c]
    /\ writes' = writes + 1 /\ UNCHANGED events
    /\ lone' = IF Alive = {} THEN w ELSE None
    /\ promise' = None
    /\ due' = [s \in Scans |-> IF spc[s] = "meta" THEN None ELSE due[s]]

Go(w, from, to) == wpc[w] = from /\ wpc' = [wpc EXCEPT ![w] = to]

Quit(w) ==
    /\ wpc' = [wpc EXCEPT ![w] = "idle"]
    /\ wfd' = [wfd EXCEPT ![w] = None]
    /\ job' = [job EXCEPT ![w] = None]
    /\ sealed' = sealed \ {w}

\* Build has read, sorted and reduced its lists.
StartBuild(w, c) ==
    /\ Begin(w, "open", c)
    /\ UNCHANGED <<store, download, wfd, sealed, reading>>

\* The temporary file is created, or emptied when it is there.
OpenTmp(w) ==
    /\ Go(w, "open", "table")
    /\ LET i == IF tmp = None THEN Fresh ELSE tmp
       IN  /\ tmp' = i
           /\ wfd' = [wfd EXCEPT ![w] = i]
           /\ disk' = [disk EXCEPT ![i] = Empty]
           /\ synced' = synced \ {i}
           /\ made' = [made EXCEPT ![i] =
                          IF \E v \in Writers : wfd[v] = i THEN "spoiled" ELSE "build"]
    /\ UNCHANGED <<live, meta, download, job, sealed, scan, bounds, lone, promise>>

\* Header and offsets, then the entries: each is written at its place, over what
\* another build has put there.
WriteTable(w) ==
    /\ Go(w, "table", "entries")
    /\ disk' = [disk EXCEPT ![wfd[w]].table = Offsets(Sorted(job[w]))]
    /\ UNCHANGED <<live, tmp, meta, synced, made, download, wfd, job, sealed, scan,
                   bounds, lone, promise>>

Over(new, old) == new \o SubSeq(old, Len(new) + 1, Len(old))

WriteEntries(w) ==
    /\ Go(w, "entries", "rename")
    /\ disk' = [disk EXCEPT ![wfd[w]].entries = Over(Entries(Sorted(job[w])), @)]
    /\ UNCHANGED <<live, tmp, meta, synced, made, download, wfd, job, sealed, scan,
                   bounds, lone, promise>>

\* The file is closed and what has the temporary name takes that of the index.
\* When another build has taken it away, this one fails.
RenameTmp(w) ==
    /\ \/ tmp # None /\ Go(w, "rename", "remove") /\ live' = tmp /\ tmp' = None
       \/ tmp = None /\ Go(w, "rename", "drop") /\ UNCHANGED <<live, tmp>>
    /\ wfd' = [wfd EXCEPT ![w] = None]
    /\ UNCHANGED <<disk, meta, synced, made, download, job, sealed, scan, bounds, lone,
                   promise>>

\* The deferred removal of the temporary file, after a success or a failure: by
\* now it can be that of another build.
RemoveTmp(w) ==
    /\ \/ Go(w, "remove", "label") /\ UNCHANGED <<wfd, job, sealed>>
       \/ wpc[w] = "drop" /\ Quit(w)
    /\ tmp' = None
    /\ UNCHANGED <<disk, live, meta, synced, made, download, scan, bounds, lone, promise>>

\* Install: the manifest is signed, and the download is the file it describes.
\* Mutant: only the length is compared with the manifest.
VerifiedByLength(d) ==
    d.signed # None /\ d.pair /\ Len(d.file.entries) = Len(d.signed.entries)

Verified(d) == d.signed # None /\ d.pair /\ d.file = d.signed

Verify(w) ==
    /\ Verified(download)
    /\ Begin(w, "probe", download.corpus)
    /\ sealed' = sealed \cup {w}
    /\ UNCHANGED <<store, download, wfd, reading>>

\* The download is opened, to see that this build can read it.
Probe(w) ==
    /\ \/ Accepts(download.file) /\ Go(w, "probe", "copy") /\ UNCHANGED <<wfd, job, sealed>>
       \/ ~Accepts(download.file) /\ wpc[w] = "probe" /\ Quit(w)
    /\ UNCHANGED <<store, download, scan, bounds, lone, promise>>

\* Mutant: the file is not synced.
CopyUnsynced(w) ==
    /\ Go(w, "copy", "place")
    /\ LET i == Fresh
       IN  /\ wfd' = [wfd EXCEPT ![w] = i]
           /\ disk' = [disk EXCEPT ![i] = download.file]
           /\ synced' = synced \ {i}
           /\ made' = [made EXCEPT ![i] = "install"]
    /\ UNCHANGED <<live, tmp, meta, download, job, sealed, scan, bounds, lone, promise>>

\* It is read once more, into a file of its own that is synced.
Copy(w) ==
    /\ Go(w, "copy", "place")
    /\ LET i == Fresh
       IN  /\ wfd' = [wfd EXCEPT ![w] = i]
           /\ disk' = [disk EXCEPT ![i] = download.file]
           /\ synced' = synced \cup {i}
           /\ made' = [made EXCEPT ![i] = "install"]
    /\ UNCHANGED <<live, tmp, meta, download, job, sealed, scan, bounds, lone, promise>>

Place(w) ==
    /\ Go(w, "place", "origin")
    /\ live' = wfd[w]
    /\ wfd' = [wfd EXCEPT ![w] = None]
    /\ UNCHANGED <<disk, tmp, meta, synced, made, download, job, sealed, scan, bounds,
                   lone, promise>>

\* The command says that it succeeded: what it built, or was asked to install, is
\* the index from now on.
Finish(w, name) ==
    /\ promise' = IF lone = w
                  THEN [file |-> IF wpc[w] = "label" THEN Index(job[w]) ELSE download.signed,
                        name |-> name]
                  ELSE promise
    /\ Quit(w)

\* Mutant: the metadata is only written when there is none.
LabelOnce(w) ==
    /\ wpc[w] \in {"label", "origin"}
    /\ meta' = IF meta = None THEN job[w] ELSE meta
    /\ Finish(w, job[w])
    /\ UNCHANGED <<disk, live, tmp, synced, made, download, scan, bounds, lone>>

\* The metadata, of a build or of an install, is written in place, last.
Label(w) ==
    /\ wpc[w] \in {"label", "origin"}
    /\ meta' = job[w]
    /\ Finish(w, job[w])
    /\ UNCHANGED <<disk, live, tmp, synced, made, download, scan, bounds, lone>>

\* A build that cannot write its metadata says that it succeeded all the same.
Unlabelled(w) ==
    /\ wpc[w] = "label" /\ Event
    /\ meta' \in {meta, Torn}
    /\ Finish(w, None)
    /\ UNCHANGED <<disk, live, tmp, synced, made, download, scan, lone>>

\* Any other call fails.  A build closes its file and removes the temporary name;
\* that it cannot remove it is no error.
Fail(w) ==
    /\ Event
    /\ \/ /\ wpc[w] \in {"table", "entries", "rename"} /\ Go(w, wpc[w], "drop")
          /\ wfd' = [wfd EXCEPT ![w] = None] /\ UNCHANGED <<job, sealed>>
       \/ Go(w, "remove", "label") /\ UNCHANGED <<wfd, job, sealed>>
       \/ wpc[w] \in {"open", "drop", "probe", "copy", "place", "origin"} /\ Quit(w)
    /\ meta' \in (IF wpc[w] = "origin" THEN {meta, Torn} ELSE {meta})
    /\ UNCHANGED <<disk, live, tmp, synced, made, download, scan, lone, promise>>

\* The process is killed.
Kill(w) ==
    /\ wpc[w] # "idle" /\ Event
    /\ Quit(w)
    /\ meta' \in (IF wpc[w] \in {"label", "origin"} THEN {meta, Torn} ELSE {meta})
    /\ UNCHANGED <<disk, live, tmp, synced, made, download, scan, lone, promise>>

\* The machine goes down.  A build does not sync its file, an install does: a
\* file that was not synced can come back empty, or as long as it was with zeros
\* for entries.
Zeroed(x) == [x EXCEPT !.entries = [i \in DOMAIN @ |-> 0]]

PowerLoss ==
    /\ Event
    /\ disk' \in {[i \in Inodes |-> IF i \in synced THEN disk[i] ELSE
                                    IF i = live THEN x ELSE Empty] :
                     x \in IF live = None THEN {Empty}
                           ELSE {disk[live], Empty, Zeroed(disk[live])}}
    /\ made' = [i \in Inodes |-> IF disk'[i] # disk[i] /\ made[i] = "build"
                                 THEN "spoiled" ELSE made[i]]
    /\ meta' \in {meta, Torn}
    /\ synced' = Inodes
    /\ wpc' = [w \in Writers |-> "idle"] /\ wfd' = [w \in Writers |-> None]
    /\ job' = [w \in Writers |-> None] /\ sealed' = {}
    /\ spc' = [s \in Scans |-> "idle"] /\ sfd' = [s \in Scans |-> None]
    /\ table' = [s \in Scans |-> None] /\ quoted' = [s \in Scans |-> None]
    /\ at' = [s \in Scans |-> 1] /\ hits' = [s \in Scans |-> {}]
    /\ checked' = [s \in Scans |-> 0] /\ verdict' = [s \in Scans |-> None]
    /\ fault' = [s \in Scans |-> "none"] /\ due' = [s \in Scans |-> None]
    /\ promise' = None /\ lone' = None
    /\ UNCHANGED <<live, tmp, download>>

\* Somebody fetches another download over the first.
ChangeDownload ==
    /\ Event
    /\ download' \in Downloads \ {download}
    /\ sealed' = {} /\ lone' = None
    /\ UNCHANGED <<store, wpc, wfd, job, scan, promise>>

\* Somebody copies a download over the index by hand, in place; the copy can fail.
CopyByHand ==
    /\ Event /\ live # None
    /\ \E x \in {download.file, Empty} : disk' = [disk EXCEPT ![live] = x]
    /\ made' = [made EXCEPT ![live] = "spoiled"]
    /\ synced' = synced \ {live}
    /\ promise' = None /\ lone' = None
    /\ due' = [s \in Scans |-> None]
    /\ UNCHANGED <<live, tmp, meta, download, writer, reading>>

-----------------------------------------------------------------------------
(* The scan. *)

End(s, v) == verdict' = [verdict EXCEPT ![s] = v] /\ spc' = [spc EXCEPT ![s] = "done"]

Opened(s) ==
    /\ spc' = [spc EXCEPT ![s] = "meta"]
    /\ sfd' = [sfd EXCEPT ![s] = live]
    /\ table' = [table EXCEPT ![s] = disk[live].table]
    /\ UNCHANGED verdict

\* openMalwareIndex: there is no index, it cannot be used, or it stays open.
OpenIndex(s) ==
    /\ spc[s] = "idle"
    /\ due' = [due EXCEPT ![s] = promise]
    /\ IF live = None THEN End(s, "none") /\ UNCHANGED <<sfd, table>>
       ELSE IF ~Accepts(disk[live]) THEN End(s, "refused") /\ UNCHANGED <<sfd, table>>
       ELSE Opened(s)
    /\ UNCHANGED <<quoted, at, hits, checked, fault, store, download, writer, bounds, lone,
                   promise>>

\* Metadata that is not readable is passed over.
\* Mutant: what is left of it is used.
QuotedAsIs(m) == m

Quoted(m) == IF m = Torn THEN None ELSE m

\* The metadata goes with the name, not with the open file.
ReadMeta(s) ==
    /\ spc[s] = "meta"
    /\ spc' = [spc EXCEPT ![s] = "files"]
    /\ quoted' = [quoted EXCEPT ![s] = Quoted(meta)]
    /\ UNCHANGED <<sfd, table, at, hits, checked, verdict, fault, due, store, download,
                   writer, bounds, lone, promise>>

\* The inventory has hashed the files of components, the larger ones left out; a
\* weight is hashed now.  Too small, too large or unreadable: it is passed over.
IsHashed(f) == f.size = "usual" \/ (f.size = "huge" /\ machine.hashAll)

\* One file.  When the bucket is beyond the end of the index the check ends, with
\* a note, and its matches are dropped.
LookUp(s) ==
    /\ spc[s] = "files" /\ at[s] <= Len(machine.files)
    /\ LET f == machine.files[at[s]]
           x == disk[sfd[s]].entries
       IN  IF ~IsHashed(f) THEN
               /\ at' = [at EXCEPT ![s] = @ + 1]
               /\ UNCHANGED <<spc, verdict, hits, checked>>
           ELSE IF CannotRead(table[s], x, f.key) THEN
               End(s, "broken") /\ UNCHANGED <<at, hits, checked>>
           ELSE
               /\ at' = [at EXCEPT ![s] = @ + 1]
               /\ checked' = [checked EXCEPT ![s] = @ + 1]
               /\ hits' = [hits EXCEPT ![s] =
                              IF Found(table[s], x, f.key) THEN @ \cup {f.key} ELSE @]
               /\ UNCHANGED <<spc, verdict>>
    /\ UNCHANGED <<sfd, table, quoted, fault, due, store, download, writer, bounds, lone,
                   promise>>

\* The system refuses a call of the scan.
Faulty(s, f) ==
    /\ Event
    /\ fault' = [fault EXCEPT ![s] = IF @ = "none" THEN f ELSE @]
    /\ due' = [due EXCEPT ![s] = None]
    /\ UNCHANGED <<at, hits, checked, store, download, writer, lone, promise>>

\* The index is there and cannot be opened or read.
OpenFails(s) ==
    /\ spc[s] = "idle" /\ live # None
    /\ Faulty(s, "read") /\ End(s, "refused")
    /\ UNCHANGED <<sfd, table, quoted>>

\* Stat fails: the length is not checked, and that is no error.
LengthUnknown(s) ==
    /\ spc[s] = "idle" /\ live # None /\ disk[live].table # None
    /\ Faulty(s, "length") /\ Opened(s)
    /\ UNCHANGED quoted

\* The metadata cannot be read, which is no error either.
MetaFails(s) ==
    /\ spc[s] = "meta" /\ Faulty(s, "read")
    /\ spc' = [spc EXCEPT ![s] = "files"]
    /\ UNCHANGED <<sfd, table, quoted, verdict>>

\* An entry of a whole index cannot be read: the check ends as above.
LookUpFails(s) ==
    /\ spc[s] = "files" /\ at[s] <= Len(machine.files)
    /\ IsHashed(machine.files[at[s]]) /\ IsRead(table[s], machine.files[at[s]].key)
    /\ Faulty(s, "read") /\ End(s, "broken")
    /\ UNCHANGED <<sfd, table, quoted>>

\* Mutant: a check of no file passes.
SummaryOfNothing(h, n) == IF h # {} THEN "match" ELSE "clean"

\* SUP-050 for every key, or one of SUP-053 and SUP-052.
Summary(h, n) == IF h # {} THEN "match" ELSE IF n = 0 THEN "nothing" ELSE "clean"

Report(s) ==
    /\ spc[s] = "files" /\ at[s] > Len(machine.files)
    /\ End(s, Summary(hits[s], checked[s]))
    /\ UNCHANGED <<sfd, table, quoted, at, hits, checked, fault, due, store, download,
                   writer, bounds, lone, promise>>

\* The scan is over; the machine can be scanned again.
Leave(s) ==
    /\ spc[s] = "done"
    /\ spc' = [spc EXCEPT ![s] = "idle"] /\ sfd' = [sfd EXCEPT ![s] = None]
    /\ table' = [table EXCEPT ![s] = None] /\ quoted' = [quoted EXCEPT ![s] = None]
    /\ at' = [at EXCEPT ![s] = 1] /\ hits' = [hits EXCEPT ![s] = {}]
    /\ checked' = [checked EXCEPT ![s] = 0] /\ verdict' = [verdict EXCEPT ![s] = None]
    /\ fault' = [fault EXCEPT ![s] = "none"] /\ due' = [due EXCEPT ![s] = None]
    /\ UNCHANGED <<store, download, writer, bounds, lone, promise>>

Step ==
    \/ \E w \in Writers :
        \/ \E c \in Corpora : StartBuild(w, c)
        \/ OpenTmp(w) \/ WriteTable(w) \/ WriteEntries(w) \/ RenameTmp(w) \/ RemoveTmp(w)
        \/ Verify(w) \/ Probe(w) \/ Copy(w) \/ Place(w)
        \/ Label(w) \/ Unlabelled(w) \/ Fail(w) \/ Kill(w)
    \/ \E s \in Scans :
        \/ OpenIndex(s) \/ ReadMeta(s) \/ LookUp(s) \/ Report(s) \/ Leave(s)
        \/ OpenFails(s) \/ LengthUnknown(s) \/ MetaFails(s) \/ LookUpFails(s)
    \/ PowerLoss \/ ChangeDownload \/ CopyByHand

Next == Step /\ UNCHANGED machine

Spec == Init /\ [][Next]_vars

-----------------------------------------------------------------------------
(* The properties. *)

WriterSteps == {"idle", "open", "table", "entries", "rename", "remove", "drop", "label",
                "probe", "copy", "place", "origin"}
Promises == {None} \cup [file : File, name : Corpora \cup {None}]

\* Every variable has its type; an open or named file is one of the disk, an
\* offset table is whole or absent, and a scan with an open index has its table.
TypeOK ==
    /\ machine \in Machines
    /\ disk \in [Inodes -> File]
    /\ {live, tmp} \subseteq Inodes \cup {None}
    /\ meta \in Corpora \cup {None, Torn}
    /\ synced \subseteq Inodes
    /\ made \in [Inodes -> {"build", "install", "spoiled"}]
    /\ download \in Downloads
    /\ wpc \in [Writers -> WriterSteps]
    /\ wfd \in [Writers -> Inodes \cup {None}]
    /\ job \in [Writers -> Corpora \cup {None}]
    /\ sealed \subseteq Alive
    /\ spc \in [Scans -> {"idle", "meta", "files", "done"}]
    /\ sfd \in [Scans -> Inodes \cup {None}]
    /\ \A s \in Scans : (sfd[s] = None) = (table[s] = None)
    /\ quoted \in [Scans -> Corpora \cup {None}]
    /\ at \in [Scans -> 1..Len(machine.files) + 1]
    /\ hits \in [Scans -> SUBSET Keys]
    /\ checked \in [Scans -> 0..Len(machine.files)]
    /\ verdict \in [Scans -> {None, "none", "refused", "broken", "match", "nothing", "clean"}]
    /\ fault \in [Scans -> {"none", "read", "length"}] /\ due \in [Scans -> Promises]
    /\ writes \in 0..MaxWrites /\ events \in 0..MaxEvents
    /\ lone \in Writers \cup {None} /\ promise \in Promises

\* The keys of the files that are looked up.
Eligible ==
    {machine.files[i].key : i \in {j \in DOMAIN machine.files : IsHashed(machine.files[j])}}

\* The corpus a scan reads, for an open index that is whole.
Holds(s, c) == sfd[s] # None /\ disk[sfd[s]] = Index(c) /\ table[s] = Index(c).table

\* An interrupted, failed or repeated build or install never leaves a part of an
\* index that a scan would open: what a scan has open is the index of one corpus,
\* or of a download, whatever happened in between, a power loss after an
\* install included; not when two builds had the file open at once, a build lost
\* content with the power, somebody copied over it, or the scan could not tell how
\* long the file is (writeIndex, copyFile, Open).
OpenedIsWhole ==
    \A s \in Scans : sfd[s] # None /\ made[sfd[s]] # "spoiled" /\ fault[s] # "length" =>
        \/ \E c \in Corpora : Holds(s, c)
        \/ \E d \in Downloads : disk[sfd[s]] = d.file /\ table[s] = d.file.table

\* What the report says of the machine is true of the corpus that was open: a
\* match names exactly the files that are looked up and in the corpus, "no file
\* matches" means that every one of them was looked up and none is in it, and
\* "nothing to check" that there was none.  That the index became unreadable, which
\* takes the matches found so far with it, is only said when the system refused a
\* read (reportMalwareHashes, Contains).
VerdictIsTrue ==
    \A s \in Scans, c \in Corpora :
        Holds(s, c) /\ made[sfd[s]] # "spoiled" /\ fault[s] # "length" =>
            /\ verdict[s] = "match" => hits[s] = Eligible \cap c /\ hits[s] # {}
            /\ verdict[s] = "clean" => Eligible \cap c = {} /\ Eligible # {}
            /\ verdict[s] = "nothing" => Eligible = {}
            /\ verdict[s] = "broken" => fault[s] = "read"

\* What a build or an install that ran alone and said it succeeded put in place is
\* what the next scan that is refused no call uses; and the corpus the report names
\* is the one the build wrote or the signed manifest names, unless a build could not
\* write its metadata, of which it says nothing (Build, Install, Open).
FinishedIsUsed ==
    \A s \in Scans : due[s] # None /\ spc[s] \in {"files", "done"} =>
        /\ verdict[s] \notin {"none", "refused"} /\ sfd[s] # None
        /\ disk[sfd[s]] = due[s].file /\ table[s] = due[s].file.table
        /\ due[s].name # None => quoted[s] = due[s].name

\* An install that found the download to be the signed one puts exactly that in
\* place, unless the download was changed after it looked (Verify, Install).
OnlySignedInstalled ==
    \A w \in Writers : wpc[w] = "place" /\ w \in sealed => disk[wfd[w]] = download.signed
=============================================================================
