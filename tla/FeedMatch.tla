----------------------------- MODULE FeedMatch -----------------------------
(***************************************************************************)
(* The known-bad list of aiexpose as pure definitions: version order and   *)
(* ranges (internal/feed/version.go), matching (match.go) and the checks   *)
(* on entries (validate.go).                                               *)
(*                                                                         *)
(* A version string is written as its dotted segments and what follows its *)
(* first dash.  A segment is its leading number and the rest; the rest is  *)
(* a sequence of codes whose order is that of the lower-cased bytes.  A    *)
(* leading v, build metadata and case are spellings of one such version.   *)
(* Names and digests are compared without case, so each stands for all its *)
(* spellings.                                                              *)
(***************************************************************************)
EXTENDS Integers, Sequences

CONSTANTS
    None,     \* no leading number, no name, no digest
    MaxInt    \* the largest number strconv.Atoi can read

Dot == 0          \* the code of ".", below those of digits and letters
Segment == [lead : Nat \cup {None}, rest : Seq(Nat)]
Versions == [segs : Seq(Segment), dash : Seq(Nat)]
NoVersion == [segs |-> <<>>, dash |-> <<>>]
EmptySegment == [lead |-> None, rest |-> <<>>]

Kinds == {"package", "artifact_digest", "file_digest", "node_name"}
Verdicts == {"match", "none", "unresolved"}

ASSUME NoneAssumption == None \notin Nat
ASSUME MaxIntAssumption == MaxInt \in Nat

-----------------------------------------------------------------------------
(* Versions. *)

JoinPre(p, q) == IF p = <<>> THEN q ELSE IF q = <<>> THEN p ELSE p \o <<Dot>> \o q

Odd(v) == {i \in DOMAIN v.segs : v.segs[i].lead = None \/ v.segs[i].rest # <<>>}

\* The first segment that is not a number ends the version; what follows it is
\* dropped.  The number it starts with counts.
FirstOdd(v) == IF Odd(v) = {} THEN Len(v.segs) + 1
               ELSE CHOOSE i \in Odd(v) : \A j \in Odd(v) : i <= j

Numbers(v) ==
    LET k == FirstOdd(v)
    IN  IF k <= Len(v.segs) /\ v.segs[k].lead # None THEN k ELSE k - 1

\* parseVersion: ok, the numbers, and the suffix.  A number that is too large is
\* no number.
Parsed(v) ==
    /\ Numbers(v) > 0
    /\ Odd(v) # {} => v.segs[FirstOdd(v)] # EmptySegment
    /\ \A i \in 1..Numbers(v) : v.segs[i].lead <= MaxInt
Nums(v) == [i \in 1..Numbers(v) |-> v.segs[i].lead]
Pre(v) == IF Odd(v) = {} THEN v.dash ELSE JoinPre(v.segs[FirstOdd(v)].rest, v.dash)

Part(n, i) == IF i \in DOMAIN n THEN n[i] ELSE 0

NumsBelow(m, n) == \E i \in DOMAIN m \cup DOMAIN n :
    /\ Part(m, i) < Part(n, i)
    /\ \A j \in 1..i - 1 : Part(m, j) = Part(n, j)

Lexical(p, q) == \E i \in DOMAIN q :
    /\ \A j \in 1..i - 1 : j \in DOMAIN p /\ p[j] = q[j]
    /\ i \in DOMAIN p => p[i] < q[i]

\* A version with a suffix is below the one without, two suffixes are ordered as
\* strings.
PreBelow(p, q) == p # <<>> /\ (q = <<>> \/ Lexical(p, q))

\* Mutant: a release is not above its own prereleases.
BelowIgnoringSuffix(a, b) == NumsBelow(Nums(a), Nums(b))

\* CompareVersions(a, b) < 0.
Below(a, b) ==
    \/ NumsBelow(Nums(a), Nums(b))
    \/ ~NumsBelow(Nums(b), Nums(a)) /\ PreBelow(Pre(a), Pre(b))

\* CompareVersions(a, b) = 0.
Same(a, b) == ~Below(a, b) /\ ~Below(b, a)

-----------------------------------------------------------------------------
(* Ranges and entries. *)

Comparable(a, b) == Parsed(a) /\ Parsed(b)

\* covers: Introduced <= v < Fixed, each bound optional; the lower bound is tried
\* first.
AboveIntroduced(r, v) ==
    IF r.intro = NoVersion THEN "match"
    ELSE IF ~Comparable(v, r.intro) THEN "unresolved"
    ELSE IF Below(v, r.intro) THEN "none" ELSE "match"

BelowFixed(r, v) ==
    IF r.fixed = NoVersion THEN "match"
    ELSE IF ~Comparable(v, r.fixed) THEN "unresolved"
    ELSE IF Below(v, r.fixed) THEN "match" ELSE "none"

Covers(r, v) ==
    IF AboveIntroduced(r, v) # "match" THEN AboveIntroduced(r, v) ELSE BelowFixed(r, v)

\* Mutant: a version that cannot be compared is taken for one that is not listed.
AffectedDropsUnresolved(e, v) ==
    IF \/ e.versions \cup e.ranges = {}
       \/ \E w \in e.versions : Comparable(v, w) /\ Same(v, w)
       \/ \E r \in e.ranges : Covers(r, v) = "match"
    THEN "match" ELSE "none"

\* versionAffected: any constraint that matches decides; else one that could not
\* be compared leaves the question open.
VersionAffected(e, v) ==
    IF \/ e.versions \cup e.ranges = {}
       \/ \E w \in e.versions : Comparable(v, w) /\ Same(v, w)
       \/ \E r \in e.ranges : Covers(r, v) = "match"
    THEN "match"
    ELSE IF \/ \E w \in e.versions : ~Comparable(v, w)
            \/ \E r \in e.ranges : Covers(r, v) = "unresolved"
    THEN "unresolved" ELSE "none"

\* matches: only packages have versions to compare; one that is not pinned can
\* become any version.
Matches(e, c) ==
    CASE e.kind = "package" ->
           IF c.package = None \/ c.package # e.match THEN "none"
           ELSE IF c.version = NoVersion THEN "match"
           ELSE VersionAffected(e, c.version)
      [] e.kind = "artifact_digest" /\ c.digest # None /\ c.digest = e.match -> "match"
      [] e.kind = "file_digest" /\ e.match \in c.files -> "match"
      [] e.kind = "node_name" /\ c.name = e.match -> "match"
      [] OTHER -> "none"

\* Feed.Match: every entry against every component.
Hits(entries, components) ==
    {[entry |-> p[1], comp |-> p[2], unresolved |-> Matches(p[1], p[2]) = "unresolved"] :
        p \in {q \in entries \X components : Matches(q[1], q[2]) # "none"}}

BadRange(r) ==
    \/ r.intro = NoVersion /\ r.fixed = NoVersion
    \/ r.intro # NoVersion /\ ~Parsed(r.intro)
    \/ r.fixed # NoVersion /\ ~Parsed(r.fixed)
    \/ r.intro # NoVersion /\ r.fixed # NoVersion /\ ~Below(r.intro, r.fixed)

\* Mutant: constraints are accepted on every kind.
BadEntryAnyKind(e) ==
    \/ e.kind \notin Kinds
    \/ e.match = None
    \/ ~e.labelled
    \/ \E w \in e.versions : ~Parsed(w)
    \/ \E r \in e.ranges : BadRange(r)

\* Validate, for one entry: unlabelled stands for a missing id or title and an
\* unknown severity.
BadEntry(e) ==
    \/ e.kind \notin Kinds
    \/ e.match = None
    \/ ~e.labelled
    \/ e.versions \cup e.ranges # {} /\ e.kind # "package"
    \/ \E w \in e.versions : ~Parsed(w)
    \/ \E r \in e.ranges : BadRange(r)

\* Validate, for the entries of a feed in their order: the id is used once.
Problems(entries) ==
    {i \in DOMAIN entries :
        \/ BadEntry(entries[i])
        \/ \E j \in 1..i - 1 : entries[j].id = entries[i].id}
=============================================================================
