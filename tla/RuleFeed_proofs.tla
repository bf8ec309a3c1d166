--------------------------- MODULE RuleFeed_proofs ---------------------------
(***************************************************************************)
(* Proofs about the rule file.  The types come first, then the order of    *)
(* versions and what Load chooses, then one inductive invariant about the  *)
(* cache, from which the rest follows.                                     *)
(***************************************************************************)
EXTENDS RuleFeed, TLAPS

\* The versions NewerVersion compares.
Versions == Seq(Nat) \cup {Unversioned}

\* Missing parts count as 0, so every part is a number.
LEMMA PartIsNat == ASSUME NEW v \in Seq(Nat), NEW i \in Nat PROVE Part(v, i) \in Nat
BY DEF Part

\* No version is newer than itself.
LEMMA NewerIrreflexive ==
    ASSUME NEW a \in Versions
    PROVE  ~NewerVersion(a, a)
<1>1. CASE a = Unversioned
  BY <1>1 DEF NewerVersion
<1>2. CASE a \in Seq(Nat)
  <2>1. \A i \in DOMAIN a : Part(a, i) \in Nat
    BY <1>2 DEF Part
  <2> QED BY <1>2, <2>1, VersionAssumption DEF NewerVersion
<1> QED BY <1>1, <1>2 DEF Versions

\* "Newer" is transitive: the earlier of the two deciding parts decides.
LEMMA NewerTransitive ==
    ASSUME NEW a \in Versions, NEW b \in Versions, NEW c \in Versions,
           NewerVersion(a, b), NewerVersion(b, c)
    PROVE  NewerVersion(a, c)
<1>1. a \in Seq(Nat) /\ b \in Seq(Nat) /\ a # Unversioned /\ b # Unversioned
  BY DEF NewerVersion, Versions
<1>2. CASE c = Unversioned
  BY <1>1, <1>2 DEF NewerVersion
<1>3. CASE c # Unversioned
  <2>1. c \in Seq(Nat)
    BY <1>3 DEF Versions
  <2>2. PICK i \in DOMAIN a \cup DOMAIN b :
          Part(a, i) > Part(b, i) /\ \A j \in 1..i - 1 : Part(a, j) = Part(b, j)
    BY <1>1 DEF NewerVersion
  <2>3. PICK k \in DOMAIN b \cup DOMAIN c :
          Part(b, k) > Part(c, k) /\ \A j \in 1..k - 1 : Part(b, j) = Part(c, j)
    BY <1>3 DEF NewerVersion
  <2>4. i \in Nat \ {0} /\ k \in Nat \ {0}
    BY <1>1, <2>1
  <2>5. \A j \in Nat : Part(a, j) \in Nat /\ Part(b, j) \in Nat /\ Part(c, j) \in Nat
    BY <1>1, <2>1, PartIsNat
  <2> DEFINE m == IF i <= k THEN i ELSE k
  <2>6. m \in Nat \ {0} /\ m <= i /\ m <= k /\ (m = i \/ m = k)
    BY <2>4
  <2>7. \A j \in 1..m - 1 : j \in Nat /\ j \in 1..i - 1 /\ j \in 1..k - 1
    BY <2>4, <2>6
  <2>8. \A j \in 1..m - 1 : Part(a, j) = Part(c, j)
    BY <2>2, <2>3, <2>7
  <2>9. Part(a, m) > Part(c, m)
    <3>1. CASE i = k
      BY <3>1, <2>2, <2>3, <2>4, <2>5
    <3>2. CASE i < k
      <4>1. Part(b, i) = Part(c, i)
        BY <3>2, <2>3, <2>4
      <4> QED BY <3>2, <4>1, <2>2, <2>4, <2>5
    <3>3. CASE k < i
      <4>1. Part(a, k) = Part(b, k)
        BY <3>3, <2>2, <2>4
      <4> QED BY <3>3, <4>1, <2>3, <2>4, <2>5
    <3> QED BY <3>1, <3>2, <3>3, <2>4
  <2>10. m \in DOMAIN a
    <3>1. Part(a, m) # 0
      BY <2>5, <2>6, <2>9
    <3> QED BY <3>1 DEF Part
  <2> HIDE DEF m
  <2> QED BY <1>1, <1>3, <2>8, <2>9, <2>10 DEF NewerVersion
<1> QED BY <1>2, <1>3

\* Considering one more candidate loses nothing: what was not newer than the
\* best so far is not newer than the new best, nor is the candidate itself.
LEMMA ConsiderKeepsNewest ==
    ASSUME NEW best \in Docs \cup {None}, NEW doc, NEW sig
    PROVE  LET r == Consider(best, doc, sig) IN
           /\ r \in Docs \cup {None}
           /\ best \in Docs => /\ r \in Docs
                               /\ \A e \in Docs : ~Newer(e, best) => ~Newer(e, r)
           /\ Verify(doc, sig) => r \in Docs /\ ~Newer(doc, r)
<1> DEFINE r == Consider(best, doc, sig)
<1>1. \A d \in Docs : Version[d] \in Versions
  BY VersionAssumption DEF Versions
<1>2. None \notin Docs
  BY DistinctAssumption
<1>3. CASE Verify(doc, sig) /\ (best = None \/ Newer(doc, best))
  <2>1. r = doc /\ doc \in Docs
    BY <1>3 DEF Consider, Verify
  <2>2. ~Newer(doc, doc)
    BY <1>1, <2>1, NewerIrreflexive DEF Newer
  <2>3. ASSUME best \in Docs, NEW e \in Docs, Newer(e, doc) PROVE Newer(e, best)
    <3>1. Newer(doc, best)
      BY <1>2, <1>3, <2>3
    <3> QED BY <1>1, <2>1, <2>3, <3>1, NewerTransitive DEF Newer
  <2> QED BY <2>1, <2>2, <2>3
<1>4. CASE ~(Verify(doc, sig) /\ (best = None \/ Newer(doc, best)))
  BY <1>4 DEF Consider
<1> QED BY <1>3, <1>4

\* Load returns a signed document that no verified candidate is newer than.
LEMMA LoadIsNewest ==
    ASSUME NEW doc, NEW sig
    PROVE  /\ Load(doc, sig) \in Docs
           /\ ~Newer(Builtin, Load(doc, sig))
           /\ Verify(Beside["doc"], Beside["sig"]) => ~Newer(Beside["doc"], Load(doc, sig))
           /\ Verify(doc, sig) => ~Newer(doc, Load(doc, sig))
<1> DEFINE c1 == Consider(None, doc, sig)
           c2 == Consider(c1, Beside["doc"], Beside["sig"])
           c3 == Consider(c2, Builtin, Builtin)
<1>1. Verify(Builtin, Builtin)
  BY ShippedAssumption DEF Verify
<1>2. c1 \in Docs \cup {None} /\ (Verify(doc, sig) => c1 \in Docs /\ ~Newer(doc, c1))
  BY ConsiderKeepsNewest
<1> HIDE DEF c1
<1>3. /\ c2 \in Docs \cup {None}
      /\ c1 \in Docs => c2 \in Docs /\ \A e \in Docs : ~Newer(e, c1) => ~Newer(e, c2)
      /\ Verify(Beside["doc"], Beside["sig"]) => c2 \in Docs /\ ~Newer(Beside["doc"], c2)
  BY <1>2, ConsiderKeepsNewest
<1> HIDE DEF c2
<1>4. /\ c3 \in Docs /\ ~Newer(Builtin, c3)
      /\ c2 \in Docs => \A e \in Docs : ~Newer(e, c2) => ~Newer(e, c3)
  BY <1>1, <1>3, ConsiderKeepsNewest
<1>5. Load(doc, sig) = c3
  BY DEF Load, c1, c2
<1> HIDE DEF c3
<1> QED BY <1>2, <1>3, <1>4, <1>5 DEF Verify

\* The reference is a number.
LEMMA SignedType == \A d \in Docs : Signed(d) \in Nat
<1> SUFFICES ASSUME NEW d \in Docs PROVE Signed(d) \in Nat
  OBVIOUS
<1> DEFINE P(i) == Part(Version[d], i)
<1>1. CASE Version[d] = Unversioned
  BY <1>1 DEF Signed
<1>2. CASE Version[d] # Unversioned
  <2>1. P(1) \in Nat /\ P(2) \in Nat /\ P(3) \in Nat /\ P(4) \in Nat
    BY <1>2, VersionAssumption, PartIsNat
  <2>2. Signed(d) = 1 + ((P(1) * Base + P(2)) * Base + P(3)) * Base + P(4)
    BY <1>2 DEF Signed
  <2> HIDE DEF P
  <2> DEFINE p2 == P(1) * Base + P(2)
             p3 == p2 * Base + P(3)
  <2>3. p2 \in Nat
    BY <2>1, DateAssumption
  <2>4. Signed(d) = 1 + p3 * Base + P(4)
    BY <2>2
  <2> HIDE DEF p2
  <2>5. p3 \in Nat
    BY <2>1, <2>3, DateAssumption
  <2> HIDE DEF p3
  <2>6. p3 * Base \in Nat
    BY <2>5, DateAssumption
  <2> QED BY <2>1, <2>4, <2>6
<1> QED BY <1>1, <1>2

\* One digit in base Base decides over all the lower ones.
LEMMA DigitDecides ==
    ASSUME NEW x \in Nat, NEW y \in Nat, NEW p \in Nat, NEW q \in Nat,
           p < Base, x * Base + p > y * Base + q
    PROVE  x > y \/ (x = y /\ p > q)
<1> SUFFICES ASSUME x < y PROVE FALSE
  BY DateAssumption
<1>1. PICK k \in Nat : y = x + 1 + k
  <2>1. y - x - 1 \in Nat /\ y = x + 1 + (y - x - 1)
    OBVIOUS
  <2> QED BY <2>1
<1>2. y * Base = x * Base + Base + k * Base
  BY <1>1, DateAssumption
<1>3. k * Base \in Nat /\ x * Base \in Nat /\ y * Base \in Nat
  BY DateAssumption
<1> QED BY <1>2, <1>3, DateAssumption

\* Equal numbers have equal digits.
LEMMA DigitsAgree ==
    ASSUME NEW x \in Nat, NEW y \in Nat, NEW p \in Nat, NEW q \in Nat,
           p < Base, q < Base, x * Base + p = y * Base + q
    PROVE  x = y /\ p = q
<1> SUFFICES ASSUME x # y PROVE FALSE
  BY DateAssumption
<1>1. x < y \/ y < x
  OBVIOUS
<1>2. x * Base \in Nat /\ y * Base \in Nat
  BY DateAssumption
<1>3. CASE x < y
  <2>2. PICK k \in Nat : y = x + 1 + k
    <3>1. y - x - 1 \in Nat /\ y = x + 1 + (y - x - 1)
      BY <1>3
    <3> QED BY <3>1
  <2>3. y * Base = x * Base + Base + k * Base /\ k * Base \in Nat
    BY <2>2, DateAssumption
  <2> QED BY <1>2, <2>3, DateAssumption
<1>4. CASE y < x
  <2>2. PICK k \in Nat : x = y + 1 + k
    <3>1. x - y - 1 \in Nat /\ x = y + 1 + (x - y - 1)
      BY <1>4
    <3> QED BY <3>1
  <2>3. x * Base = y * Base + Base + k * Base /\ k * Base \in Nat
    BY <2>2, DateAssumption
  <2> QED BY <1>2, <2>3, DateAssumption
<1> QED BY <1>1, <1>3, <1>4

\* A document signed later has the newer version: of the numbers Signed reads
\* the versions as, the first digit that differs is larger.
LEMMA LaterIsNewer ==
    ASSUME NEW d \in Docs, NEW e \in Docs, Signed(e) > Signed(d)
    PROVE  Newer(e, d)
<1> DEFINE a == Version[e]
           b == Version[d]
<1>1. a \in Versions /\ b \in Versions
  BY VersionAssumption DEF Versions
<1>2. \A v \in Seq(Nat), i \in Nat : Part(v, i) \in Nat
  BY PartIsNat
<1>3. a # Unversioned
  <2>1. Signed(d) \in Nat
    BY SignedType
  <2>2. a = Unversioned => Signed(e) = 0
    BY DEF Signed
  <2> QED BY <2>1, <2>2
<1>4. CASE b = Unversioned
  BY <1>3, <1>4 DEF Newer, NewerVersion
<1>5. CASE b # Unversioned
  <2>1. a \in Seq(Nat) /\ b \in Seq(Nat)
    BY <1>1, <1>3, <1>5 DEF Versions
  <2> DEFINE A(i) == Part(a, i)
             B(i) == Part(b, i)
  <2>2. \A i \in Nat : A(i) \in Nat /\ B(i) \in Nat
    BY <1>2, <2>1
  <2>3. \A i \in Nat : A(i) < Base /\ B(i) < Base
    BY <1>3, <1>5, <2>1, DateAssumption DEF Part
  <2>4. /\ Signed(e) = 1 + ((A(1) * Base + A(2)) * Base + A(3)) * Base + A(4)
        /\ Signed(d) = 1 + ((B(1) * Base + B(2)) * Base + B(3)) * Base + B(4)
    BY <1>3, <1>5 DEF Signed
  <2>5. ASSUME NEW i \in Nat \ {0}, A(i) > B(i), \A j \in 1..i - 1 : A(j) = B(j)
        PROVE  Newer(e, d)
    <3>1. i \in DOMAIN a
      <4>1. A(i) # 0
        BY <2>2, <2>5
      <4> QED BY <4>1 DEF Part
    <3> QED BY <1>3, <2>5, <3>1 DEF Newer, NewerVersion
  <2> HIDE DEF A, B
  <2> DEFINE a2 == A(1) * Base + A(2)
             b2 == B(1) * Base + B(2)
             a3 == a2 * Base + A(3)
             b3 == b2 * Base + B(3)
  <2>6. /\ A(1) \in Nat /\ A(2) \in Nat /\ A(3) \in Nat /\ A(4) \in Nat
        /\ B(1) \in Nat /\ B(2) \in Nat /\ B(3) \in Nat /\ B(4) \in Nat
        /\ A(2) < Base /\ A(3) < Base /\ A(4) < Base /\ B(2) < Base /\ B(3) < Base
    BY <2>2, <2>3
  <2>7. a2 \in Nat /\ b2 \in Nat
    BY <2>6, DateAssumption
  <2>8. a2 > b2 => A(1) > B(1) \/ (A(1) = B(1) /\ A(2) > B(2))
    BY <2>6, DigitDecides
  <2>9. a2 = b2 => A(1) = B(1) /\ A(2) = B(2)
    BY <2>6, DigitsAgree
  <2>10. Signed(e) = 1 + a3 * Base + A(4) /\ Signed(d) = 1 + b3 * Base + B(4)
    BY <2>4
  <2> HIDE DEF a2, b2
  <2>11. a3 \in Nat /\ b3 \in Nat
    BY <2>6, <2>7, DateAssumption
  <2>12. a3 > b3 => a2 > b2 \/ (a2 = b2 /\ A(3) > B(3))
    BY <2>6, <2>7, DigitDecides
  <2>13. a3 = b3 => a2 = b2 /\ A(3) = B(3)
    BY <2>6, <2>7, DigitsAgree
  <2> HIDE DEF a3, b3
  <2>14. a3 > b3 \/ (a3 = b3 /\ A(4) > B(4))
    <3>1. a3 * Base \in Nat /\ b3 * Base \in Nat
      BY <2>11, DateAssumption
    <3>2. a3 * Base + A(4) > b3 * Base + B(4)
      BY <2>6, <2>10, <3>1
    <3> QED BY <2>6, <2>11, <3>2, DigitDecides
  <2>15. PICK i \in 1..4 : A(i) > B(i) /\ \A j \in 1..i - 1 : A(j) = B(j)
    <3>1. CASE A(1) > B(1)
      BY <3>1
    <3>2. CASE A(1) = B(1) /\ A(2) > B(2)
      BY <3>2
    <3>3. CASE A(1) = B(1) /\ A(2) = B(2) /\ A(3) > B(3)
      BY <3>3
    <3>4. CASE A(1) = B(1) /\ A(2) = B(2) /\ A(3) = B(3) /\ A(4) > B(4)
      BY <3>4
    <3> QED BY <2>8, <2>9, <2>12, <2>13, <2>14, <3>1, <3>2, <3>3, <3>4
  <2> QED BY <2>5, <2>15
<1> QED BY <1>4, <1>5

-----------------------------------------------------------------------------
(* Types. *)

\* Writing leaves the new content, or bytes of no whole file.
LEMMA WrittenType ==
    ASSUME NEW old \in Contents, NEW new \in Docs, NEW c \in Written(old, new)
    PROVE  c \in Contents
BY DEF Written, Contents

\* The initial state has the types.
LEMMA InitTypes == Init => TypeOK
<1> SUFFICES ASSUME Init PROVE TypeOK
  OBVIOUS
<1>1. /\ live \in [Files -> Contents \cup {Missing}]
      /\ tmp \in [Files -> Contents \cup {Missing}]
      /\ payload \in [Writers -> [Files -> Docs] \cup {None}]
      /\ fd \in [Writers -> {"tmp", "live", "replaced", None}]
  BY DEF Init
<1>2. wpc \in [Writers -> {<<"idle">>} \cup ({"open", "write", "rename"} \X Files)]
  BY DEF Init
<1>3. /\ spc \in [Scans -> {"idle", "rules", "scan", "list", "report"}]
      /\ read \in [Scans -> Contents \cup {Missing, None}]
      /\ used \in [Scans -> [rules : Docs \cup {None}, list : Docs \cup {None}]]
  BY DEF Init
<1>4. writes \in 0..MaxWrites /\ faults \in 0..MaxFaults
  BY LimitsAssumption DEF Init
<1>5. promise \in Docs \cup {None} /\ due \in [Scans -> Docs \cup {None}]
  BY DEF Init
<1>6. overlapped \subseteq Writers
  BY DEF Init
<1>7. crowded \in BOOLEAN
  BY Zenon DEF Init
<1> QED BY <1>1, <1>2, <1>3, <1>4, <1>5, <1>6, <1>7 DEF TypeOK

\* An install that is alive has a payload, and an open file while it writes.
AliveOK == \A w \in Writers : wpc[w] # <<"idle">> => payload[w] \in [Files -> Docs]

\* A file that is being written is there.
OpenOK == \A w \in Writers, f \in Files : wpc[w] = <<"write", f>> =>
    /\ fd[w] = "tmp" => tmp[f] \in Contents
    /\ fd[w] = "live" => live[f] \in Contents

TypeInv == TypeOK /\ AliveOK /\ OpenOK

\* The types hold at first, with no install alive.
LEMMA InitTypeInv == Init => TypeInv
BY InitTypes DEF Init, TypeInv, AliveOK, OpenOK

\* What a rename does to the types: an open temporary file becomes the live one.
LEMMA ReplaceTypes ==
    ASSUME TypeInv, NEW w \in Writers, NEW f \in Files, Replace(w, f)
    PROVE  /\ live' \in [Files -> Contents \cup {Missing}]
           /\ tmp' \in [Files -> Contents \cup {Missing}]
           /\ fd' \in [Writers -> {"tmp", "live", "replaced", None}]
           /\ \A v \in Writers, g \in Files : wpc[v] = <<"write", g>> =>
                /\ fd'[v] = "tmp" => tmp'[g] \in Contents
                /\ fd'[v] = "live" => live'[g] \in Contents
<1>1. live' \in [Files -> Contents \cup {Missing}] /\ tmp' \in [Files -> Contents \cup {Missing}]
  BY DEF TypeInv, TypeOK, Replace
<1>2. fd' \in [Writers -> {"tmp", "live", "replaced", None}]
  BY DEF TypeInv, TypeOK, Replace, Moved
<1>3. ASSUME NEW v \in Writers, NEW g \in Files, wpc[v] = <<"write", g>>
      PROVE  /\ fd'[v] = "tmp" => tmp'[g] \in Contents
             /\ fd'[v] = "live" => live'[g] \in Contents
  <2>1. CASE g = f
    BY <1>3, <2>1 DEF TypeInv, TypeOK, OpenOK, Replace, Moved
  <2>2. CASE g # f
    <3>1. fd'[v] = fd[v]
      BY <1>3, <2>2 DEF Replace, Moved
    <3>2. tmp'[g] = tmp[g] /\ live'[g] = live[g]
      BY <2>2 DEF TypeInv, TypeOK, Replace
    <3> QED BY <1>3, <3>1, <3>2 DEF TypeInv, OpenOK
  <2> QED BY <2>1, <2>2
<1> QED BY <1>1, <1>2, <1>3

\* Every step keeps the types.
LEMMA StepTypeInv == TypeInv /\ [Next]_vars => TypeInv'
<1> SUFFICES ASSUME TypeInv, [Next]_vars PROVE TypeInv'
  OBVIOUS
<1> USE DEF TypeInv, TypeOK, AliveOK, OpenOK, installs, scanVars, writerVars, cache
<1>1. ASSUME NEW w \in Writers, NEW d \in Docs \cup {Torn}, NEW s \in Docs \cup {Torn},
             Obtain(w, d, s)
      PROVE  TypeInv'
  <2>1. [doc |-> d, sig |-> s] \in [Files -> Docs]
    BY <1>1 DEF Obtain, Verify, Files
  <2> QED BY <1>1, <2>1, LimitsAssumption DEF Obtain, WriterAt, Files, Alive
<1>2. ASSUME NEW w \in Writers, NEW f \in Files, Open(w, f) PROVE TypeInv'
  <2>1. /\ wpc[w] = <<"open", f>>
        /\ tmp' = [tmp EXCEPT ![f] = Empty]
        /\ fd' = [fd EXCEPT ![w] = "tmp"]
        /\ wpc' = [wpc EXCEPT ![w] = <<"write", f>>]
        /\ UNCHANGED <<live, payload, installs, scanVars, faults, promise, due>>
    BY <1>2 DEF Open, WriterAt
  <2>2. tmp' \in [Files -> Contents \cup {Missing}] /\ tmp'[f] \in Contents
    BY <2>1 DEF Contents
  <2>3. wpc' \in [Writers -> {<<"idle">>} \cup ({"open", "write", "rename"} \X Files)]
    BY <2>1
  <2>4. AliveOK'
    BY <2>1
  <2>5. OpenOK'
    <3>1. \A g \in Files : tmp[g] \in Contents => tmp'[g] \in Contents
      BY <2>1, <2>2
    <3> QED BY <2>1, <2>2, <3>1
  <2> QED BY <2>1, <2>2, <2>3, <2>4, <2>5
<1>3. ASSUME NEW w \in Writers, NEW f \in Files, Write(w, f) PROVE TypeInv'
  <2>0. payload[w][f] \in Docs
    BY <1>3 DEF Write
  <2>1. /\ tmp' \in [Files -> Contents \cup {Missing}]
        /\ live' \in [Files -> Contents \cup {Missing}]
        /\ \A g \in Files : tmp[g] \in Contents => tmp'[g] \in Contents
        /\ \A g \in Files : live[g] \in Contents => live'[g] \in Contents
    <3>1. CASE fd[w] = "tmp"
      BY <1>3, <2>0, <3>1, WrittenType DEF Write
    <3>2. CASE fd[w] = "live"
      BY <1>3, <2>0, <3>2, WrittenType DEF Write
    <3>3. CASE fd[w] = "replaced"
      BY <1>3, <3>3 DEF Write
    <3> QED BY <1>3, <3>1, <3>2, <3>3 DEF Write
  <2>2. /\ UNCHANGED <<payload, installs, scanVars, faults, promise, due>>
        /\ fd' = [fd EXCEPT ![w] = None]
        /\ wpc' = [wpc EXCEPT ![w] = <<"rename", f>>]
        /\ wpc[w] = <<"write", f>>
    BY <1>3 DEF Write, WriterAt
  <2>3. wpc' \in [Writers -> {<<"idle">>} \cup ({"open", "write", "rename"} \X Files)]
    BY <2>2
  <2>4. AliveOK'
    BY <2>2
  <2>5. OpenOK'
    BY <2>1, <2>2
  <2> QED BY <2>1, <2>2, <2>3, <2>4, <2>5
<1>4. ASSUME NEW w \in Writers, NEW f \in Files, RenameFails(w, f) PROVE TypeInv'
  BY <1>4 DEF RenameFails, Quit, WriterAt
<1>5. ASSUME NEW w \in Writers, RenameDoc(w) PROVE TypeInv'
  <2>1. "doc" \in Files /\ "sig" \in Files
    BY DEF Files
  <2>2. /\ Replace(w, "doc")
        /\ wpc' = [wpc EXCEPT ![w] = <<"open", "sig">>]
        /\ UNCHANGED <<payload, installs, scanVars, faults, promise, due>>
    BY <1>5 DEF RenameDoc, WriterAt
  <2>3. wpc' \in [Writers -> {<<"idle">>} \cup ({"open", "write", "rename"} \X Files)]
    BY <2>1, <2>2
  <2>4. AliveOK'
    BY <2>1, <2>2 DEF Replace
  <2>5. OpenOK'
    BY <2>1, <2>2, ReplaceTypes
  <2>6. /\ live' \in [Files -> Contents \cup {Missing}]
        /\ tmp' \in [Files -> Contents \cup {Missing}]
        /\ fd' \in [Writers -> {"tmp", "live", "replaced", None}]
    BY <2>1, <2>2, ReplaceTypes
  <2> QED BY <2>2, <2>3, <2>4, <2>5, <2>6
<1>6. ASSUME NEW w \in Writers, RenameSig(w) PROVE TypeInv'
  <2>1. "doc" \in Files /\ "sig" \in Files
    BY DEF Files
  <2>2. Replace(w, "sig") /\ wpc' = [wpc EXCEPT ![w] = <<"idle">>]
    BY <1>6 DEF RenameSig, Quit, WriterAt
  <2>3. promise' \in Docs \cup {None}
    BY <1>6, <2>1, <2>2 DEF RenameSig, Replace
  <2> QED BY <1>6, <2>1, <2>2, <2>3, ReplaceTypes DEF RenameSig, Quit
<1>7. ASSUME NEW w \in Writers, Abort(w) PROVE TypeInv'
  <2>1. Torn \in Contents
    BY DEF Contents
  <2>2. /\ tmp' \in [Files -> Contents \cup {Missing}]
        /\ live' \in [Files -> Contents \cup {Missing}]
        /\ \A g \in Files : tmp[g] \in Contents => tmp'[g] \in Contents
        /\ \A g \in Files : live[g] \in Contents => live'[g] \in Contents
    BY <1>7, <2>1 DEF Abort
  <2>3. /\ UNCHANGED <<installs, scanVars, promise, due>>
        /\ fd' = [fd EXCEPT ![w] = None]
        /\ wpc' = [wpc EXCEPT ![w] = <<"idle">>]
        /\ payload' = [payload EXCEPT ![w] = None]
        /\ faults' \in 0..MaxFaults
    BY <1>7, LimitsAssumption DEF Abort, Quit, WriterAt, Fault
  <2>4. OpenOK'
    BY <2>2, <2>3
  <2> QED BY <2>2, <2>3, <2>4
<1>8. ASSUME NEW s \in Scans, ReadDoc(s) PROVE TypeInv'
  BY <1>8 DEF ReadDoc, ScanAt, Files
<1>9. ASSUME NEW s \in Scans, LoadRules(s) PROVE TypeInv'
  BY <1>9, LoadIsNewest DEF LoadRules, ScanAt
<1>10. ASSUME NEW s \in Scans, LoadList(s) PROVE TypeInv'
  BY <1>10, LoadIsNewest DEF LoadList, ScanAt
<1>11. ASSUME NEW s \in Scans, EndScan(s) PROVE TypeInv'
  BY <1>11 DEF EndScan, ScanAt
<1>12. CASE UNCHANGED vars
  BY <1>12 DEF vars
<1> QED
  BY <1>1, <1>2, <1>3, <1>4, <1>5, <1>6, <1>7, <1>8, <1>9, <1>10, <1>11, <1>12
     DEF Next, WriterNext, ScanNext

\* Every variable of the rule file keeps its type.
THEOREM TypeCorrect == Spec => []TypeOK
<1>1. TypeInv => TypeOK
  BY DEF TypeInv
<1> QED BY InitTypeInv, StepTypeInv, <1>1, PTL DEF Spec

-----------------------------------------------------------------------------
(* An install that has the cache to itself. *)

Solo(w) == wpc[w] # <<"idle">> /\ w \notin overlapped

\* The stages of such an install: its temporary file is empty while it is open,
\* whole when it is renamed, and the document is in place before the signature.
Stage(w) ==
    /\ payload[w]["doc"] = payload[w]["sig"]
    /\ \A f \in Files :
        /\ wpc[w] = <<"write", f>> => fd[w] = "tmp" /\ tmp[f] = Empty
        /\ wpc[w] = <<"rename", f>> => tmp[f] = payload[w][f]
    /\ \A l \in {"open", "write", "rename"} :
           wpc[w] = <<l, "sig">> => live["doc"] = payload[w]["doc"]

SoloOK == \A w \in Writers : Solo(w) =>
    /\ \A v \in Writers \ {w} : wpc[v] = <<"idle">>
    /\ Stage(w)

WholeOK == ~crowded => /\ overlapped = {}
                       /\ \A f \in Files : live[f] \in Docs \cup {Missing}

\* A promise stands only while no install is alive, and the cache holds it.
PromiseOK ==
    /\ \A w \in Writers : wpc[w] # <<"idle">> =>
           promise = None /\ \A s \in Scans : due[s] = None
    /\ promise # None => live["doc"] = promise /\ live["sig"] = promise

CacheInv == SoloOK /\ WholeOK /\ PromiseOK

\* Only the install itself acts on what its stage is about, so the others keep
\* theirs when nothing of the cache changes.
LEMMA OthersKeepSolo ==
    ASSUME TypeInv, SoloOK, NEW w \in Writers,
           UNCHANGED overlapped,
           \A v \in Writers \ {w} : wpc'[v] = wpc[v],
           wpc[w] # <<"idle">>,
           Solo(w)' => Stage(w)'
    PROVE  SoloOK'
<1>1. ASSUME NEW v \in Writers, Solo(v)'
      PROVE  (\A u \in Writers \ {v} : wpc'[u] = <<"idle">>) /\ Stage(v)'
  <2>1. CASE v = w
    BY <1>1, <2>1 DEF Solo, SoloOK
  <2>2. CASE v # w
    BY <1>1, <2>2 DEF Solo, SoloOK
  <2> QED BY <2>1, <2>2
<1> QED BY <1>1 DEF SoloOK

\* Outside the installs nothing changes the cache or the promise.
LEMMA QuietKeepsCache ==
    ASSUME CacheInv, UNCHANGED <<cache, writerVars, promise>>,
           \A s \in Scans : due'[s] \in {due[s], promise, None}
    PROVE  CacheInv'
<1> USE DEF CacheInv, cache, writerVars, installs
<1>1. SoloOK'
  BY DEF SoloOK, Solo, Stage
<1>2. WholeOK'
  BY DEF WholeOK
<1>3. PromiseOK'
  BY DEF PromiseOK
<1> QED BY <1>1, <1>2, <1>3

\* Each step of an install keeps the invariant of the cache.
LEMMA StepCache == TypeInv /\ CacheInv /\ [Next]_vars => CacheInv'
<1> SUFFICES ASSUME TypeInv, CacheInv, [Next]_vars PROVE CacheInv'
  OBVIOUS
<1> USE DEF CacheInv
<1>a. "doc" \in Files /\ "sig" \in Files /\ Files = {"doc", "sig"}
  BY DEF Files
<1>1. ASSUME NEW w \in Writers, NEW d \in Docs \cup {Torn}, NEW s \in Docs \cup {Torn},
             Obtain(w, d, s)
      PROVE  CacheInv'
  <2>1. /\ wpc[w] = <<"idle">>
        /\ wpc' = [wpc EXCEPT ![w] = <<"open", "doc">>]
        /\ payload' = [payload EXCEPT ![w] = [doc |-> d, sig |-> s]]
        /\ d = s /\ promise' = None /\ due' = [t \in Scans |-> None]
        /\ overlapped' = IF Alive = {} THEN {} ELSE overlapped \cup Alive \cup {w}
        /\ crowded' = (crowded \/ Alive # {})
        /\ UNCHANGED <<live, tmp, fd>>
    BY <1>1 DEF Obtain, Verify, WriterAt, cache
  <2>2. wpc'[w] = <<"open", "doc">> /\ \A v \in Writers \ {w} : wpc'[v] = wpc[v]
    BY <2>1 DEF TypeInv, TypeOK
  <2>3. SoloOK'
    <3>1. ASSUME NEW v \in Writers, Solo(v)' PROVE v = w /\ Alive = {}
      BY <3>1, <2>1, <2>2 DEF Solo, Alive
    <3>2. Alive = {} => \A u \in Writers \ {w} : wpc'[u] = <<"idle">>
      BY <2>2 DEF Alive
    <3>3. payload'[w] = [doc |-> d, sig |-> s]
      BY <2>1 DEF TypeInv, TypeOK
    <3>4. Stage(w)'
      BY <2>1, <2>2, <3>3, <1>a DEF Stage
    <3> QED BY <3>1, <3>2, <3>4 DEF SoloOK
  <2>4. WholeOK'
    BY <2>1 DEF WholeOK
  <2>5. PromiseOK'
    BY <2>1 DEF PromiseOK
  <2> QED BY <2>3, <2>4, <2>5
<1>2. ASSUME NEW w \in Writers, NEW f \in Files, Open(w, f) PROVE CacheInv'
  <2>1. /\ wpc[w] = <<"open", f>>
        /\ tmp' = [tmp EXCEPT ![f] = Empty]
        /\ fd' = [fd EXCEPT ![w] = "tmp"]
        /\ wpc' = [wpc EXCEPT ![w] = <<"write", f>>]
        /\ UNCHANGED <<live, payload, overlapped, crowded, promise, due>>
    BY <1>2 DEF Open, WriterAt, installs
  <2>2. /\ wpc'[w] = <<"write", f>> /\ wpc[w] # <<"idle">>
        /\ \A v \in Writers \ {w} : wpc'[v] = wpc[v]
        /\ tmp'[f] = Empty /\ fd'[w] = "tmp"
    BY <2>1 DEF TypeInv, TypeOK
  <2>3. Solo(w)' => Stage(w)'
    BY <2>1, <2>2, <1>a DEF Solo, SoloOK, Stage
  <2>4. SoloOK'
    BY <2>1, <2>2, <2>3, OthersKeepSolo
  <2>5. WholeOK' /\ PromiseOK'
    BY <2>1, <2>2 DEF WholeOK, PromiseOK
  <2> QED BY <2>4, <2>5
<1>3. ASSUME NEW w \in Writers, NEW f \in Files, Write(w, f) PROVE CacheInv'
  <2>1. /\ wpc[w] = <<"write", f>>
        /\ wpc' = [wpc EXCEPT ![w] = <<"rename", f>>]
        /\ UNCHANGED <<payload, overlapped, crowded, promise, due>>
    BY <1>3 DEF Write, WriterAt, installs
  <2>2. /\ wpc'[w] = <<"rename", f>> /\ wpc[w] # <<"idle">>
        /\ \A v \in Writers \ {w} : wpc'[v] = wpc[v]
    BY <2>1 DEF TypeInv, TypeOK
  <2>3. w \notin overlapped => tmp'[f] = payload[w][f] /\ live' = live
    <3>1. SUFFICES ASSUME w \notin overlapped PROVE tmp'[f] = payload[w][f] /\ live' = live
      OBVIOUS
    <3>2. fd[w] = "tmp" /\ tmp[f] = Empty
      BY <3>1, <2>1, <2>2 DEF Solo, SoloOK, Stage
    <3>3. Written(tmp[f], payload[w][f]) = {payload[w][f]}
      BY <3>2 DEF Written
    <3> QED BY <1>3, <3>2, <3>3 DEF Write, TypeInv, TypeOK
  <2>4. Solo(w)' => Stage(w)'
    BY <2>1, <2>2, <2>3, <1>a DEF Solo, SoloOK, Stage
  <2>5. SoloOK'
    BY <2>1, <2>2, <2>4, OthersKeepSolo
  <2>6. WholeOK'
    BY <2>1, <2>3 DEF WholeOK
  <2>7. PromiseOK'
    BY <2>1, <2>2 DEF PromiseOK
  <2> QED BY <2>5, <2>6, <2>7
<1>4. ASSUME NEW w \in Writers, NEW f \in Files, RenameFails(w, f) PROVE CacheInv'
  <2>1. /\ wpc[w] = <<"rename", f>>
        /\ wpc' = [wpc EXCEPT ![w] = <<"idle">>]
        /\ UNCHANGED <<live, overlapped, crowded, promise, due>>
    BY <1>4 DEF RenameFails, Quit, WriterAt, installs, cache
  <2>2. /\ wpc'[w] = <<"idle">> /\ wpc[w] # <<"idle">>
        /\ \A v \in Writers \ {w} : wpc'[v] = wpc[v]
    BY <2>1 DEF TypeInv, TypeOK
  <2>3. SoloOK'
    BY <2>1, <2>2, OthersKeepSolo DEF Solo
  <2>4. WholeOK' /\ PromiseOK'
    BY <2>1, <2>2 DEF WholeOK, PromiseOK
  <2> QED BY <2>3, <2>4
<1>5. ASSUME NEW w \in Writers, RenameDoc(w) PROVE CacheInv'
  <2>1. /\ wpc[w] = <<"rename", "doc">>
        /\ wpc' = [wpc EXCEPT ![w] = <<"open", "sig">>]
        /\ live' = [live EXCEPT !["doc"] = tmp["doc"]]
        /\ UNCHANGED <<payload, overlapped, crowded, promise, due>>
    BY <1>5 DEF RenameDoc, Replace, WriterAt, installs
  <2>2. /\ wpc'[w] = <<"open", "sig">> /\ wpc[w] # <<"idle">>
        /\ \A v \in Writers \ {w} : wpc'[v] = wpc[v]
        /\ live'["doc"] = tmp["doc"] /\ live'["sig"] = live["sig"]
    BY <2>1, <1>a DEF TypeInv, TypeOK
  <2>3. w \notin overlapped => tmp["doc"] = payload[w]["doc"]
    BY <2>1, <2>2, <1>a DEF Solo, SoloOK, Stage
  <2>4. payload[w]["doc"] \in Docs
    BY <2>2, <1>a DEF TypeInv, AliveOK
  <2>5. Solo(w)' => Stage(w)'
    BY <2>1, <2>2, <2>3, <1>a DEF Solo, SoloOK, Stage
  <2>6. SoloOK'
    BY <2>1, <2>2, <2>5, OthersKeepSolo
  <2>7. WholeOK'
    BY <2>1, <2>2, <2>3, <2>4, <1>a DEF WholeOK
  <2>8. PromiseOK'
    BY <2>1, <2>2 DEF PromiseOK
  <2> QED BY <2>6, <2>7, <2>8
<1>6. ASSUME NEW w \in Writers, RenameSig(w) PROVE CacheInv'
  <2>1. /\ wpc[w] = <<"rename", "sig">>
        /\ wpc' = [wpc EXCEPT ![w] = <<"idle">>]
        /\ live' = [live EXCEPT !["sig"] = tmp["sig"]]
        /\ promise' = IF w \notin overlapped THEN payload[w]["doc"] ELSE None
        /\ UNCHANGED <<overlapped, crowded, due>>
    BY <1>6 DEF RenameSig, Replace, Quit, WriterAt, installs
  <2>2. /\ wpc'[w] = <<"idle">> /\ wpc[w] # <<"idle">>
        /\ \A v \in Writers \ {w} : wpc'[v] = wpc[v]
        /\ live'["sig"] = tmp["sig"] /\ live'["doc"] = live["doc"]
    BY <2>1, <1>a DEF TypeInv, TypeOK
  <2>3. w \notin overlapped =>
          /\ tmp["sig"] = payload[w]["doc"] /\ live["doc"] = payload[w]["doc"]
          /\ \A v \in Writers \ {w} : wpc[v] = <<"idle">>
    BY <2>1, <2>2, <1>a DEF Solo, SoloOK, Stage
  <2>4. payload[w]["doc"] \in Docs
    BY <2>2, <1>a DEF TypeInv, AliveOK
  <2>5. SoloOK'
    BY <2>1, <2>2, OthersKeepSolo DEF Solo
  <2>6. WholeOK'
    BY <2>1, <2>2, <2>3, <2>4, <1>a DEF WholeOK
  <2>7. PromiseOK'
    <3>1. CASE w \notin overlapped
      BY <2>1, <2>2, <2>3, <3>1 DEF PromiseOK
    <3>2. CASE w \in overlapped
      BY <2>1, <2>2, <3>2 DEF PromiseOK
    <3> QED BY <3>1, <3>2
  <2> QED BY <2>5, <2>6, <2>7
<1>7. ASSUME NEW w \in Writers, Abort(w) PROVE CacheInv'
  <2>1. /\ wpc[w] # <<"idle">>
        /\ wpc' = [wpc EXCEPT ![w] = <<"idle">>]
        /\ UNCHANGED <<overlapped, crowded, promise, due>>
    BY <1>7 DEF Abort, Quit, WriterAt, installs
  <2>2. /\ wpc'[w] = <<"idle">> /\ wpc[w] # <<"idle">>
        /\ \A v \in Writers \ {w} : wpc'[v] = wpc[v]
    BY <2>1 DEF TypeInv, TypeOK
  <2>3. w \notin overlapped => live' = live
    <3>1. w \notin overlapped => \A f \in Files : wpc[w] = <<"write", f>> => fd[w] = "tmp"
      BY <2>1 DEF Solo, SoloOK, Stage
    <3> QED BY <1>7, <3>1 DEF Abort, cache
  <2>4. SoloOK'
    BY <2>1, <2>2, OthersKeepSolo DEF Solo
  <2>5. WholeOK'
    BY <2>1, <2>3 DEF WholeOK
  <2>6. PromiseOK'
    BY <2>1, <2>2 DEF PromiseOK
  <2> QED BY <2>4, <2>5, <2>6
<1>8. ASSUME NEW s \in Scans, ScanNext(s) PROVE CacheInv'
  <2>1. UNCHANGED <<cache, writerVars, promise>>
    BY <1>8 DEF ScanNext, ReadDoc, LoadRules, LoadList, EndScan
  <2>2. \A t \in Scans : due'[t] \in {due[t], promise, None}
    BY <1>8 DEF ScanNext, ReadDoc, LoadRules, LoadList, EndScan, TypeInv, TypeOK
  <2> QED BY <2>1, <2>2, QuietKeepsCache
<1>9. CASE UNCHANGED vars
  BY <1>9, QuietKeepsCache DEF vars
<1> QED BY <1>1, <1>2, <1>3, <1>4, <1>5, <1>6, <1>7, <1>8, <1>9 DEF Next, WriterNext

\* At first there is no install and no cache.
LEMMA InitCache == Init => CacheInv
BY DEF Init, CacheInv, SoloOK, WholeOK, PromiseOK, Solo

\* As long as no two installs overlap, the cache files are always whole: a
\* reader, or a failure at any point, never finds a part of one.
THEOREM ReplacedWhole == Spec => []CacheFilesAreWhole
<1>1. CacheInv => CacheFilesAreWhole
  BY DEF CacheInv, WholeOK, CacheFilesAreWhole
<1> QED BY InitTypeInv, StepTypeInv, InitCache, StepCache, <1>1, PTL DEF Spec

-----------------------------------------------------------------------------
(* What an install promised is what later scans get. *)

DueOK == \A s \in Scans : due[s] # None =>
    /\ due[s] = promise
    /\ spc[s] \in {"rules", "list"} => read[s] = promise

\* A promise that stands is in the cache, so the load that started under it
\* reads it and returns nothing older.
LEMMA StepDue ==
    ASSUME TypeInv, CacheInv, DueOK, LatestIsUsed, [Next]_vars
    PROVE  DueOK' /\ LatestIsUsed'
<1> USE DEF DueOK, LatestIsUsed, Loaded, Offered
<1>1. ASSUME NEW w \in Writers, WriterNext(w) PROVE DueOK' /\ LatestIsUsed'
  <2>1. UNCHANGED <<spc, read, used>>
    BY <1>1 DEF WriterNext, Obtain, Open, Write, RenameFails, RenameDoc, RenameSig, Abort, scanVars
  <2>2. ASSUME NEW d \in Docs \cup {Torn}, NEW s \in Docs \cup {Torn}, Obtain(w, d, s)
        PROVE  \A t \in Scans : due'[t] = None
    BY <2>2 DEF Obtain
  <2>3. ASSUME wpc[w] # <<"idle">> PROVE \A t \in Scans : due[t] = None
    BY <2>3 DEF CacheInv, PromiseOK
  <2>4. ASSUME NEW f \in Files, Open(w, f) \/ Write(w, f) \/ RenameFails(w, f)
        PROVE  wpc[w] # <<"idle">> /\ due' = due
    BY <2>4 DEF Open, Write, RenameFails
  <2>5. ASSUME RenameDoc(w) \/ RenameSig(w) \/ Abort(w)
        PROVE  wpc[w] # <<"idle">> /\ due' = due
    BY <2>5 DEF RenameDoc, RenameSig, Replace, Abort
  <2>6. \A t \in Scans : due'[t] = None
    BY <1>1, <2>2, <2>3, <2>4, <2>5 DEF WriterNext
  <2>7. \A t \in Scans : Offered(t)' \subseteq Offered(t)
    BY <2>6, DistinctAssumption
  <2>8. DueOK'
    BY <2>6
  <2>9. LatestIsUsed'
    <3> HIDE DEF Offered
    <3> QED BY <2>1, <2>7
  <2> QED BY <2>8, <2>9
<1>2. ASSUME NEW s \in Scans, ReadDoc(s) PROVE DueOK' /\ LatestIsUsed'
  <2>1. /\ spc'[s] \in {"rules", "list"} /\ read'[s] = live["doc"] /\ due'[s] = promise
        /\ promise' = promise
        /\ \A t \in Scans \ {s} : /\ spc'[t] = spc[t] /\ read'[t] = read[t]
                                  /\ due'[t] = due[t] /\ used'[t] = used[t]
    BY <1>2 DEF ReadDoc, ScanAt, TypeInv, TypeOK
  <2>2. promise # None => live["doc"] = promise
    BY DEF CacheInv, PromiseOK
  <2>3. DueOK'
    BY <2>1, <2>2
  <2>4. LatestIsUsed'
    BY <2>1
  <2> QED BY <2>3, <2>4
<1>3. ASSUME NEW s \in Scans, LoadRules(s) \/ LoadList(s) PROVE DueOK' /\ LatestIsUsed'
  <2>1. /\ \/ spc'[s] = "scan" /\ used'[s].rules = Load(read[s], live["sig"])
           \/ spc'[s] = "report" /\ used'[s].list = Load(read[s], live["sig"])
        /\ spc[s] \in {"rules", "list"}
        /\ promise' = promise /\ due' = due
        /\ \A t \in Scans \ {s} : spc'[t] = spc[t] /\ read'[t] = read[t] /\ used'[t] = used[t]
    BY <1>3 DEF LoadRules, LoadList, ScanAt, TypeInv, TypeOK
  <2>2. \A e \in Offered(s) : Signed(e) <= Signed(Load(read[s], live["sig"]))
    <3>1. SUFFICES ASSUME NEW e \in Offered(s)
                   PROVE  ~Newer(e, Load(read[s], live["sig"]))
      BY LoadIsNewest, LaterIsNewer, SignedType DEF Offered
    <3>2. CASE e = due[s]
      <4>1. e \in Docs /\ due[s] # None
        BY <3>2, DistinctAssumption DEF Offered
      <4>2. due[s] = promise /\ read[s] = promise /\ live["sig"] = promise
        BY <4>1, <2>1 DEF CacheInv, PromiseOK
      <4> QED BY <3>2, <4>1, <4>2, LoadIsNewest DEF Verify
    <3>3. CASE Verify(Beside["doc"], Beside["sig"]) /\ e = Beside["doc"]
      BY <3>3, LoadIsNewest
    <3> QED BY <3>2, <3>3 DEF Offered
  <2>3. DueOK'
    BY <2>1
  <2>4. LatestIsUsed'
    BY <2>1, <2>2
  <2> QED BY <2>3, <2>4
<1>4. ASSUME NEW s \in Scans, EndScan(s) PROVE DueOK' /\ LatestIsUsed'
  BY <1>4 DEF EndScan, ScanAt, TypeInv, TypeOK
<1>5. CASE UNCHANGED vars
  BY <1>5 DEF vars, scanVars
<1> QED BY <1>1, <1>2, <1>3, <1>4, <1>5 DEF Next, ScanNext

\* A scan works with the latest signed of the pair beside the executable and of
\* what an install that had the cache to itself put there, or with a later one
\* (Load, cache), however many installs were interrupted before.
THEOREM LatestIsLoaded == Spec => []LatestIsUsed
<1>1. Init => DueOK /\ LatestIsUsed
  BY DEF Init, DueOK, LatestIsUsed, Loaded
<1>2. TypeInv /\ CacheInv /\ DueOK /\ LatestIsUsed /\ [Next]_vars => DueOK' /\ LatestIsUsed'
  BY StepDue
<1> QED BY InitTypeInv, StepTypeInv, InitCache, StepCache, <1>1, <1>2, PTL DEF Spec
=============================================================================
