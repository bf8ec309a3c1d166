----------------------------- MODULE ScanReport -----------------------------
(***************************************************************************)
(* The report of a scan as a set of findings (internal/model), its grade,  *)
(* and the control table derived from the findings (internal/control).     *)
(* Wording is left out; a finding keeps what its title and detail decide:  *)
(* which component or listener it is about, whether its title names a      *)
(* vector store, and what it says of the reach of a search.                *)
(***************************************************************************)
EXTENDS Integers, Sequences, FiniteSets, FiniteSetsExt

Info == 0
Low == 1
Medium == 2
High == 3
Critical == 4

\* "advisory": it says something about the scan, and is not scored.
\* "notrun": it says that a check did not run.
Marks == {"scored", "advisory", "notrun"}

Finding(id, sev, about) ==
    [id |-> id, sev |-> sev, about |-> about, mark |-> "scored", store |-> FALSE]

Penalty(sev) == <<0, 4, 10, 20, 35>>[sev + 1]

Lost(fs) == MapThenSumSet(LAMBDA f : IF f.mark = "advisory" THEN 0 ELSE Penalty(f.sev), fs)

\* Mutant: the score is not kept above zero.
Unbounded(fs) == 100 - Lost(fs)
Score(fs) == IF Lost(fs) > 100 THEN 0 ELSE 100 - Lost(fs)

Grade(fs) ==
    LET s == Score(fs)
    IN  CASE s >= 90 -> "A"
          [] s < 90 /\ s >= 75 -> "B"
          [] s < 75 /\ s >= 60 -> "C"
          [] s < 60 /\ s >= 40 -> "D"
          [] s < 40 -> "F"

Incomplete(fs) == \E f \in fs : f.mark = "advisory"

-----------------------------------------------------------------------------
(* The OWASP half of the control table: a row per risk. *)

Risks == {"llm01", "llm02", "llm03", "llm04", "llm05",
          "llm06", "llm07", "llm08", "llm09", "llm10"}

Disclosure == {"EXP-000", "EXP-001", "EXP-002", "EXP-003", "CFG-001", "CFG-002", "CFG-003",
               "NAT-001", "SEC-000", "SEC-001", "SEC-002", "SUP-001"}
SupplyChain == {"SUP-000", "SUP-001", "SUP-002", "SUP-010", "SUP-011", "SUP-012", "SUP-013",
                "SUP-020", "SUP-030", "SUP-031", "SUP-032", "SUP-041", "SUP-050", "SUP-052",
                "SUP-053"}
Poisoning == {"MDL-000", "MDL-001", "MDL-002", "SUP-040", "SUP-041"}
Consumption == {"EXP-000", "EXP-001", "EXP-002", "CFG-001", "CFG-003", "NAT-000", "NAT-001",
                "NAT-002", "FW-000", "FW-001", "FW-002"}

Mapped(id) ==
    {r \in Risks : \/ r = "llm02" /\ id \in Disclosure
                   \/ r = "llm03" /\ id \in SupplyChain
                   \/ r = "llm04" /\ id \in Poisoning
                   \/ r = "llm10" /\ id \in Consumption}

\* Annotate: an exposed vector store is listed under the embedding risk too.
Controls(f) ==
    Mapped(f.id) \cup
    (IF f.id \in {"EXP-001", "EXP-002", "EXP-003"} /\ f.sev # Info /\ f.store
     THEN {"llm08"} ELSE {})

\* Mutant: only what was found first decides how bad a row looks.
FirstOf(S) == CHOOSE x \in S : \A y \in S : x <= y
WorstOf(S) == Max(S)

\* The row of a risk: what counts against it, a check that passed does not.
Row(fs, r) ==
    LET hits == {f \in fs : f.sev # Info /\ r \in Controls(f)}
    IN  [ids |-> {f.id : f \in hits},
         sev |-> IF hits = {} THEN Info ELSE WorstOf({f.sev : f \in hits})]

Coverage(fs) == [r \in Risks |-> Row(fs, r)]
=============================================================================
