------------------------------- MODULE MCGate -------------------------------
(* A small instance of Gate. *)
EXTENDS Gate

CONSTANTS none, absent, unreadable, malformed

V(n) == [segs |-> [i \in DOMAIN n |-> [lead |-> n[i], rest |-> <<>>]], dash |-> <<>>]
V839 == V(<<8, 3, 9>>)
V841 == V(<<8, 3, 41>>)
V84 == V(<<8, 4>>)
V85 == V(<<8, 5>>)
V83100 == V(<<8, 3, 100>>)
V2026 == V(<<2026, 4, 0>>)
\* 8.5rc1, a number Atoi cannot read, and what npx pkg@latest leaves as the version
V85rc(n) == [segs |-> <<[lead |-> 8, rest |-> <<>>], [lead |-> 5, rest |-> <<3, n>>]>>,
             dash |-> <<>>]
Huge == V(<<8, 5000>>)
Latest == [segs |-> <<[lead |-> none, rest |-> <<2>>]>>, dash |-> <<>>]

Server(d, v) == [digest |-> d, danger |-> FALSE, server |-> TRUE, parses |-> TRUE,
                 unpinned |-> v \in {NoVersion, Latest}, package |-> "ultralytics",
                 version |-> v, files |-> {}]
Dir(d, bad) == [digest |-> d, danger |-> bad, server |-> FALSE, parses |-> TRUE,
                unpinned |-> FALSE, package |-> none, version |-> NoVersion,
                files |-> {<<d, "file">>}]

\* Two skills in different folders with one name, and a server.
MCPlaces == {"skills/s", ".claude/skills/s", ".mcp.json"}
MCId == [p \in MCPlaces |-> IF p = ".mcp.json" THEN "mcp" ELSE "skill"]
MCName == [p \in MCPlaces |-> IF p = ".mcp.json" THEN "server" ELSE "s"]
MCUnder == [x \in {"skills"} |-> {"skills/s"}]
MCContents ==
    {Dir("d1", FALSE), Dir("d2", TRUE), [Server("s0", V83100) EXCEPT !.parses = FALSE]}
    \cup {Server("s", v) : v \in {V83100, V85rc(1), Latest, NoVersion}}

Waiver(r, x) == [rule |-> r, component |-> "s", package |-> none,
                 path |-> none, expires |-> x]
MCPolicies ==
    {[level |-> [r \in {"unpinned_package", "unlocked_component", "known_bad"} |->
                    CASE r = "unpinned_package" -> "error"
                      [] r = "unlocked_component" -> "ignore"
                      [] OTHER -> "warn"],
      exemptions |-> {Waiver("risk_indicator", 0), Waiver("lock_drift", malformed),
                      [Waiver("risk_indicator", none) EXCEPT !.component = none],
                      [Waiver("risk_indicator", 1) EXCEPT !.component = none, !.path = "skills"]}]}

E(i, k, m, vs, rs) == [id |-> i, kind |-> k, match |-> m, versions |-> vs, ranges |-> rs,
                       labelled |-> TRUE]
Feed1 == [entries |-> <<E(1, "package", "ultralytics", {V841, V2026},
                      {[intro |-> V839, fixed |-> V83100], [intro |-> V84, fixed |-> V85]}),
                    E(2, "artifact_digest", <<"d2", TRUE>>, {}, {})>>, rules |-> TRUE]
MCFeeds ==
    {Feed1,
     [entries |-> <<E(1, "node_name", "s", {V841}, {})>>, rules |-> TRUE],
     [entries |-> <<E(1, "package", "ultralytics", {Huge},
                      {[intro |-> V85rc(2), fixed |-> V85rc(1)]})>>, rules |-> FALSE]}

Repo(a, b, c) == [p \in MCPlaces |->
    IF p = "skills/s" THEN a ELSE IF p = ".mcp.json" THEN c ELSE b]
MCStart ==
    {[repo |-> Repo(a, absent, c), feed |-> f] :
        a \in {Dir("d1", FALSE)}, c \in {Server("s", V83100)}, f \in {Feed1}}

MCOptions == {NoFlags, [NoFlags EXCEPT !.write = TRUE], [NoFlags EXCEPT !.noFeed = TRUE],
              [NoFlags EXCEPT !.root = "gone"]}

\* The digits of these versions: three numbers, two characters and the end of a
\* suffix.
MCNumberDigits == 3
MCSuffixDigits == 2
MCRadix == <<2100, 101, 101, 6, 6>>
MCDigit(v, i) ==
    IF i <= 3 THEN Part(Nums(v), i)
    ELSE IF Pre(v) = <<>> THEN 5 ELSE IF i - 3 \in DOMAIN Pre(v) THEN Pre(v)[i - 3] + 1 ELSE 0
MCScale ==
    [v \in {w \in {V839, V841, V83100, V84, V85, V2026, V85rc(1), V85rc(2)} : Parsed(w)} |->
        LET value[n \in 0..5] == IF n = 0 THEN 0 ELSE value[n - 1] * MCRadix[n] + MCDigit(v, n)
        IN  value]
=============================================================================
