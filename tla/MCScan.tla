------------------------------- MODULE MCScan -------------------------------
(* A small instance of Scan. *)
EXTENDS Scan

CONSTANTS none

\* Port 1 has two claimants, port 2 one; port 3 is ephemeral.
MCSigs == {"ollama", "vllm", "qdrant", "jupyter"}
MCClaimants == <<<<"ollama", "vllm">>, <<"qdrant">>, <<>>>>

S(a, p, h, is, o) == [addr |-> a, six |-> FALSE, port |-> p, hint |-> h, looks |-> is,
                      opens |-> o, slow |-> FALSE]

Net(s) == [there |-> ToSet(s), shown |-> s]

MCNetworks ==
    {Net(s) : s \in
     {\* two processes on one port, each known by its own name only, and a locked one
     <<S("any", 1, "jupyter", {"jupyter"}, {"jupyter"}),
       [S("any", 1, "qdrant", {"qdrant"}, {}) EXCEPT !.six = TRUE],
       S("any", 2, none, {"qdrant"}, {})>>,
     \* a listener on the LAN whose port another process has on loopback, a slow one
     <<S("lan", 2, none, {"qdrant"}, {}), S("loopback", 2, "ollama", {"qdrant"}, {"qdrant"}),
       [S("any", 1, "ollama", {"ollama"}, {"ollama"}) EXCEPT !.slow = TRUE]>>,
     \* a guess, a helper on an ephemeral port and a service on one
     <<S("lan", 1, "vllm", {"ollama", "vllm"}, {"ollama"}), S("any", 3, "ollama", {}, {}),
       [S("any", 3, "vllm", {"vllm"}, {"vllm"}) EXCEPT !.six = TRUE]>>,
     \* only the router or the firewall can make this one matter
     <<S("loopback", 2, none, {"qdrant"}, {}), S("any", 1, none, {}, {})>>}}
    \* an open service: shown to the scan, hidden from it, behind a guess, or all hidden
    \cup {[there |-> {S("lan", 2, none, {"qdrant"}, {}), S("any", 2, none, {"qdrant"}, {"qdrant"})},
           shown |-> s] :
          s \in {<<S("any", 2, none, {"qdrant"}, {"qdrant"})>>, <<S("lan", 2, none, {"qdrant"}, {})>>, <<>>}}

F(f) == [file |-> f, kind |-> "text"]
O == [file |-> "o", kind |-> "other"]
C == [file |-> "o", kind |-> "closed"]
Folder(p, a, t) == [path |-> p, fold |-> p, real |-> "folder", asked |-> a, tree |-> t]
MCFiles == {"a", "b", "c", "d", "e", "o"}
MCKeys == {1, 2, 3}
K(S1, S2) == [f \in MCFiles |-> IF f \in S1 THEN <<1>> ELSE IF f \in S2 THEN <<2, 2, 3>> ELSE <<>>]
Whole == [f \in MCFiles |-> 9]

MCDisks ==
    {\* folders that overlap, one that cannot be read, a link, two that differ in case
     [home |-> <<O, F("a")>>, shut |-> FALSE, known |-> <<F("a"), F("a")>>, history |-> <<F("e")>>,
      keys |-> K({"a", "d"}, {"c"}), legible |-> Whole,
      roots |-> <<Folder("ai", "ai", <<F("b"), C, F("c")>>),
                  Folder("docs", "docs", <<F("d"), O>>),
                  [Folder("link", "named", <<F("b")>>) EXCEPT !.real = "link"],
                  Folder("docs/d", "named", <<F("d")>>),
                  [Folder("DOCS/D", "named", <<F("o"), F("c")>>) EXCEPT !.fold = "docs/d"]>>],
     \* a home folder that uses the budget up, and a key in history
     [home |-> <<F("a"), F("b"), F("c"), F("d"), F("a"), F("b"), F("c"), F("d"), O>>,
      shut |-> FALSE, known |-> <<>>, history |-> <<F("e")>>, keys |-> K({"e"}, {}), legible |-> Whole,
      roots |-> <<Folder("ai", "ai", <<F("o")>>), Folder("docs", "docs", <<F("e"), O>>),
                  [Folder("w", "named", <<>>) EXCEPT !.real = "missing"]>>],
     \* a home folder that cannot be listed, a folder under two paths, a file that
     \* cannot be opened and one that cannot be read to its end
     [home |-> <<F("a")>>, shut |-> TRUE, known |-> <<F("a")>>, history |-> <<>>,
      keys |-> K({"a", "d", "e"}, {"b", "c"}), legible |-> [Whole EXCEPT !["c"] = 0, !["b"] = 1],
      roots |-> <<Folder("ai", "ai", <<F("b"), F("c")>>),
                  Folder("docs", "docs", <<F("d")>>), Folder("onedrive/docs", "docs", <<F("e")>>)>>],
     \* a root that its share does not cover
     [home |-> <<F("a")>>, shut |-> FALSE, known |-> <<>>, history |-> <<>>, keys |-> K({}, {"o"}), legible |-> Whole,
      roots |-> <<Folder("ai", "ai", <<F("b"), F("c"), F("d"), F("e"), F("o")>>),
                  Folder("docs", "docs", <<F("o"), F("e"), F("a"), F("d"), F("c")>>)>>]}

MCHosts == {[os |-> "user", home |-> TRUE], [os |-> "windows", home |-> FALSE],
            [os |-> "root", home |-> TRUE]}

Plain == [noFeed |-> FALSE, noUPnP |-> FALSE, noSecrets |-> FALSE, noModels |-> FALSE,
          noSupply |-> FALSE, history |-> FALSE, docs |-> FALSE, dirs |-> FALSE,
          safe |-> FALSE, failOn |-> High]
MCFlags == {[Plain EXCEPT !.history = TRUE, !.docs = TRUE, !.dirs = TRUE],
            [Plain EXCEPT !.safe = TRUE, !.history = TRUE, !.noModels = TRUE, !.failOn = 5],
            [Plain EXCEPT !.noFeed = TRUE, !.noSecrets = TRUE, !.failOn = Low],
            [Plain EXCEPT !.noSupply = TRUE, !.docs = TRUE]}

MCNoRules == [r \in {"loads", "behind", "indicators", "patterns", "exts", "entries", "stale",
                     "problems"} |-> FALSE]
Full == [MCNoRules EXCEPT !.loads = TRUE, !.indicators = TRUE, !.patterns = TRUE, !.exts = TRUE,
                          !.entries = TRUE]
MCRuleFiles == {MCNoRules, Full, [Full EXCEPT !.exts = FALSE, !.problems = TRUE, !.behind = TRUE],
                [Full EXCEPT !.indicators = FALSE, !.patterns = FALSE, !.stale = TRUE],
                [Full EXCEPT !.entries = FALSE]}

MCConfigs ==
    {[commands |-> {}, env |-> {}, scripts |-> {}],
     [commands |-> {[at |-> 1, flag |-> "--share"], [at |-> 2, flag |-> "--listen"]},
      env |-> {"OLLAMA_HOST"}, scripts |-> {[path |-> "start.sh", shared |-> TRUE]}]}
MCFirewalls == {"on", "off", "unknown"}
Table(t) == [maps |-> TRUE, table |-> t]
M(p, k) == [port |-> p, kind |-> k]
MCRouters == {<<>>, <<Table(<<M(1, "fault")>>), Table(<<M(2, "zero")>>)>>,
              <<[maps |-> FALSE, table |-> <<>>], Table(<<M(3, "mapping"), M(2, "mapping"), M(1, "fault")>>)>>}
MCWeights == {[chosen |-> TRUE, managed |-> FALSE, safe |-> TRUE]}
MCSupplies ==
    {[baseline |-> "none", code |-> {}, hits |-> {}, changes |-> {}, other |-> {NotRun("SUP-053")}],
     [baseline |-> "there", code |-> {Finding("SUP-001", Critical, "n1")},
      other |-> {Finding("SUP-020", Medium, "n2")},
      hits |-> {[id |-> "n1", unresolved |-> FALSE, sev |-> Critical]},
      changes |-> {[id |-> "n1", type |-> "dangerous"], [id |-> "n2", type |-> "added"]}],
     [baseline |-> "broken", code |-> {}, changes |-> {}, other |-> {Finding("SUP-051", Low, None)},
      hits |-> {[id |-> "n1", unresolved |-> TRUE, sev |-> Critical]}]}
=============================================================================
