----------------------------- MODULE Scan_proofs -----------------------------
(***************************************************************************)
(* Proofs about a scan, for any machine, whatever of it the scan is shown, *)
(* and any set of rules: what the goroutines of the service identification *)
(* do to one another, which checks never stay silent, what the grade and   *)
(* the exit code allow to conclude, and how far the search for keys went.  *)
(***************************************************************************)
EXTENDS Scan, KeySearch_proofs, FiniteSetTheorems, TLAPS

\* The slices that PortIndex makes are full: what is appended goes to a copy.
Roomless == \A p \in Ports : ~(Room(Len(Claimants[p])) > Len(Claimants[p]))

\* What a listener is compared with when the hint is its own, and what comes of it.
Own(i) == IF Hint(i) = None THEN Claims(i) ELSE Append(Claims(i), Hint(i))

Verdict(i) ==
    LET cands == Own(i)
        k == FirstIn(cands, Looks(i))
    IN  CASE k # 0 -> [sig |-> cands[k], confirmed |-> TRUE]
          [] k = 0 /\ Hint(i) # None -> [sig |-> Hint(i), confirmed |-> FALSE]
          [] k = 0 /\ Hint(i) = None /\ Len(cands) = 1 -> [sig |-> cands[1], confirmed |-> FALSE]
          [] OTHER -> [sig |-> None, confirmed |-> FALSE]

Entry(i) == [name |-> Verdict(i).sig, at |-> i, noAuth |-> Verdict(i).sig \in Opens(i),
             exposure |-> sockets[i].addr, confirmed |-> Verdict(i).confirmed]

ListedAt(i) == {s \in services : s.at = i}

\* It has a name whatever it answers.
Sure(i) == sockets[i].port \notin Ephemeral /\ (Hint(i) # None \/ Len(Claims(i)) = 1)

\* How far one listener is: not listed before the end, and then what its own
\* process, port and answers make of it.
Progress(i) ==
    /\ i >= next => gor[i] = "none"
    /\ gor[i] # "done" => ListedAt(i) = {}
    /\ gor[i] \in {"auth", "deposit"} /\ ~Slow(i) => best[i] = Verdict(i)
    /\ gor[i] = "deposit" /\ ~Slow(i) => open[i] = (best[i].sig \in Opens(i))
    /\ gor[i] \in {"auth", "deposit"} => best[i].sig # None
    /\ gor[i] = "done" /\ ~Slow(i) => ListedAt(i) = Alone(i)
    /\ gor[i] = "done" /\ Sure(i) => ListedAt(i) # {}

\* What the scan was shown is listening on the machine.
Shown ==
    /\ machine \in {n.there : n \in Networks}
    /\ sockets \in {n.shown : n \in Networks} \cup {<<>>}
    /\ ToSet(sockets) \subseteq machine

IdentifyInv ==
    /\ Shown
    /\ next \in Nat
    /\ gor \in [Listeners -> Stages]
    /\ DOMAIN best = Listeners /\ DOMAIN open = Listeners
    /\ \A i \in Listeners : Progress(i)
    /\ \A s \in services : s.at \in Listeners /\ s.exposure = sockets[s.at].addr

-----------------------------------------------------------------------------
\* A listener is a socket, and can be compared with known signatures only.
LEMMA OwnIsTyped ==
    ASSUME Shown, NEW i \in Listeners
    PROVE  /\ sockets[i] \in Socket /\ Hint(i) \in Sigs \cup {None}
           /\ Claims(i) \in Seq(Sigs) /\ Own(i) \in Seq(Sigs) /\ i \in Nat
<1>1. sockets \in Seq(Socket)
  <2>1. <<>> \in Seq(Socket)
    OBVIOUS
  <2>2. \A n \in Networks : n.shown \in Seq(Socket)
    BY NetworksAssumption
  <2> QED BY <2>1, <2>2 DEF Shown
<1>2. sockets[i] \in Socket /\ i \in Nat
  BY <1>1 DEF Listeners
<1>3. Hint(i) \in Sigs \cup {None} /\ Claims(i) \in Seq(Sigs)
  <2>1. sockets[i].port \in Ports /\ sockets[i].hint \in Sigs \cup {None}
    BY <1>2 DEF Socket
  <2> QED BY <2>1, ClaimantsAssumption DEF Hint, Claims
<1> QED BY <1>2, <1>3 DEF Own

\* With full slices the candidates of a listener are its own.
LEMMA CandidatesAreOwn ==
    ASSUME Shown, Roomless, NEW i \in Listeners
    PROVE  Candidates(i) = Own(i)
<1>1. sockets[i].port \in Ports
  BY OwnIsTyped DEF Socket
<1>2. ~Shared(i)
  BY <1>1 DEF Shared, Roomless, Claims
<1> QED BY <1>2 DEF Candidates, Own

\* A fingerprint is matched by a candidate.
LEMMA FirstIsCandidate ==
    ASSUME NEW cands \in Seq(Sigs), NEW S, FirstIn(cands, S) # 0
    PROVE  cands[FirstIn(cands, S)] \in Sigs
<1> DEFINE fit == {k \in DOMAIN cands : cands[k] \in S}
<1>1. fit # {} /\ FirstIn(cands, S) = Min(fit)
  BY DEF FirstIn
<1>2. fit \in SUBSET Nat
  OBVIOUS
<1>3. Min(fit) \in DOMAIN cands
  BY <1>1, <1>2, MinIsMember
<1> QED BY <1>1, <1>3

\* What a listener looks like, and where it opens, are signatures.
LEMMA LooksAreSigs ==
    ASSUME Shown, NEW i \in Listeners
    PROVE  Looks(i) \in SUBSET Sigs /\ Opens(i) \in SUBSET Sigs
<1>1. Behind(sockets[i]) \subseteq machine
  BY DEF Behind
<1>2. machine \subseteq Socket
  BY NetworksAssumption DEF Shown
<1>3. \A k \in Socket : k.looks \in SUBSET Sigs /\ k.opens \in SUBSET Sigs
  BY DEF Socket
<1> QED BY <1>1, <1>2, <1>3 DEF Looks, Opens

\* A listener that has a hint, or one claimant, is settled on something.
LEMMA SureIsSettled ==
    ASSUME Shown, NEW i \in Listeners, Sure(i), NEW A \in SUBSET Sigs
    PROVE  Settle(i, A).sig # None
<1> DEFINE cands == Candidates(i)
           k == FirstIn(cands, A)
           fit == {x \in DOMAIN cands : cands[x] \in A}
<1>1. Hint(i) \in Sigs \cup {None} /\ Claims(i) \in Seq(Sigs)
  BY OwnIsTyped
<1>2. k # 0 => cands[k] \in A
  <2>1. fit \in SUBSET Nat
    <3>1. \A x \in Sigs \cup {None} : \A y : DOMAIN Append(Claims(i), y) \subseteq Nat
      BY <1>1
    <3>2. DOMAIN cands \subseteq Nat
      BY <1>1 DEF Candidates
    <3> QED BY <3>2
  <2>2. k # 0 => fit # {} /\ k = Min(fit)
    BY DEF FirstIn
  <2>3. fit # {} => Min(fit) \in fit
    BY <2>1, MinIsMember
  <2> QED BY <2>2, <2>3
<1>3. Hint(i) = None => cands = Claims(i) /\ Len(cands) = 1 /\ cands[1] \in Sigs
  BY <1>1 DEF Candidates, Sure
<1> HIDE DEF cands, k
<1>4. CASE k # 0
  BY <1>2, <1>4, NoneAssumption DEF Settle, cands, k
<1>5. CASE k = 0 /\ Hint(i) # None
  BY <1>5 DEF Settle, cands, k
<1>6. CASE k = 0 /\ Hint(i) = None
  BY <1>3, <1>6, NoneAssumption DEF Settle, cands, k
<1> QED BY <1>4, <1>5, <1>6

\* Looked at alone, a listener is listed by its verdict, if it has one and that is
\* not a guess about an ephemeral port.
LEMMA AloneIsVerdict ==
    ASSUME Shown, NEW i \in Listeners
    PROVE  /\ Verdict(i).sig = None => Alone(i) = {}
           /\ Verdict(i).sig # None =>
                  Alone(i) = IF ~Verdict(i).confirmed /\ sockets[i].port \in Ephemeral
                             THEN {} ELSE {Entry(i)}
<1> DEFINE k == FirstIn(Own(i), Looks(i))
<1>1. Own(i) \in Seq(Sigs) /\ Hint(i) \in Sigs \cup {None}
  BY OwnIsTyped
<1>2. CASE k # 0
  <2>1. Verdict(i) = [sig |-> Own(i)[k], confirmed |-> TRUE]
    BY <1>2 DEF Verdict
  <2>2. Own(i)[k] # None
    BY <1>1, <1>2, FirstIsCandidate, NoneAssumption
  <2>3. Alone(i) = {[name |-> Own(i)[k], at |-> i, confirmed |-> TRUE,
                     exposure |-> sockets[i].addr, noAuth |-> Own(i)[k] \in Opens(i)]}
    BY <1>2 DEF Alone, Own
  <2> QED BY <2>1, <2>2, <2>3 DEF Entry
<1>3. CASE k = 0
  <2> DEFINE guess == IF Hint(i) # None THEN {Hint(i)}
                      ELSE IF Len(Own(i)) = 1 THEN {Own(i)[1]} ELSE {}
  <2>1. Alone(i) = {[name |-> g, at |-> i, confirmed |-> FALSE,
                     exposure |-> sockets[i].addr, noAuth |-> g \in Opens(i)] :
                        g \in IF sockets[i].port \in Ephemeral THEN {} ELSE guess}
    BY <1>3 DEF Alone, Own
  <2>2. CASE Hint(i) # None
    <3>1. Verdict(i) = [sig |-> Hint(i), confirmed |-> FALSE] /\ guess = {Hint(i)}
      BY <1>3, <2>2 DEF Verdict
    <3> QED BY <2>1, <2>2, <3>1 DEF Entry
  <2>3. CASE Hint(i) = None /\ Len(Own(i)) = 1
    <3>1. Verdict(i) = [sig |-> Own(i)[1], confirmed |-> FALSE] /\ guess = {Own(i)[1]}
      BY <1>3, <2>3 DEF Verdict
    <3>2. Own(i)[1] # None
      BY <1>1, <2>3, NoneAssumption
    <3> QED BY <2>1, <3>1, <3>2 DEF Entry
  <2>4. CASE Hint(i) = None /\ Len(Own(i)) # 1
    <3>1. Verdict(i) = [sig |-> None, confirmed |-> FALSE] /\ guess = {}
      BY <1>3, <2>4 DEF Verdict
    <3> QED BY <2>1, <3>1
  <2> QED BY <2>2, <2>3, <2>4
<1> QED BY <1>2, <1>3

-----------------------------------------------------------------------------
(* The steps. *)

\* What a listener is compared with depends on the sockets only.
LEMMA SocketsDecide ==
    ASSUME UNCHANGED <<machine, sockets>>
    PROVE  /\ UNCHANGED Listeners
           /\ \A i : UNCHANGED <<Slow(i), Opens(i), Verdict(i), Alone(i), Sure(i)>>
           /\ Shown => Shown'
<1>1. UNCHANGED Listeners /\ (Shown => Shown')
  BY DEF Listeners, Shown
<1>2. \A i : UNCHANGED Behind(sockets[i])
  BY DEF Behind
<1>3. \A i : UNCHANGED <<Slow(i), Opens(i), Looks(i)>>
  BY <1>2 DEF Slow, Opens, Looks
<1>4. \A i : UNCHANGED <<Own(i), Hint(i), Claims(i)>>
  BY DEF Own, Hint, Claims
<1>5. \A i : UNCHANGED Verdict(i)
  BY <1>3, <1>4 DEF Verdict
<1>6. \A i : UNCHANGED Alone(i)
  BY <1>3, <1>4 DEF Alone
<1>7. \A i : UNCHANGED Sure(i)
  BY <1>4 DEF Sure
<1> QED BY <1>1, <1>3, <1>5, <1>6, <1>7

\* A step of one listener leaves the others where they were.
LEMMA OthersStay ==
    ASSUME UNCHANGED <<machine, sockets>>, NEW i \in Listeners, NEW j \in Listeners, j # i, Progress(j),
           UNCHANGED <<gor[j], best[j], open[j], ListedAt(j)>>,
           UNCHANGED next \/ (next' = next + 1 /\ i = next /\ next \in Nat /\ j \in Nat)
    PROVE  Progress(j)'
<1>1. j >= next' => j >= next
  OBVIOUS
<1> QED BY <1>1, SocketsDecide DEF Progress

\* A goroutine that starts has done nothing yet.
LEMMA SpawnKeeps == IdentifyInv /\ Spawn => IdentifyInv'
<1> SUFFICES ASSUME IdentifyInv, Spawn PROVE IdentifyInv'
  OBVIOUS
<1>1. UNCHANGED <<machine, sockets, best, open, services>> /\ next \in Listeners /\ next' = next + 1
  BY DEF Spawn
<1>2. gor' = [gor EXCEPT ![next] = IF Claims(next) = <<>> /\ Hint(next) = None
                                   THEN "done" ELSE "wait"]
  BY DEF Spawn
<1>3. ASSUME NEW j \in Listeners PROVE Progress(j)'
  <2>1. UNCHANGED ListedAt(j)
    BY <1>1 DEF ListedAt
  <2>2. j \in Nat /\ next \in Nat
    BY OwnIsTyped DEF IdentifyInv
  <2>3. CASE j # next
    BY <1>1, <1>2, <2>1, <2>2, <2>3, OthersStay DEF IdentifyInv
  <2>4. CASE j = next
    <3>1. gor[j] = "none" /\ ListedAt(j) = {}
      BY <2>2, <2>4 DEF IdentifyInv, Progress
    <3>2. gor'[j] = "done" => Alone(j) = {}
      <4>1. SUFFICES ASSUME Claims(j) = <<>>, Hint(j) = None PROVE Alone(j) = {}
        BY <1>2, <2>4 DEF IdentifyInv
      <4>2. Own(j) = <<>> /\ FirstIn(Own(j), Looks(j)) = 0 /\ Len(Own(j)) # 1
        BY <4>1 DEF Own, FirstIn
      <4>3. Verdict(j).sig = None
        BY <4>1, <4>2 DEF Verdict
      <4> QED BY <4>3, AloneIsVerdict DEF IdentifyInv
    <3>3. gor'[j] \in {"done", "wait"} /\ ~(j >= next')
      BY <1>1, <1>2, <2>2, <2>4 DEF IdentifyInv
    <3>4. gor'[j] = "done" => ~Sure(j)
      BY <1>2, <2>4 DEF IdentifyInv, Sure
    <3> QED BY <3>4, <1>1, <2>1, <3>1, <3>2, <3>3, SocketsDecide DEF Progress
  <2> QED BY <2>3, <2>4
<1>4. gor' \in [Listeners -> Stages]
  BY <1>2 DEF IdentifyInv, Stages
<1>5. next' \in Nat
  BY <1>1 DEF IdentifyInv
<1> QED BY <1>1, <1>3, <1>4, <1>5, SocketsDecide DEF IdentifyInv

\* A goroutine that may talk has not compared anything yet.
LEMMA AcquireKeeps == ASSUME NEW i \in Listeners, IdentifyInv, Acquire(i) PROVE IdentifyInv'
<1>1. UNCHANGED <<machine, sockets, next, best, open, services>> /\ gor[i] = "wait"
      /\ gor' = [gor EXCEPT ![i] = "probe"]
  BY DEF Acquire
<1>2. ASSUME NEW j \in Listeners PROVE Progress(j)'
  <2>1. UNCHANGED ListedAt(j)
    BY <1>1 DEF ListedAt
  <2>2. CASE j # i
    BY <1>1, <2>1, <2>2, OthersStay DEF IdentifyInv
  <2>3. CASE j = i
    BY <1>1, <2>1, <2>3, SocketsDecide DEF IdentifyInv, Progress
  <2> QED BY <2>2, <2>3
<1>3. gor' \in [Listeners -> Stages]
  BY <1>1 DEF IdentifyInv, Stages
<1> QED BY <1>1, <1>2, <1>3, SocketsDecide DEF IdentifyInv

\* What a listener answers settles what it is, as it would alone.
LEMMA FingerprintKeeps ==
    ASSUME Roomless, NEW i \in Listeners, IdentifyInv, Fingerprint(i) PROVE IdentifyInv'
<1>1. UNCHANGED <<machine, sockets, next, open, services>> /\ gor[i] = "probe"
      /\ gor' = [gor EXCEPT ![i] = IF best'[i].sig = None THEN "done" ELSE "auth"]
  BY DEF Fingerprint
<1>2. PICK answered \in SUBSET Sigs : /\ best' = [best EXCEPT ![i] = Settle(i, answered)]
                                      /\ ~Slow(i) => answered = Looks(i)
  BY LooksAreSigs DEF Fingerprint, IdentifyInv
<1>3. best'[i] = Settle(i, answered) /\ \A j \in Listeners : j # i => best'[j] = best[j]
  BY <1>2 DEF IdentifyInv
<1>4. ~Slow(i) => best'[i] = Verdict(i)
  <2>1. Candidates(i) = Own(i)
    BY CandidatesAreOwn DEF IdentifyInv
  <2> QED BY <1>2, <1>3, <2>1 DEF Settle, Verdict
<1>5. ASSUME NEW j \in Listeners PROVE Progress(j)'
  <2>1. UNCHANGED ListedAt(j)
    BY <1>1 DEF ListedAt
  <2>2. CASE j # i
    BY <1>1, <1>3, <2>1, <2>2, OthersStay DEF IdentifyInv
  <2>3. CASE j = i
    <3>1. ~(j >= next) /\ ListedAt(j) = {}
      BY <1>1, <2>3 DEF IdentifyInv, Progress
    <3>2. gor'[j] = IF best'[j].sig = None THEN "done" ELSE "auth"
      BY <1>1, <2>3 DEF IdentifyInv
    <3>3. ~Slow(j) /\ best'[j].sig = None => Alone(j) = {}
      BY <1>4, <2>3, AloneIsVerdict DEF IdentifyInv
    <3>4. Sure(j) => best'[j].sig # None
      BY <1>2, <1>3, <2>3, SureIsSettled DEF IdentifyInv
    <3> QED BY <3>4, <1>1, <1>4, <2>1, <2>3, <3>1, <3>2, <3>3, SocketsDecide DEF Progress
  <2> QED BY <2>2, <2>3
<1>6. gor' \in [Listeners -> Stages] /\ DOMAIN best' = Listeners
  BY <1>1, <1>2 DEF IdentifyInv, Stages
<1> QED BY <1>1, <1>5, <1>6, SocketsDecide DEF IdentifyInv

\* Whether a listener is open is asked of that listener only.
LEMMA AskAPIKeeps == ASSUME NEW i \in Listeners, IdentifyInv, AskAPI(i) PROVE IdentifyInv'
<1>1. UNCHANGED <<machine, sockets, next, best, services>> /\ gor[i] = "auth"
      /\ gor' = [gor EXCEPT ![i] = "deposit"]
  BY DEF AskAPI
<1>2. PICK answers \in BOOLEAN : /\ open' = [open EXCEPT ![i] = answers /\ best[i].sig \in Opens(i)]
                                 /\ ~Slow(i) => answers
  BY DEF AskAPI
<1>3. /\ ~Slow(i) => open'[i] = (best[i].sig \in Opens(i))
      /\ \A j \in Listeners : j # i => open'[j] = open[j]
      /\ DOMAIN open' = Listeners
  BY <1>2 DEF IdentifyInv
<1>4. ASSUME NEW j \in Listeners PROVE Progress(j)'
  <2>1. UNCHANGED ListedAt(j)
    BY <1>1 DEF ListedAt
  <2>2. CASE j # i
    BY <1>1, <1>3, <2>1, <2>2, OthersStay DEF IdentifyInv
  <2>3. CASE j = i
    BY <1>1, <1>3, <2>1, <2>3, SocketsDecide DEF IdentifyInv, Progress
  <2> QED BY <2>2, <2>3
<1>5. gor' \in [Listeners -> Stages]
  BY <1>1 DEF IdentifyInv, Stages
<1> QED BY <1>1, <1>3, <1>4, <1>5, SocketsDecide DEF IdentifyInv

\* No two listeners share an address and a port.
LEMMA SocketsDiffer ==
    ASSUME Shown, NEW i \in Listeners, NEW j \in Listeners, SameSocket(sockets[i], sockets[j])
    PROVE  i = j
<1>1. CASE sockets = <<>>
  BY <1>1 DEF Listeners
<1>2. CASE sockets # <<>>
  <2>1. PICK n \in Networks : sockets = n.shown
    BY <1>2 DEF Shown
  <2> QED BY <2>1, NetworksAssumption DEF Listeners
<1> QED BY <1>1, <1>2

\* The map of what was listed never holds the service of another listener back.
LEMMA NotListed == ASSUME IdentifyInv, NEW i \in Listeners, gor[i] = "deposit" PROVE ~Listed(i)
<1> SUFFICES ASSUME NEW s \in services, SameSocket(sockets[s.at], sockets[i]) PROVE FALSE
  BY DEF Listed
<1>1. s.at \in Listeners /\ ListedAt(i) = {}
  BY DEF IdentifyInv, Progress
<1>2. s.at = i
  BY <1>1, SocketsDiffer DEF IdentifyInv
<1> QED BY <1>1, <1>2 DEF ListedAt

\* A listener is listed once, by its own goroutine.
LEMMA DepositKeeps == ASSUME NEW i \in Listeners, IdentifyInv, Deposit(i) PROVE IdentifyInv'
<1> DEFINE one == [name |-> best[i].sig, at |-> i, noAuth |-> open[i],
                   exposure |-> sockets[i].addr, confirmed |-> best[i].confirmed]
<1>1. UNCHANGED <<machine, sockets, next, best, open>> /\ gor[i] = "deposit"
      /\ gor' = [gor EXCEPT ![i] = "done"]
      /\ services' = IF IsNoise(i) \/ Listed(i) THEN services ELSE services \cup {one}
  BY DEF Deposit
<1>2. one.at = i /\ one.exposure = sockets[i].addr
  OBVIOUS
<1>0. ~Listed(i)
  BY <1>1, NotListed
<1>3. ~Slow(i) => one = Entry(i) /\ best[i] = Verdict(i) /\ best[i].sig # None
  BY <1>1 DEF IdentifyInv, Progress, Entry
<1> HIDE DEF one
<1>4. ASSUME NEW j \in Listeners PROVE Progress(j)'
  <2>1. CASE j # i
    <3>1. UNCHANGED ListedAt(j)
      BY <1>1, <1>2, <2>1 DEF ListedAt
    <3> QED BY <1>1, <2>1, <3>1, OthersStay DEF IdentifyInv
  <2>2. CASE j = i
    <3>1. ~(j >= next) /\ ListedAt(j) = {}
      BY <1>1, <2>2 DEF IdentifyInv, Progress
    <3>2. ListedAt(j)' = IF IsNoise(j) THEN {} ELSE {one}
      BY <1>0, <1>1, <1>2, <2>2, <3>1 DEF ListedAt
    <3>3. ~Slow(j) => ListedAt(j)' = Alone(j)
      BY <1>3, <2>2, <3>2, AloneIsVerdict DEF IdentifyInv, IsNoise
    <3>4. gor'[j] = "done"
      BY <1>1, <2>2 DEF IdentifyInv
    <3>5. Sure(j) => ListedAt(j)' # {}
      BY <2>2, <3>2 DEF Sure, IsNoise
    <3> QED BY <3>5, <1>1, <3>1, <3>3, <3>4, SocketsDecide DEF Progress
  <2> QED BY <2>1, <2>2
<1>5. gor' \in [Listeners -> Stages]
  BY <1>1 DEF IdentifyInv, Stages
<1>6. \A s \in services' : s.at \in Listeners /\ s.exposure = sockets[s.at].addr
  BY <1>1, <1>2 DEF IdentifyInv
<1> QED BY <1>1, <1>4, <1>5, <1>6, SocketsDecide DEF IdentifyInv

\* Before the listeners are enumerated there is nothing to ask.
Fresh == pc \in {"rules", "listen"} => next = 1 /\ services = {} /\ Listeners = {}

\* The steps of the rest of the scan leave the identification alone, but for the one
\* that enumerates the listeners.
LEMMA StartOfScan ==
    ASSUME Fresh, Next
    PROVE  /\ Fresh'
           /\ \/ IdentifyNext /\ pc = "identify" /\ UNCHANGED <<pc, found>>
              \/ UNCHANGED <<machine, sockets, identifying>>
              \/ /\ Enumerate /\ pc = "listen" /\ next = 1 /\ services = {}
                 /\ UNCHANGED found
<1> DEFINE Goal == /\ Fresh'
                   /\ \/ IdentifyNext /\ pc = "identify" /\ UNCHANGED <<pc, found>>
                      \/ UNCHANGED <<machine, sockets, identifying>>
                      \/ /\ Enumerate /\ pc = "listen" /\ next = 1 /\ services = {}
                         /\ UNCHANGED found
<1> SUFFICES Goal
  OBVIOUS
<1>1. CASE LoadRules
  BY <1>1 DEF LoadRules, To, Fresh, identifying, Listeners
<1>2. CASE Listen
  <2>1. pc = "listen" /\ pc' = "identify" /\ UNCHANGED found /\ Enumerate
    BY <1>2 DEF Listen, To, Note, Quiet
  <2>2. services = {} /\ next = 1
    BY <2>1 DEF Fresh
  <2> QED BY <2>1, <2>2 DEF Fresh
<1>7. CASE Identified \/ Finish \/ Exited
  BY <1>7, SocketsDecide DEF Identified, Finish, Exited, vars, To, Fresh, identifying
<1>3. CASE Identifying
  BY <1>3 DEF Identifying, Fresh, Quiet
<1>4. CASE Exposure \/ Config \/ Firewall \/ PortForwarding
  BY <1>4 DEF Exposure, Config, Firewall, PortForwarding, Check, To, Fresh
<1>5. CASE SkipSecrets \/ KnownFiles \/ Home \/ Roots \/ RootsDone \/ ReportKeys
  BY <1>5 DEF SkipSecrets, KnownFiles, Home, Roots, RootsDone, ReportKeys, Check, To, Fresh
<1>6. CASE ModelFormats \/ SupplyChainCheck
  BY <1>6 DEF ModelFormats, SupplyChainCheck, Check, To, Fresh
<1> QED BY <1>1, <1>2, <1>3, <1>4, <1>5, <1>6, <1>7 DEF Next

\* What enumeration shows is listening.
LEMMA EnumerateShows == ASSUME Shown, Enumerate PROVE Shown'
<1>1. PICK n \in Networks : n.there = machine /\ sockets' = n.shown
  BY DEF Enumerate
<1>2. ToSet(sockets') \subseteq machine'
  BY <1>1, NetworksAssumption DEF Enumerate
<1>3. UNCHANGED machine
  BY DEF Enumerate
<1> QED BY <1>1, <1>2, <1>3 DEF Shown

\* When the listeners are enumerated, none has been looked at.
LEMMA EnumerateKeeps ==
    ASSUME IdentifyInv, Enumerate, next = 1, services = {} PROVE IdentifyInv'
<1>1. Shown'
  BY EnumerateShows DEF IdentifyInv
<1>2. /\ gor' = [i \in Listeners' |-> "none"] /\ DOMAIN best' = Listeners'
      /\ DOMAIN open' = Listeners' /\ services' = {} /\ next' = 1
  BY DEF Enumerate, Listeners
<1>3. ASSUME NEW i \in Listeners' PROVE Progress(i)'
  <2>1. gor'[i] = "none" /\ ListedAt(i)' = {}
    BY <1>2 DEF ListedAt
  <2> QED BY <2>1 DEF Progress
<1>4. gor' \in [Listeners' -> Stages]
  BY <1>2 DEF Stages
<1> QED BY <1>1, <1>2, <1>3, <1>4 DEF IdentifyInv

\* Every step of a scan keeps the progress of every listener.
LEMMA ScanKeeps == Roomless /\ IdentifyInv /\ Fresh /\ [Next]_vars => (IdentifyInv' /\ Fresh')
<1> SUFFICES ASSUME Roomless, IdentifyInv, Fresh, [Next]_vars PROVE IdentifyInv' /\ Fresh'
  OBVIOUS
<1>0. Fresh'
  <2>1. UNCHANGED vars => Fresh'
    BY SocketsDecide DEF vars, Fresh, identifying
  <2> QED BY <2>1, StartOfScan
<1> SUFFICES IdentifyInv'
  BY <1>0
<1>1. CASE IdentifyNext
  BY <1>1, SpawnKeeps, AcquireKeeps, FingerprintKeeps, AskAPIKeeps, DepositKeeps DEF IdentifyNext
<1>2. CASE UNCHANGED <<machine, sockets, identifying>>
  <2>1. \A i : Progress(i) => Progress(i)'
    BY <1>2, SocketsDecide DEF identifying, Progress, ListedAt
  <2> QED BY <1>2, <2>1, SocketsDecide DEF identifying, IdentifyInv
<1>3. CASE Enumerate /\ next = 1 /\ services = {}
  BY <1>3, EnumerateKeeps
<1>4. CASE UNCHANGED vars
  BY <1>2, <1>4 DEF vars
<1> QED BY <1>1, <1>2, <1>3, <1>4, StartOfScan

\* At the start no listener has been looked at.
LEMMA InitIdentify == Init => (IdentifyInv /\ Fresh)
<1> SUFFICES ASSUME Init PROVE IdentifyInv /\ Fresh
  OBVIOUS
<1>1. services = {} /\ next = 1 /\ sockets = <<>> /\ Listeners = {}
  BY DEF Init, IdentifyInit, Listeners
<1>2. gor \in [Listeners -> Stages] /\ DOMAIN best = Listeners /\ DOMAIN open = Listeners
  BY DEF Init, IdentifyInit, Listeners, Stages
<1>3. Shown
  BY DEF Init, IdentifyInit, Shown, ToSet
<1> QED BY <1>1, <1>2, <1>3 DEF IdentifyInv, Fresh

\* On any machine, whatever of it the scan is shown, however many goroutines talk at a
\* time and in whatever order they end, each listener that answers in time is listed as
\* it would be alone (Identify, EveryAnswerIsListed), as long as the claimants of a port
\* fill the slice they are in.
THEOREM AnswersAreListed ==
    ASSUME Roomless
    PROVE  Spec => []EveryAnswerIsListed
<1>1. Init => IdentifyInv /\ Fresh
  BY InitIdentify
<1>2. IdentifyInv /\ Fresh /\ [Next]_vars => IdentifyInv' /\ Fresh'
  BY ScanKeeps
<1>3. IdentifyInv => EveryAnswerIsListed
  BY DEF IdentifyInv, EveryAnswerIsListed, Joined, Progress, ListedAt
<1> QED BY <1>1, <1>2, <1>3, PTL DEF Spec

-----------------------------------------------------------------------------
(* What the identification works with. *)

IdentifyTypes ==
    /\ Shown
    /\ next \in 1..(Len(sockets) + 1)
    /\ gor \in [Listeners -> Stages]
    /\ slot \in [Ports -> Sigs \cup {None}]
    /\ best \in [Listeners -> [sig : Sigs \cup {None}, confirmed : BOOLEAN]]
    /\ open \in [Listeners -> BOOLEAN]
    /\ \A i \in Listeners : gor[i] \in {"auth", "deposit"} => best[i].sig # None
    /\ services \subseteq Service /\ IsFiniteSet(services)
    /\ Cardinality(Talking) <= MaxParallel

\* The listeners of a machine, as numbers.
LEMMA ListenersAreNumbers ==
    ASSUME Shown
    PROVE  /\ sockets \in Seq(Socket) /\ Len(sockets) \in Nat /\ Listeners = 1..Len(sockets)
           /\ IsFiniteSet(Listeners)
<1>1. sockets \in Seq(Socket)
  <2>1. <<>> \in Seq(Socket)
    OBVIOUS
  <2>2. \A n \in Networks : n.shown \in Seq(Socket)
    BY NetworksAssumption
  <2> QED BY <2>1, <2>2 DEF Shown
<1>2. Len(sockets) \in Nat /\ Listeners = 1..Len(sockets)
  BY <1>1 DEF Listeners
<1>3. IsFiniteSet(1..Len(sockets))
  BY <1>2, FS_Interval
<1> QED BY <1>1, <1>2, <1>3

\* At most one goroutine more than those in a set that is not full.
LEMMA OneMoreTalks ==
    ASSUME Shown, NEW i \in Listeners, NEW T, T \subseteq Talking \cup {i}
    PROVE  Cardinality(T) <= Cardinality(Talking) + 1
<1>1. IsFiniteSet(Listeners) /\ Talking \subseteq Listeners
  BY ListenersAreNumbers DEF Talking
<1>2. IsFiniteSet(Talking)
  BY <1>1, FS_Subset
<1>3. /\ IsFiniteSet(Talking \cup {i})
      /\ Cardinality(Talking \cup {i}) <= Cardinality(Talking) + 1
  <2>1. Cardinality(Talking) \in Nat
    BY <1>2, FS_CardinalityType
  <2>2. IsFiniteSet(Talking \cup {i}) /\ (\/ Cardinality(Talking \cup {i}) = Cardinality(Talking)
                                           \/ Cardinality(Talking \cup {i}) = Cardinality(Talking) + 1)
    BY <1>2, FS_AddElement
  <2> QED BY <2>1, <2>2
<1>4. Cardinality(T) <= Cardinality(Talking \cup {i})
  BY <1>3, FS_Subset
<1>5. IsFiniteSet(T)
  BY <1>3, FS_Subset
<1> QED BY <1>2, <1>3, <1>4, <1>5, FS_CardinalityType

\* Nobody begins to talk.
LEMMA NobodyMoreTalks ==
    ASSUME IdentifyTypes, NEW T, T \subseteq Talking
    PROVE  Cardinality(T) <= MaxParallel
<1>1. IsFiniteSet(Listeners) /\ Talking \subseteq Listeners
  BY ListenersAreNumbers DEF Talking, IdentifyTypes
<1>2. IsFiniteSet(Talking) /\ IsFiniteSet(T) /\ Cardinality(T) <= Cardinality(Talking)
  BY <1>1, FS_Subset
<1>3. Cardinality(T) \in Nat /\ Cardinality(Talking) \in Nat
  BY <1>2, FS_CardinalityType
<1> QED BY <1>2, <1>3, MaxParallelAssumption DEF IdentifyTypes

\* What a listener is settled on is a signature, or nothing.
LEMMA SettleIsTyped ==
    ASSUME IdentifyTypes, NEW i \in Listeners, NEW A \in SUBSET Sigs
    PROVE  Settle(i, A) \in [sig : Sigs \cup {None}, confirmed : BOOLEAN]
<1> DEFINE cands == Candidates(i)
           k == FirstIn(cands, A)
           fit == {x \in DOMAIN cands : cands[x] \in A}
<1>1. sockets[i] \in Socket /\ Hint(i) \in Sigs \cup {None} /\ Claims(i) \in Seq(Sigs)
  BY OwnIsTyped DEF IdentifyTypes
<1>2. slot[sockets[i].port] \in Sigs \cup {None}
  BY <1>1 DEF IdentifyTypes, Socket
<1>3. cands \in Seq(Sigs \cup {None}) /\ (Hint(i) = None => cands = Claims(i))
  BY <1>1, <1>2 DEF Candidates
<1>4. k # 0 => cands[k] \in Sigs
  <2>1. fit \in SUBSET Nat
    BY <1>3
  <2>2. k # 0 => fit # {} /\ k = Min(fit)
    BY DEF FirstIn
  <2>3. fit # {} => Min(fit) \in fit
    BY <2>1, MinIsMember
  <2> QED BY <2>2, <2>3
<1>5. Len(cands) = 1 /\ Hint(i) = None => cands[1] \in Sigs
  BY <1>1, <1>3
<1> HIDE DEF cands, k
<1>6. CASE k # 0
  BY <1>4, <1>6 DEF Settle, cands, k
<1>7. CASE k = 0 /\ Hint(i) # None
  BY <1>1, <1>7 DEF Settle, cands, k
<1>8. CASE k = 0 /\ Hint(i) = None /\ Len(cands) = 1
  BY <1>5, <1>8 DEF Settle, cands, k
<1>9. CASE k = 0 /\ Hint(i) = None /\ Len(cands) # 1
  BY <1>9 DEF Settle, cands, k
<1> QED BY <1>6, <1>7, <1>8, <1>9

\* Starting a goroutine keeps the types.
LEMMA SpawnKeepsTypes == ASSUME IdentifyTypes, Spawn PROVE IdentifyTypes'
<1>1. UNCHANGED <<machine, sockets, best, open, services>> /\ next \in Listeners /\ next' = next + 1
  BY DEF Spawn
<1>2. Listeners = 1..Len(sockets) /\ Len(sockets) \in Nat
  BY ListenersAreNumbers DEF IdentifyTypes
<1>3. next' \in 1..(Len(sockets') + 1)
  BY <1>1, <1>2
<1>4. gor' = [gor EXCEPT ![next] = IF Claims(next) = <<>> /\ Hint(next) = None
                                   THEN "done" ELSE "wait"]
  BY DEF Spawn
<1>5. gor' \in [Listeners -> Stages]
  BY <1>1, <1>4 DEF IdentifyTypes, Stages
<1>6. slot' \in [Ports -> Sigs \cup {None}]
  <2>1. Hint(next) \in Sigs \cup {None}
    BY <1>1, OwnIsTyped DEF IdentifyTypes
  <2> QED BY <2>1 DEF Spawn, IdentifyTypes
<1>7. Talking' \subseteq Talking /\ \A i \in Listeners : gor'[i] \in {"auth", "deposit"} => gor[i] = gor'[i]
  BY <1>1, <1>4, SocketsDecide DEF IdentifyTypes, Talking
<1>8. Cardinality(Talking') <= MaxParallel
  BY <1>7, NobodyMoreTalks
<1> QED BY <1>1, <1>3, <1>5, <1>6, <1>7, <1>8, SocketsDecide DEF IdentifyTypes

\* Letting one talk keeps them, and no more talk than may.
LEMMA AcquireKeepsTypes == ASSUME NEW i \in Listeners, IdentifyTypes, Acquire(i) PROVE IdentifyTypes'
<1>1. UNCHANGED <<machine, sockets, next, slot, best, open, services>>
      /\ gor' = [gor EXCEPT ![i] = "probe"] /\ Cardinality(Talking) < MaxParallel
  BY DEF Acquire
<1>2. gor' \in [Listeners -> Stages]
  BY <1>1 DEF IdentifyTypes, Stages
<1>3. Talking' \subseteq Talking \cup {i}
      /\ \A j \in Listeners : gor'[j] \in {"auth", "deposit"} => gor[j] = gor'[j]
  BY <1>1, SocketsDecide DEF IdentifyTypes, Talking
<1>4. Cardinality(Talking') <= MaxParallel
  <2>1. Cardinality(Talking') <= Cardinality(Talking) + 1
    BY <1>3, OneMoreTalks DEF IdentifyTypes
  <2>2. Cardinality(Talking') \in Nat /\ Cardinality(Talking) \in Nat
    <3>1. Talking' \subseteq Listeners /\ Talking \subseteq Listeners
      BY <1>1, SocketsDecide DEF Talking
    <3> QED BY <3>1, ListenersAreNumbers, FS_Subset, FS_CardinalityType DEF IdentifyTypes
  <2> QED BY <1>1, <2>1, <2>2, MaxParallelAssumption
<1> QED BY <1>1, <1>2, <1>3, <1>4, SocketsDecide DEF IdentifyTypes

\* Comparing answers keeps them.
LEMMA FingerprintKeepsTypes ==
    ASSUME NEW i \in Listeners, IdentifyTypes, Fingerprint(i) PROVE IdentifyTypes'
<1>1. UNCHANGED <<machine, sockets, next, slot, open, services>> /\ gor[i] = "probe"
      /\ gor' = [gor EXCEPT ![i] = IF best'[i].sig = None THEN "done" ELSE "auth"]
  BY DEF Fingerprint
<1>2. PICK answered \in SUBSET Sigs : best' = [best EXCEPT ![i] = Settle(i, answered)]
  BY LooksAreSigs DEF Fingerprint, IdentifyTypes
<1>3. best' \in [Listeners -> [sig : Sigs \cup {None}, confirmed : BOOLEAN]]
      /\ \A j \in Listeners : j # i => best'[j] = best[j]
  BY <1>2, SettleIsTyped DEF IdentifyTypes
<1>4. gor' \in [Listeners -> Stages]
  BY <1>1 DEF IdentifyTypes, Stages
<1>5. Talking' \subseteq Talking
  BY <1>1, SocketsDecide DEF IdentifyTypes, Talking
<1>6. Cardinality(Talking') <= MaxParallel
  BY <1>5, NobodyMoreTalks
<1>7. \A j \in Listeners : gor'[j] \in {"auth", "deposit"} => best'[j].sig # None
  <2> SUFFICES ASSUME NEW j \in Listeners, gor'[j] \in {"auth", "deposit"} PROVE best'[j].sig # None
    OBVIOUS
  <2>1. CASE j = i
    BY <1>1, <2>1 DEF IdentifyTypes
  <2>2. CASE j # i
    BY <1>1, <1>3, <2>2 DEF IdentifyTypes
  <2> QED BY <2>1, <2>2
<1> QED BY <1>1, <1>3, <1>4, <1>6, <1>7, SocketsDecide DEF IdentifyTypes

\* Asking for an open API keeps them.
LEMMA AskAPIKeepsTypes ==
    ASSUME NEW i \in Listeners, IdentifyTypes, AskAPI(i) PROVE IdentifyTypes'
<1>1. UNCHANGED <<machine, sockets, next, slot, best, services>> /\ gor[i] = "auth"
      /\ gor' = [gor EXCEPT ![i] = "deposit"]
  BY DEF AskAPI
<1>2. PICK answers \in BOOLEAN : open' = [open EXCEPT ![i] = answers /\ best[i].sig \in Opens(i)]
  BY DEF AskAPI
<1>3. open' \in [Listeners -> BOOLEAN] /\ gor' \in [Listeners -> Stages]
  BY <1>1, <1>2 DEF IdentifyTypes, Stages
<1>4. Talking' \subseteq Talking
      /\ \A j \in Listeners : gor'[j] \in {"auth", "deposit"} => gor[j] \in {"auth", "deposit"}
  BY <1>1, SocketsDecide DEF IdentifyTypes, Talking
<1>5. Cardinality(Talking') <= MaxParallel
  BY <1>4, NobodyMoreTalks
<1> QED BY <1>1, <1>3, <1>4, <1>5, SocketsDecide DEF IdentifyTypes

\* Listing a service keeps them.
LEMMA DepositKeepsTypes ==
    ASSUME NEW i \in Listeners, IdentifyTypes, Deposit(i) PROVE IdentifyTypes'
<1> DEFINE one == [name |-> best[i].sig, at |-> i, noAuth |-> open[i],
                   exposure |-> sockets[i].addr, confirmed |-> best[i].confirmed]
<1>1. UNCHANGED <<machine, sockets, next, slot, best, open>> /\ gor[i] = "deposit"
      /\ gor' = [gor EXCEPT ![i] = "done"]
      /\ (services' = services \/ services' = services \cup {one})
  BY DEF Deposit
<1>2. one \in Service
  <2>1. sockets[i] \in Socket /\ i \in Nat
    BY OwnIsTyped DEF IdentifyTypes
  <2>2. best[i].sig \in Sigs /\ best[i].confirmed \in BOOLEAN /\ open[i] \in BOOLEAN
    BY <1>1 DEF IdentifyTypes
  <2> QED BY <2>1, <2>2 DEF Service, Socket
<1>3. services' \subseteq Service /\ IsFiniteSet(services')
  <2>1. services \subseteq Service /\ IsFiniteSet(services)
    BY DEF IdentifyTypes
  <2>2. IsFiniteSet(services \cup {one})
    BY <2>1, FS_AddElement
  <2> HIDE DEF one
  <2> QED BY <1>1, <1>2, <2>1, <2>2
<1>4. gor' \in [Listeners -> Stages] /\ Talking' \subseteq Talking
      /\ \A j \in Listeners : gor'[j] \in {"auth", "deposit"} => gor[j] \in {"auth", "deposit"}
  BY <1>1, SocketsDecide DEF IdentifyTypes, Stages, Talking
<1>5. Cardinality(Talking') <= MaxParallel
  BY <1>4, NobodyMoreTalks
<1> QED BY <1>1, <1>3, <1>4, <1>5, SocketsDecide DEF IdentifyTypes

\* Every step of a scan keeps the types of the identification.
LEMMA StepKeepsIdentifyTypes ==
    ASSUME IdentifyTypes, Fresh, [Next]_vars PROVE IdentifyTypes' /\ Fresh'
<1>0. Fresh'
  <2>1. UNCHANGED vars => Fresh'
    BY SocketsDecide DEF vars, Fresh, identifying
  <2> QED BY <2>1, StartOfScan
<1> SUFFICES IdentifyTypes'
  BY <1>0
<1>1. CASE UNCHANGED <<machine, sockets, identifying>>
  BY <1>1, SocketsDecide DEF identifying, IdentifyTypes, Talking
<1>2. CASE IdentifyNext
  BY <1>2, SpawnKeepsTypes, AcquireKeepsTypes, FingerprintKeepsTypes, AskAPIKeepsTypes,
     DepositKeepsTypes DEF IdentifyNext
<1>3. CASE Enumerate /\ next = 1 /\ services = {}
  <2>1. Shown'
    BY <1>3, EnumerateShows DEF IdentifyTypes
  <2>2. /\ gor' = [i \in Listeners' |-> "none"] /\ open' = [i \in Listeners' |-> FALSE]
        /\ best' = [i \in Listeners' |-> [sig |-> None, confirmed |-> FALSE]]
        /\ services' = {} /\ next' = 1 /\ UNCHANGED slot
    BY <1>3 DEF Enumerate, Listeners
  <2>3. gor' \in [Listeners' -> Stages] /\ open' \in [Listeners' -> BOOLEAN]
        /\ best' \in [Listeners' -> [sig : Sigs \cup {None}, confirmed : BOOLEAN]]
    BY <2>2 DEF Stages
  <2>4. next' \in 1..(Len(sockets') + 1)
    <3>1. (Shown => Len(sockets) \in Nat)'
      BY ListenersAreNumbers, PTL
    <3> QED BY <2>1, <2>2, <3>1
  <2>5. IsFiniteSet({}) /\ Cardinality({}) = 0
    BY FS_EmptySet
  <2>6. Talking' = {}
    BY <2>2 DEF Talking
  <2>7. Cardinality(Talking') <= MaxParallel
    BY <2>5, <2>6, MaxParallelAssumption
  <2> QED BY <2>1, <2>2, <2>3, <2>4, <2>5, <2>7 DEF IdentifyTypes
<1>4. CASE UNCHANGED vars
  BY <1>1, <1>4 DEF vars
<1> QED BY <1>1, <1>2, <1>3, <1>4, StartOfScan

-----------------------------------------------------------------------------
(* What every finding of a scan is. *)

Tabled == Disclosure \cup SupplyChain \cup Poisoning \cup Consumption

Proper(f) ==
    /\ f.sev \in Info..Critical /\ f.mark \in Marks
    /\ f.mark = "scored" /\ f.sev > Info /\ f.id \notin {"SUP-034", "SUP-051"} => f.id \in Tabled

Sound(fs) == IsFiniteSet(fs) /\ \A f \in fs : Proper(f)

\* No finding at all is sound,
LEMMA SoundNone == Sound({})
BY FS_EmptySet DEF Sound

\* so is one proper finding,
LEMMA SoundOne == ASSUME NEW f, Proper(f) PROVE Sound({f})
BY FS_Singleton DEF Sound

\* and so are two sound sets together,
LEMMA SoundBoth == ASSUME NEW A, NEW B, Sound(A), Sound(B) PROVE Sound(A \cup B)
BY FS_Union DEF Sound

\* The findings made one for each member of a finite set.
LEMMA FiniteImage ==
    ASSUME NEW S, IsFiniteSet(S), NEW R, NEW e, e = [x \in S |-> e[x]],
           \A y \in R : \E x \in S : y = e[x]
    PROVE  IsFiniteSet(R)
<1> DEFINE T == {e[x] : x \in S}
<1>1. e \in Surjection(S, T)
  BY DEF Surjection
<1>2. IsFiniteSet(T)
  BY <1>1, FS_Surjection
<1>3. R \subseteq T
  OBVIOUS
<1> QED BY <1>2, <1>3, FS_Subset

\* and proper findings made one for each member of a finite set.
LEMMA SoundMany ==
    ASSUME NEW S, IsFiniteSet(S), NEW R, NEW e, e = [x \in S |-> e[x]],
           \A y \in R : \E x \in S : y = e[x], \A x \in S : Proper(e[x])
    PROVE  Sound(R)
<1>1. IsFiniteSet(R)
  BY FiniteImage
<1>2. \A y \in R : Proper(y)
  OBVIOUS
<1> QED BY <1>1, <1>2 DEF Sound

\* A finding is proper when its kind is in a row of the table.
LEMMA FindingIsProper ==
    ASSUME NEW id, id \in Tabled \cup {"SUP-034", "RULE-001", "RULE-002", "SUP-033"},
           NEW sev \in Info..Critical, NEW x
    PROVE  /\ id \in Tabled \cup {"SUP-034"} => Proper(Finding(id, sev, x))
           /\ Proper(Advisory(id, sev))
BY DEF Proper, Finding, Advisory, Marks

\* A remark that a check did not run is proper.
LEMMA NotRunIsProper == ASSUME NEW id PROVE Proper(NotRun(id))
BY DEF Proper, NotRun, Finding, Marks, Info, Critical

\* The names of the severities are the numbers from Info to Critical.
LEMMA SeveritiesAreTyped ==
    /\ {Info, Low, Medium, High, Critical} \subseteq Info..Critical
    /\ Info = 0 /\ Critical = 4
BY DEF Info, Low, Medium, High, Critical

\* An exposure finding is about a service that was identified.
LEMMA ExposureIsProper ==
    ASSUME NEW s \in services
    PROVE  /\ Proper(ExposureOf(s)) /\ ExposureOf(s).mark = "scored"
           /\ ExposureOf(s).id \in {"EXP-000", "EXP-001", "EXP-002", "EXP-003"}
<1> DEFINE f == CASE s.exposure = "any" ->
                      Finding("EXP-001", IF s.noAuth \/ s.name \in HighValue THEN Critical ELSE High, s)
               [] s.exposure = "lan" -> Finding("EXP-002", IF s.noAuth THEN High ELSE Medium, s)
               [] s.exposure = "loopback" /\ s.noAuth -> Finding("EXP-003", Low, s)
               [] OTHER -> Finding("EXP-000", Info, s)
<1>1. \E id \in {"EXP-000", "EXP-001", "EXP-002", "EXP-003"}, sev \in Info..Critical :
           f = Finding(id, sev, s)
  <2>1. CASE s.exposure = "any"
    BY <2>1, SeveritiesAreTyped
  <2>2. CASE s.exposure = "lan"
    BY <2>2, SeveritiesAreTyped
  <2>3. CASE s.exposure = "loopback"
    BY <2>3, SeveritiesAreTyped
  <2>4. CASE s.exposure \notin {"any", "lan", "loopback"}
    BY <2>4, SeveritiesAreTyped
  <2> QED BY <2>1, <2>2, <2>3, <2>4
<1>2. ExposureOf(s) = [f EXCEPT !.store = s.name \in VectorStores]
  BY DEF ExposureOf
<1> HIDE DEF f
<1>3. PICK id \in {"EXP-000", "EXP-001", "EXP-002", "EXP-003"}, sev \in Info..Critical :
           f = Finding(id, sev, s)
  BY <1>1
<1>4. /\ ExposureOf(s).id = id /\ ExposureOf(s).sev = sev /\ ExposureOf(s).about = s
      /\ ExposureOf(s).mark = "scored"
  BY <1>2, <1>3 DEF Finding
<1>5. id \in Tabled
  BY DEF Tabled, Disclosure
<1> QED BY <1>4, <1>5 DEF Proper, Marks

\* The exposure check adds proper findings,
LEMMA ExposureIsSound ==
    ASSUME IsFiniteSet(services) PROVE Sound({ExposureOf(s) : s \in services})
<1> DEFINE e == [s \in services |-> ExposureOf(s)]
<1>1. \A s \in services : Proper(e[s])
  BY ExposureIsProper
<1> QED BY <1>1, SoundMany

\* so do the configuration check,
LEMMA ConfigIsSound ==
    ASSUME IsFiniteSet(services), NEW c \in Configs PROVE Sound(ConfigFindings(c))
<1> DEFINE pairs == {x \in c.commands \X services : x[1].at = x[2].at}
           scripts == IF host.home THEN c.scripts ELSE {}
           e1 == [x \in pairs |-> Finding("CFG-001", IF x[1].flag = "--listen" THEN High ELSE Critical,
                                           <<x[1].flag, x[2].name>>)]
           e2 == [v \in c.env |-> Finding("CFG-002", IF v = "OLLAMA_ORIGINS" THEN Medium ELSE High, v)]
           e3 == [x \in scripts |-> Finding("CFG-003", IF x.shared THEN Critical ELSE High, x.path)]
           A == {e1[x] : x \in pairs}
           B == {e2[x] : x \in c.env}
           C == {e3[x] : x \in scripts}
<1>1. IsFiniteSet(c.commands) /\ IsFiniteSet(c.env) /\ IsFiniteSet(c.scripts)
  BY ConfigsAssumption
<1>2. IsFiniteSet(pairs) /\ IsFiniteSet(scripts)
  <2>1. IsFiniteSet(c.commands \X services)
    BY <1>1, FS_Product
  <2> QED BY <1>1, <2>1, FS_Subset, FS_EmptySet
<1>3. \A id \in {"CFG-001", "CFG-002", "CFG-003"} : id \in Tabled
  BY DEF Tabled, Disclosure
<1>4. Sound(A)
  <2>1. \A x \in pairs : Proper(e1[x])
    BY <1>3, FindingIsProper, SeveritiesAreTyped
  <2> HIDE DEF pairs
  <2> QED BY <1>2, <2>1, SoundMany
<1>5. Sound(B)
  <2>1. \A x \in c.env : Proper(e2[x])
    BY <1>3, FindingIsProper, SeveritiesAreTyped
  <2> QED BY <1>1, <2>1, SoundMany
<1>6. Sound(C)
  <2>1. \A x \in scripts : Proper(e3[x])
    BY <1>3, FindingIsProper, SeveritiesAreTyped
  <2> HIDE DEF scripts
  <2> QED BY <1>2, <2>1, SoundMany
<1>7. ConfigFindings(c) = (A \cup B) \cup C
  BY DEF ConfigFindings
<1> HIDE DEF A, B, C
<1> QED BY <1>4, <1>5, <1>6, <1>7, SoundBoth

\* the loading of the rules,
LEMMA RulesAreSound ==
    ASSUME NEW r PROVE Sound((IF ~r.loads \/ NothingLoaded(r) THEN {Advisory("RULE-001", Medium)} ELSE {})
                             \cup (IF r.loads /\ r.behind THEN {Advisory("RULE-002", Low)} ELSE {}))
<1>1. Proper(Advisory("RULE-001", Medium)) /\ Proper(Advisory("RULE-002", Low))
  BY FindingIsProper, SeveritiesAreTyped
<1>2. Sound(IF ~r.loads \/ NothingLoaded(r) THEN {Advisory("RULE-001", Medium)} ELSE {})
  BY <1>1, SoundOne, SoundNone
<1>3. Sound(IF r.loads /\ r.behind THEN {Advisory("RULE-002", Low)} ELSE {})
  BY <1>1, SoundOne, SoundNone
<1> QED BY <1>2, <1>3, SoundBoth

\* the firewall check,
LEMMA FirewallIsSound ==
    ASSUME NEW fw \in {"on", "off", "unknown"} PROVE Sound(FirewallFindings(fw))
<1>1. \A id \in {"FW-000", "FW-001", "FW-002"} : id \in Tabled
  BY DEF Tabled, Consumption
<1>2. /\ Proper(Finding("FW-000", Info, None)) /\ Proper(Finding("FW-001", High, None))
      /\ Proper(Finding("FW-002", Low, None))
  BY <1>1, FindingIsProper, SeveritiesAreTyped
<1>3. Proper(NotRun("FW-003"))
  BY NotRunIsProper
<1>4. Sound({NotRun("FW-003")}) /\ Sound({Finding("FW-000", Info, None)})
      /\ Sound({Finding("FW-001", High, None)}) /\ Sound({Finding("FW-002", Low, None)})
  BY <1>2, <1>3, SoundOne
<1>5. CASE fw = "unknown"
  BY <1>4, <1>5, SoundNone DEF FirewallFindings
<1>6. CASE fw = "on"
  BY <1>4, <1>6 DEF FirewallFindings
<1>7. CASE fw = "off"
  BY <1>4, <1>7 DEF FirewallFindings
<1> QED BY <1>5, <1>6, <1>7

\* The table that is read of some devices.
FirstTable(r) == r[Min(Gateways(r))].table

\* Of a table the rows are read up to a limit or its end, whichever comes first.
LEMMA TableIsRead ==
    ASSUME NEW r \in Routers, Gateways(r) # {}
    PROVE  /\ FirstTable(r) \in Seq(MappingRow)
           /\ \E n \in 0..Len(FirstTable(r)) :
                  /\ RowsOf(FirstTable(r)) = SubSeq(FirstTable(r), 1, n)
                  /\ \A m \in DOMAIN FirstTable(r) :
                         /\ m <= MaxMappings
                         /\ \A i \in 1..m : FirstTable(r)[i].kind = "mapping"
                         => m <= n
<1> DEFINE g == Min(Gateways(r))
           t == r[g].table
           ends == {i \in DOMAIN t : t[i].kind # "mapping"}
           lens == {Len(t), MaxMappings} \cup {i - 1 : i \in ends}
           n == Min(lens)
<1>1. g \in DOMAIN r
  <2>1. Gateways(r) \in SUBSET Nat /\ Gateways(r) \subseteq DOMAIN r
    BY RoutersAssumption DEF Gateways
  <2> QED BY <2>1, MinIsMember
<1>2. t \in Seq(MappingRow)
  <2> DEFINE Device == [maps : BOOLEAN, table : Seq(MappingRow)]
  <2>1. r \in Seq(Device)
    BY RoutersAssumption
  <2>2. \A d \in Device : d.table \in Seq(MappingRow)
    OBVIOUS
  <2> HIDE DEF g, Device
  <2>3. r[g] \in Device
    BY <1>1, <2>1
  <2> QED BY <2>2, <2>3
<1>3. FirstTable(r) = t
  BY DEF FirstTable
<1> HIDE DEF t
<1>4. Len(t) \in Nat /\ DOMAIN t = 1..Len(t) /\ MaxMappings \in Nat /\ lens \in SUBSET Nat
  BY <1>2, RoutersAssumption
<1>5. n \in lens /\ \A k \in lens : n <= k
  <2>1. Len(t) \in lens
    OBVIOUS
  <2> HIDE DEF lens
  <2>2. PICK m \in lens : \A k \in lens : m <= k
    BY <1>4, <2>1, Least
  <2> QED BY <2>2 DEF Min
<1>6. n \in 0..Len(t)
  <2>1. Len(t) \in lens
    OBVIOUS
  <2> HIDE DEF n, lens
  <2> QED BY <1>4, <1>5, <2>1
<1>7. RowsOf(t) = SubSeq(t, 1, n)
  BY DEF RowsOf
<1>8. ASSUME NEW m \in DOMAIN t, m <= MaxMappings, \A i \in 1..m : t[i].kind = "mapping"
      PROVE  m <= n
  <2>1. \A k \in lens : m <= k
    <3> SUFFICES ASSUME NEW i \in ends PROVE m <= i - 1
      BY <1>4, <1>8
    <3>1. i \in 1..Len(t) /\ i \notin 1..m
      BY <1>4, <1>8
    <3> QED BY <1>4, <3>1
  <2> HIDE DEF n, lens
  <2> QED BY <1>5, <2>1
<1> HIDE DEF n
<1> QED BY <1>2, <1>3, <1>6, <1>7, <1>8

\* The mappings that are read are those of a table that ends.
LEMMA ForwardsAreFinite ==
    ASSUME NEW r \in Routers, Gateways(r) # {} PROVE IsFiniteSet(Forwards(r))
<1>1. PICK t \in Seq(MappingRow) : t = FirstTable(r)
  BY TableIsRead
<1>2. PICK n \in 0..Len(t) : RowsOf(t) = SubSeq(t, 1, n)
  BY <1>1, TableIsRead
<1>3. RowsOf(t) \in Seq(MappingRow)
  <2>1. Len(t) \in Nat
    OBVIOUS
  <2>2. \A i \in 1..n : t[i] \in MappingRow
    BY <2>1
  <2>3. SubSeq(t, 1, n) \in Seq(MappingRow)
    BY <2>1, <2>2
  <2> QED BY <1>2, <2>3
<1>4. IsFiniteSet(ToSet(RowsOf(t)))
  <2>1. IsFiniteSet(1..Len(RowsOf(t)))
    BY <1>3, FS_Interval
  <2>2. DOMAIN RowsOf(t) = 1..Len(RowsOf(t)) /\ RowsOf(t) = [i \in 1..Len(RowsOf(t)) |-> RowsOf(t)[i]]
    BY <1>3
  <2> QED BY <2>1, <2>2, FiniteImage DEF ToSet
<1> QED BY <1>1, <1>4 DEF Forwards, FirstTable

\* A mapping that is delivered before one that is not, and within the limit, is read.
LEMMA MappingIsRead ==
    ASSUME NEW r \in Routers, Gateways(r) # {}, NEW m \in DOMAIN FirstTable(r), m <= MaxMappings,
           \A i \in 1..m : FirstTable(r)[i].kind = "mapping"
    PROVE  FirstTable(r)[m] \in Forwards(r)
<1>1. PICK t \in Seq(MappingRow) : t = FirstTable(r)
  BY TableIsRead
<1>2. PICK n \in 0..Len(t) : RowsOf(t) = SubSeq(t, 1, n) /\ m <= n
  BY <1>1, TableIsRead
<1>3. Len(t) \in Nat /\ m \in 1..n
  BY <1>1, <1>2
<1>4. m \in DOMAIN SubSeq(t, 1, n) /\ SubSeq(t, 1, n)[m] = t[m]
  BY <1>2, <1>3
<1> QED BY <1>1, <1>2, <1>4 DEF Forwards, FirstTable, ToSet

\* the router check,
LEMMA RouterIsSound ==
    ASSUME NEW hits, IsFiniteSet(hits)
    PROVE  /\ Sound({Finding("NAT-000", Info, None)}) /\ Sound({Finding("NAT-002", Low, None)})
           /\ Sound({Finding("NAT-001", Critical, m) : m \in hits})
<1>1. \A id \in {"NAT-000", "NAT-001", "NAT-002"} : id \in Tabled
  BY DEF Tabled, Consumption
<1>2. Proper(Finding("NAT-000", Info, None)) /\ Proper(Finding("NAT-002", Low, None))
  BY <1>1, FindingIsProper, SeveritiesAreTyped
<1> DEFINE e == [m \in hits |-> Finding("NAT-001", Critical, m)]
<1>3. \A m \in hits : Proper(e[m])
  BY <1>1, FindingIsProper, SeveritiesAreTyped
<1>4. Sound({Finding("NAT-001", Critical, m) : m \in hits})
  BY <1>3, SoundMany
<1> QED BY <1>2, <1>4, SoundOne

\* the credential search,
LEMMA KeysAreSound ==
    ASSUME NEW a, NEW b, NEW c
    PROVE  /\ Sound({Finding("SEC-001", High, a)}) /\ Sound({Finding("SEC-002", Medium, b)})
           /\ Sound({Finding("SEC-000", Info, c)})
           /\ Sound({NotRun("SEC-003")}) /\ Sound({NotRun("SEC-004")})
<1>1. \A id \in {"SEC-000", "SEC-001", "SEC-002"} : id \in Tabled
  BY DEF Tabled, Disclosure
<1>2. /\ Proper(Finding("SEC-001", High, a)) /\ Proper(Finding("SEC-002", Medium, b))
      /\ Proper(Finding("SEC-000", Info, c))
  BY <1>1, FindingIsProper, SeveritiesAreTyped
<1>3. Proper(NotRun("SEC-003")) /\ Proper(NotRun("SEC-004"))
  BY NotRunIsProper
<1> QED BY <1>2, <1>3, SoundOne

\* the check of the model files,
LEMMA WeightsAreSound == ASSUME NEW v PROVE Sound(WeightFindings(v))
<1>1. \A id \in {"MDL-000", "MDL-001", "MDL-002"} : id \in Tabled
  BY DEF Tabled, Poisoning
<1>2. /\ Proper(Finding("MDL-001", Medium, None)) /\ Proper(Finding("MDL-002", Low, None))
      /\ Proper(Finding("MDL-000", Info, None))
  BY <1>1, FindingIsProper, SeveritiesAreTyped
<1> DEFINE A == IF v.chosen THEN {Finding("MDL-001", Medium, None)} ELSE {}
           B == IF v.managed THEN {Finding("MDL-002", Low, None)} ELSE {}
           C == IF v.safe THEN {Finding("MDL-000", Info, None)} ELSE {}
<1>3. Sound(A) /\ Sound(B) /\ Sound(C)
  BY <1>2, SoundOne, SoundNone
<1>4. WeightFindings(v) = (A \cup B) \cup C
  BY DEF WeightFindings
<1> HIDE DEF A, B, C
<1> QED BY <1>3, <1>4, SoundBoth

\* the comparison with the known-bad list,
LEMMA ListIsSound ==
    ASSUME NEW hits, IsFiniteSet(hits), \A h \in hits : h.unresolved \in BOOLEAN /\ h.sev \in Info..Critical
    PROVE  Sound(ListFindings(hits))
<1> DEFINE e == [h \in hits |-> IF h.unresolved THEN Finding("SUP-034", Medium, h.id)
                                ELSE Finding("SUP-030", h.sev, h.id)]
           A == IF rules.problems THEN {Advisory("SUP-033", Low)} ELSE {}
           B == {e[h] : h \in hits}
           C == CASE ~rules.entries -> {}
                  [] rules.entries /\ rules.stale -> {Finding("SUP-031", Low, None)}
                  [] rules.entries /\ ~rules.stale /\ hits = {} -> {Finding("SUP-032", Info, None)}
                  [] OTHER -> {}
<1>1. \A id \in {"SUP-030", "SUP-031", "SUP-032"} : id \in Tabled
  BY DEF Tabled, SupplyChain
<1>2. Proper(Finding("SUP-031", Low, None)) /\ Proper(Finding("SUP-032", Info, None))
  BY <1>1, FindingIsProper, SeveritiesAreTyped
<1>3. Proper(Advisory("SUP-033", Low))
  BY FindingIsProper, SeveritiesAreTyped
<1>4. \A h \in hits : Proper(e[h])
  <2> SUFFICES ASSUME NEW h \in hits PROVE Proper(e[h])
    OBVIOUS
  <2>1. Proper(Finding("SUP-034", Medium, h.id)) /\ Proper(Finding("SUP-030", h.sev, h.id))
    BY <1>1, FindingIsProper, SeveritiesAreTyped
  <2> QED BY <2>1
<1>5. Sound(A)
  BY <1>3, SoundOne, SoundNone
<1>6. Sound(B)
  BY <1>4, SoundMany
<1>7. Sound(C)
  <2>1. C \in {{}, {Finding("SUP-031", Low, None)}, {Finding("SUP-032", Info, None)}}
    OBVIOUS
  <2> HIDE DEF C
  <2> QED BY <1>2, <2>1, SoundOne, SoundNone
<1>8. ListFindings(hits) = (A \cup B) \cup C
  BY DEF ListFindings
<1> HIDE DEF A, B, C
<1> QED BY <1>5, <1>6, <1>7, <1>8, SoundBoth

\* the comparison with the baseline,
LEMMA ChangesAreSound ==
    ASSUME NEW changes, IsFiniteSet(changes) PROVE Sound(ChangeFindings(changes))
<1> DEFINE of(t) == {c \in changes : c.type = t}
           e1 == [c \in of("dangerous") |-> Finding("SUP-010", Critical, c.id)]
           e2 == [c \in of("modified") |-> Finding("SUP-011", High, c.id)]
           A == {e1[c] : c \in of("dangerous")}
           B == {e2[c] : c \in of("modified")}
           C == IF of("added") # {} THEN {Finding("SUP-012", Low, of("added"))} ELSE {}
           D == IF of("removed") # {} THEN {Finding("SUP-013", Info, None)} ELSE {}
           E == IF changes = {} THEN {Finding("SUP-002", Info, None)} ELSE {}
<1>1. \A id \in {"SUP-002", "SUP-010", "SUP-011", "SUP-012", "SUP-013"} : id \in Tabled
  BY DEF Tabled, SupplyChain
<1>2. \A x : Proper(Finding("SUP-010", Critical, x)) /\ Proper(Finding("SUP-011", High, x))
             /\ Proper(Finding("SUP-012", Low, x))
  BY <1>1, FindingIsProper, SeveritiesAreTyped
<1>3. Proper(Finding("SUP-013", Info, None)) /\ Proper(Finding("SUP-002", Info, None))
  BY <1>1, FindingIsProper, SeveritiesAreTyped
<1>4. IsFiniteSet(of("dangerous")) /\ IsFiniteSet(of("modified"))
  BY FS_Subset
<1>5. Sound(A)
  <2>1. \A c \in of("dangerous") : Proper(e1[c])
    BY <1>2
  <2> HIDE DEF of
  <2> QED BY <1>4, <2>1, SoundMany
<1>6. Sound(B)
  <2>1. \A c \in of("modified") : Proper(e2[c])
    BY <1>2
  <2> HIDE DEF of
  <2> QED BY <1>4, <2>1, SoundMany
<1>7. Sound(C) /\ Sound(D) /\ Sound(E)
  BY <1>2, <1>3, SoundOne, SoundNone
<1>8. ChangeFindings(changes) = ((((A \cup B) \cup C) \cup D) \cup E)
  BY DEF ChangeFindings
<1> HIDE DEF A, B, C, D, E
<1> QED BY <1>5, <1>6, <1>7, <1>8, SoundBoth

\* and the supply chain check as a whole.
LEMMA SupplyIsSound ==
    ASSUME NEW s \in Supplies PROVE Sound(s.code) /\ Sound(s.other)
<1>1. IsFiniteSet(s.code) /\ IsFiniteSet(s.other)
  BY SuppliesAssumption
<1>2. ASSUME NEW f \in s.code PROVE Proper(f)
  <2>1. f.id = "SUP-001" /\ f.sev \in Info..Critical /\ f.mark = "scored"
    BY SuppliesAssumption
  <2> QED BY <2>1 DEF Proper, Tabled, SupplyChain, Marks
<1>3. ASSUME NEW f \in s.other PROVE Proper(f)
  <2>1. /\ f.id \in {"SUP-020", "SUP-040", "SUP-041", "SUP-050", "SUP-051", "SUP-052", "SUP-053"}
        /\ f.sev \in Info..Critical /\ f.mark \in {"scored", "notrun"}
    BY SuppliesAssumption
  <2> QED BY <2>1 DEF Proper, Tabled, SupplyChain, Poisoning, Marks
<1> QED BY <1>1, <1>2, <1>3 DEF Sound

\* Each step adds sound findings to those there are.
LEMMA SoundIsAdded ==
    ASSUME IsFiniteSet(services), Next
    PROVE  \E X : Sound(X) /\ found' = found \cup X
<1> USE SoundNone
<1>0. UNCHANGED found => \E X : Sound(X) /\ found' = found \cup X
  OBVIOUS
<1>1. CASE LoadRules
  <2>1. CASE UNCHANGED found
    BY <1>0, <2>1
  <2>2. CASE \E r \in RuleFiles :
            Add((IF ~r.loads \/ NothingLoaded(r) THEN {Advisory("RULE-001", Medium)} ELSE {})
                \cup (IF r.loads /\ r.behind THEN {Advisory("RULE-002", Low)} ELSE {}))
    BY <2>2, RulesAreSound DEF Add
  <2> QED BY <1>1, <2>1, <2>2 DEF LoadRules, Note
<1>2. CASE Listen \/ Identifying \/ Identified \/ SkipSecrets \/ KnownFiles \/ Home \/ Roots
           \/ RootsDone \/ Finish \/ Exited
  BY <1>0, <1>2 DEF Listen, Identifying, Identified, SkipSecrets, KnownFiles, Home, Roots,
     RootsDone, Finish, Exited, Note, Quiet, vars
<1>3. CASE Exposure
  BY <1>3, ExposureIsSound DEF Exposure, Add
<1>4. CASE Config
  BY <1>4, ConfigIsSound DEF Config, Add
<1>5. CASE Firewall
  <2>1. PICK fw \in {"on", "off", "unknown"} :
            IF FirewallFindings(fw) = {} THEN Note("firewall") ELSE Add(FirewallFindings(fw))
    BY <1>5, FirewallsAssumption DEF Firewall
  <2> QED BY <1>0, <2>1, FirewallIsSound DEF Note, Add
<1>6. CASE PortForwarding
  <2> DEFINE at(m) == {s \in services : sockets[s.at].port = m.port}
             hits == {m \in Forwards(router') : at(m) # {}}
  <2>1. CASE UNCHANGED found
    BY <1>0, <2>1
  <2>2. CASE ~UNCHANGED found
    <3>1. /\ router' \in Routers /\ Gateways(router') # {}
          /\ \/ Add({Finding("NAT-000", Info, None)})
             \/ Add({Finding("NAT-002", Low, None)})
             \/ Add({Finding("NAT-001", Critical, m) : m \in hits})
      BY <1>6, <2>2 DEF PortForwarding, Note
    <3>2. IsFiniteSet(hits)
      <4>1. PICK r : r = router'
        OBVIOUS
      <4>2. IsFiniteSet(Forwards(r))
        BY <3>1, <4>1, ForwardsAreFinite
      <4> QED BY <4>1, <4>2, FS_Subset
    <3> HIDE DEF hits
    <3> QED BY <3>1, <3>2, RouterIsSound DEF Add
  <2> QED BY <2>1, <2>2
<1>7. CASE ReportKeys
  <2> DEFINE A == IF hist # {} THEN {Finding("SEC-001", High, <<Cardinality(hist), "unsaid">>)} ELSE {}
             B == IF cfg # {} THEN {Finding("SEC-002", Medium, <<Cardinality(cfg), ScopeOn("SEC-002")>>)} ELSE {}
             C == IF flags.history THEN {} ELSE {NotRun("SEC-003")}
             D == IF flags.docs THEN {} ELSE {NotRun("SEC-004")}
             E == IF hist = {} /\ cfg = {} THEN {Finding("SEC-000", Info, <<0, ScopeOn("SEC-000")>>)} ELSE {}
             F == IF rules.patterns THEN (C \cup D) \cup E ELSE {}
  <2>1. Sound(A) /\ Sound(B) /\ Sound(C) /\ Sound(D) /\ Sound(E)
    BY KeysAreSound
  <2>2. found' = found \cup ((A \cup B) \cup F)
    BY <1>7 DEF ReportKeys
  <2> HIDE DEF A, B, C, D, E
  <2>3. Sound(F)
    BY <2>1, SoundBoth
  <2> HIDE DEF F
  <2>4. Sound((A \cup B) \cup F)
    BY <2>1, <2>3, SoundBoth
  <2> QED BY <2>2, <2>4
<1>8. CASE ModelFormats
  <2>1. CASE UNCHANGED found
    BY <1>0, <2>1
  <2>2. CASE \E v : Add(IF host.home THEN WeightFindings(v) ELSE {})
    BY <2>2, WeightsAreSound DEF Add
  <2> QED BY <1>8, <2>1, <2>2 DEF ModelFormats, Note
<1>9. CASE SupplyChainCheck
  <2>1. CASE UNCHANGED found
    BY <1>0, <2>1
  <2>2. CASE ~UNCHANGED found
    <3>1. supply' \in Supplies
      BY <1>9, <2>2 DEF SupplyChainCheck, Note
    <3>2. PICK s \in Supplies : s = supply'
      BY <3>1
    <3> DEFINE A == s.other
               B == IF rules.indicators THEN s.code ELSE {}
               hits == IF rules.entries THEN s.hits ELSE {}
               C == IF rules.loads THEN ListFindings(hits) ELSE {}
               D == CASE s.baseline = "none" -> {Finding("SUP-000", Info, None)}
                      [] s.baseline = "there" -> ChangeFindings(s.changes)
                      [] s.baseline = "broken" -> {}
    <3>3. found' = found \cup (((A \cup B) \cup C) \cup D)
      BY <1>9, <2>2, <3>2 DEF SupplyChainCheck, Note
    <3>4. Sound(A) /\ Sound(B)
      BY SupplyIsSound
    <3>5. Sound(C)
      <4>1. IsFiniteSet(hits) /\ \A h \in hits : h.unresolved \in BOOLEAN /\ h.sev \in Info..Critical
        BY SuppliesAssumption, FS_EmptySet
      <4> HIDE DEF hits
      <4> QED BY <4>1, ListIsSound
    <3>6. Sound(D)
      <4>1. Sound({Finding("SUP-000", Info, None)})
        BY FindingIsProper, SeveritiesAreTyped, SoundOne DEF Tabled, SupplyChain
      <4>2. Sound(ChangeFindings(s.changes)) /\ s.baseline \in {"none", "there", "broken"}
        BY SuppliesAssumption, ChangesAreSound
      <4>3. CASE s.baseline = "none"
        BY <4>1, <4>3
      <4>4. CASE s.baseline = "there"
        BY <4>2, <4>4
      <4>5. CASE s.baseline = "broken"
        BY <4>5
      <4> QED BY <4>2, <4>3, <4>4, <4>5
    <3> HIDE DEF A, B, C, D
    <3>7. Sound(((A \cup B) \cup C) \cup D)
      BY <3>4, <3>5, <3>6, SoundBoth
    <3> QED BY <3>3, <3>7
  <2> QED BY <2>1, <2>2
<1> QED BY <1>1, <1>2, <1>3, <1>4, <1>5, <1>6, <1>7, <1>8, <1>9 DEF Next

\* What a step adds to the findings is proper.
LEMMA StepIsSound ==
    ASSUME IdentifyTypes, Sound(found), [Next]_vars PROVE Sound(found)'
<1>1. CASE UNCHANGED vars
  BY <1>1 DEF vars, Sound, Proper
<1>2. CASE Next
  <2>1. PICK X : Sound(X) /\ found' = found \cup X
    BY <1>2, SoundIsAdded DEF IdentifyTypes
  <2>2. IsFiniteSet(found')
    BY <2>1, FS_Union DEF Sound
  <2>3. \A f : Proper(f) => Proper(f)'
    BY DEF Proper
  <2> QED BY <2>1, <2>2, <2>3 DEF Sound
<1> QED BY <1>1, <1>2

-----------------------------------------------------------------------------
ReportInv == IdentifyTypes /\ Fresh /\ Sound(found)

\* The start of a scan has no findings.
LEMMA InitReport == Init => ReportInv
<1> SUFFICES ASSUME Init PROVE ReportInv
  OBVIOUS
<1>1. /\ services = {} /\ next = 1 /\ sockets = <<>> /\ found = {} /\ Listeners = {}
      /\ gor \in [Listeners -> Stages] /\ slot \in [Ports -> Sigs \cup {None}]
      /\ best \in [Listeners -> [sig : Sigs \cup {None}, confirmed : BOOLEAN]]
      /\ open \in [Listeners -> BOOLEAN]
  BY DEF IdentifyInit, Init, Listeners
<1>2. next \in 1..(Len(sockets) + 1)
  BY <1>1
<1>3. Talking = {} /\ IsFiniteSet({}) /\ Cardinality({}) = 0
  BY <1>1, FS_EmptySet DEF Talking
<1>4. IdentifyTypes
  BY <1>1, <1>2, <1>3, InitIdentify, MaxParallelAssumption DEF IdentifyTypes, IdentifyInv
<1>5. Fresh
  BY InitIdentify
<1> QED BY <1>1, <1>4, <1>5, SoundNone DEF ReportInv

\* Every step keeps the findings proper.
LEMMA StepKeepsReport == ReportInv /\ [Next]_vars => ReportInv'
BY StepKeepsIdentifyTypes, StepIsSound DEF ReportInv

\* The worst of some severities is one of them, and none is above it.
LEMMA WorstIsWorst ==
    ASSUME NEW S \in SUBSET (Info..Critical), S # {}
    PROVE  WorstOf(S) \in S /\ \A x \in S : WorstOf(S) >= x
<1>1. S \in SUBSET (0..4)
  BY DEF Info, Critical
<1>2. \E m \in S : \A x \in S : m >= x
  <2>1. CASE 4 \in S
    BY <1>1, <2>1
  <2>2. CASE 4 \notin S /\ 3 \in S
    BY <1>1, <2>2
  <2>3. CASE 4 \notin S /\ 3 \notin S /\ 2 \in S
    BY <1>1, <2>3
  <2>4. CASE 4 \notin S /\ 3 \notin S /\ 2 \notin S /\ 1 \in S
    BY <1>1, <2>4
  <2>5. CASE 4 \notin S /\ 3 \notin S /\ 2 \notin S /\ 1 \notin S
    <3>1. \A x \in S : x = 0
      BY <1>1, <2>5
    <3>2. PICK y \in S : TRUE
      OBVIOUS
    <3>3. y \in S /\ \A x \in S : y >= x
      BY <3>1, <3>2
    <3> QED BY <3>3
  <2> QED BY <2>1, <2>2, <2>3, <2>4, <2>5
<1> QED BY <1>2 DEF WorstOf, Max

\* Whatever a scan finds, each finding that costs points is in a row of the control
\* table that is at least as severe as it is (Annotate, Coverage; TableShowsTheWorst).
\* Two kinds are in no row and not covered: SUP-034, a component whose version could
\* not be compared (10 points), and SUP-051, an unreadable hash index (4 points).
THEOREM WorstIsShown == Spec => []TableShowsTheWorst
<1>1. ReportInv => TableShowsTheWorst
  <2> SUFFICES ASSUME ReportInv, NEW f \in found, f.mark = "scored", f.sev > Info,
                      f.id \notin {"SUP-034", "SUP-051"}
               PROVE  \E r \in Risks : f.id \in Coverage(found)[r].ids /\ Coverage(found)[r].sev >= f.sev
    BY DEF TableShowsTheWorst
  <2>1. f.id \in Tabled /\ f.sev \in Info..Critical
    BY DEF ReportInv, Sound, Proper
  <2>2. PICK r \in Risks : r \in Mapped(f.id)
    BY <2>1 DEF Tabled, Mapped, Risks
  <2> DEFINE hits == {x \in found : x.sev # Info /\ r \in Controls(x)}
  <2>3. f \in hits
    BY <2>1, <2>2 DEF Controls, Info
  <2>4. {x.sev : x \in hits} \in SUBSET (Info..Critical) /\ f.sev \in {x.sev : x \in hits}
    BY <2>3 DEF ReportInv, Sound, Proper
  <2>5. Coverage(found)[r] = [ids |-> {x.id : x \in hits},
                              sev |-> IF hits = {} THEN Info ELSE WorstOf({x.sev : x \in hits})]
    BY DEF Coverage, Row
  <2>6. f.id \in {x.id : x \in hits} /\ hits # {}
    BY <2>3
  <2> HIDE DEF hits
  <2>7. Coverage(found)[r].sev = WorstOf({x.sev : x \in hits}) /\ f.id \in Coverage(found)[r].ids
    BY <2>5, <2>6
  <2> QED BY <2>4, <2>7, WorstIsWorst
<1> QED BY <1>1, InitReport, StepKeepsReport, PTL DEF Spec


-----------------------------------------------------------------------------
(* Every check says something, once its turn has come. *)

RulesTold ==
    \/ rules.indicators \/ rules.patterns \/ "RULE-001" \in Remarks
    \/ "rules" \in Remarks /\ ~rules.loads
SocketsTold == sockets = <<>> => "sockets" \in Remarks
FirewallTold ==
    {"FW-000", "FW-001", "FW-002"} \cap Results # {} \/ {"firewall", "FW-003"} \cap Remarks # {}
RouterTold == {"NAT-000", "NAT-001", "NAT-002"} \cap Results # {} \/ "router" \in Remarks
KeysTold ==
    /\ {"SEC-000", "SEC-001", "SEC-002"} \cap Results # {} \/ "secrets" \in Remarks
    /\ flags.history \/ {"SEC-003", "secrets"} \cap Remarks # {}
ListTold ==
    \/ {"SUP-030", "SUP-031", "SUP-032", "SUP-034"} \cap Results # {}
    \/ {"supply", "list", "RULE-001"} \cap Remarks # {}
    \/ rules.loads /\ ~rules.entries
BaselineTold ==
    \/ {"SUP-000", "SUP-002", "SUP-010", "SUP-011", "SUP-012", "SUP-013"} \cap Results # {}
    \/ {"supply", "baseline"} \cap Remarks # {}

ModelsTold == flags.noModels => "models" \in Remarks
SupplyTold == ListTold /\ BaselineTold /\ (flags.noSupply => "supply" \in Remarks)

Opening == {"listen", "identify", "exposure", "config", "firewall"}
Searching == {"secrets", "home", "roots", "keys"}

Told ==
    /\ pc = "rules" \/ RulesTold
    /\ pc \in {"rules", "listen"} \/ SocketsTold
    /\ pc \in {"rules"} \cup Opening \/ FirewallTold
    /\ pc \in {"rules", "router"} \cup Opening \/ RouterTold
    /\ pc \in {"rules", "router"} \cup Opening \cup Searching \/ KeysTold
    /\ pc \in {"rules", "router", "models"} \cup Opening \cup Searching \/ ModelsTold
    /\ pc \in {"rules", "router", "models", "supply"} \cup Opening \cup Searching \/ SupplyTold

\* Nothing that was said is taken back.
LEMMA FindingsStay ==
    Next => found \subseteq found' /\ notes \subseteq notes' /\ UNCHANGED flags
<1> SUFFICES ASSUME Next PROVE found \subseteq found' /\ notes \subseteq notes' /\ UNCHANGED flags
  OBVIOUS
<1>1. CASE LoadRules
  BY <1>1 DEF LoadRules, Add, Note, chosen
<1>2. CASE Listen \/ Identifying \/ Identified \/ Finish \/ Exited
  BY <1>2 DEF Listen, Identifying, Identified, Finish, Exited, Note, Quiet, vars, chosen
<1>3. CASE SkipSecrets \/ KnownFiles \/ Home \/ Roots \/ RootsDone
  BY <1>3 DEF SkipSecrets, KnownFiles, Home, Roots, RootsDone, Note, Quiet, Check, chosen
<1>4. CASE Exposure \/ Config \/ Firewall
  BY <1>4 DEF Exposure, Config, Firewall, Add, Note, Check, chosen
<1>5. CASE PortForwarding
  <2>1. PICK X : \/ found' = found \cup X /\ UNCHANGED notes
                 \/ \E n : Note(n)
    BY <1>5 DEF PortForwarding, Add
  <2> QED BY <1>5, <2>1 DEF PortForwarding, Note, Check, chosen
<1>6. CASE ReportKeys \/ ModelFormats \/ SupplyChainCheck
  BY <1>6 DEF ReportKeys, ModelFormats, SupplyChainCheck, Add, Note, Check, chosen
<1> QED BY <1>1, <1>2, <1>3, <1>4, <1>5, <1>6 DEF Next

\* What a check has said stays said.
LEMMA ToldStays ==
    ASSUME found \subseteq found', notes \subseteq notes', UNCHANGED <<flags, rules, sockets>>
    PROVE  /\ RulesTold => RulesTold'
           /\ SocketsTold => SocketsTold'
           /\ FirewallTold => FirewallTold'
           /\ RouterTold => RouterTold'
           /\ KeysTold => KeysTold'
           /\ ModelsTold => ModelsTold'
           /\ SupplyTold => SupplyTold'
<1>1. Results \subseteq Results' /\ Remarks \subseteq Remarks'
  BY DEF Results, Remarks
<1>2. RulesTold => RulesTold'
  BY <1>1 DEF RulesTold
<1>3. SocketsTold => SocketsTold'
  BY <1>1 DEF SocketsTold
<1>4. (FirewallTold => FirewallTold') /\ (RouterTold => RouterTold')
  BY <1>1 DEF FirewallTold, RouterTold
<1>5. KeysTold => KeysTold'
  BY <1>1 DEF KeysTold
<1>6. (ModelsTold => ModelsTold') /\ (SupplyTold => SupplyTold')
  <2>1. (ListTold => ListTold') /\ (BaselineTold => BaselineTold')
    BY <1>1 DEF ListTold, BaselineTold
  <2> QED BY <1>1, <2>1 DEF ModelsTold, SupplyTold
<1> QED BY <1>2, <1>3, <1>4, <1>5, <1>6

\* What the three ways to make a finding give it.
LEMMA FindingIsScored ==
    \A id, sev, x : Finding(id, sev, x).id = id /\ Finding(id, sev, x).mark = "scored"
                    /\ Finding(id, sev, x).sev = sev
                    /\ NotRun(id).id = id /\ NotRun(id).mark = "notrun"
                    /\ Advisory(id, sev).id = id /\ Advisory(id, sev).mark = "advisory"
BY DEF Finding, NotRun, Advisory

\* Loading the rules leaves rules, or a word that there are none.
LEMMA LoadRulesTells == LoadRules => RulesTold'
<1> SUFFICES ASSUME LoadRules PROVE RulesTold'
  OBVIOUS
<1>1. CASE "rules" \in notes' /\ rules' = NoRules
  <2>1. ~NoRules.loads
    BY RulesAssumption DEF Rules
  <2> QED BY <1>1, <2>1 DEF RulesTold, Remarks
<1>2. CASE \E r \in RuleFiles :
               /\ rules' = IF r.loads THEN r ELSE NoRules
               /\ Add((IF ~r.loads \/ NothingLoaded(r) THEN {Advisory("RULE-001", Medium)} ELSE {})
                      \cup (IF r.loads /\ r.behind THEN {Advisory("RULE-002", Low)} ELSE {}))
  <2>1. PICK r \in RuleFiles :
               /\ rules' = IF r.loads THEN r ELSE NoRules
               /\ Add((IF ~r.loads \/ NothingLoaded(r) THEN {Advisory("RULE-001", Medium)} ELSE {})
                      \cup (IF r.loads /\ r.behind THEN {Advisory("RULE-002", Low)} ELSE {}))
    BY <1>2
  <2>2. CASE ~r.loads \/ NothingLoaded(r)
    <3>1. Advisory("RULE-001", Medium) \in found'
      BY <2>1, <2>2 DEF Add
    <3>2. "RULE-001" \in Remarks'
      BY <3>1, FindingIsScored DEF Remarks
    <3> QED BY <3>2 DEF RulesTold
  <2>3. CASE r.loads /\ ~NothingLoaded(r)
    BY <2>1, <2>3 DEF RulesTold, NothingLoaded
  <2> QED BY <2>2, <2>3
<1> QED BY <1>1, <1>2 DEF LoadRules, Note

\* The firewall check has a result or says that it has none,
LEMMA FirewallTells == Firewall => FirewallTold'
<1> SUFFICES ASSUME Firewall PROVE FirewallTold'
  OBVIOUS
<1>1. PICK fw \in {"on", "off", "unknown"} :
          IF FirewallFindings(fw) = {} THEN Note("firewall") ELSE Add(FirewallFindings(fw))
  BY FirewallsAssumption DEF Firewall
<1>2. CASE FirewallFindings(fw) = {}
  BY <1>1, <1>2 DEF Note, FirewallTold, Remarks
<1>3. CASE FirewallFindings(fw) # {}
  <2>1. \/ NotRun("FW-003") \in found' \/ Finding("FW-000", Info, None) \in found'
        \/ Finding("FW-001", High, None) \in found' \/ Finding("FW-002", Low, None) \in found'
    <3>1. \/ NotRun("FW-003") \in FirewallFindings(fw) \/ Finding("FW-000", Info, None) \in FirewallFindings(fw)
          \/ Finding("FW-001", High, None) \in FirewallFindings(fw)
          \/ Finding("FW-002", Low, None) \in FirewallFindings(fw)
      BY <1>3 DEF FirewallFindings
    <3> QED BY <1>1, <1>3, <3>1 DEF Add
  <2>2. "FW-003" \in Remarks' \/ "FW-000" \in Results' \/ "FW-001" \in Results' \/ "FW-002" \in Results'
    BY <2>1, FindingIsScored DEF Remarks, Results
  <2> QED BY <2>2 DEF FirewallTold
<1> QED BY <1>2, <1>3

\* so does the router check,
LEMMA PortForwardingTells == PortForwarding => RouterTold'
<1> SUFFICES ASSUME PortForwarding PROVE RouterTold'
  OBVIOUS
<1>1. CASE "router" \in notes'
  BY <1>1 DEF RouterTold, Remarks
<1>2. CASE \E id \in {"NAT-000", "NAT-001", "NAT-002"} : \E sev, x : Finding(id, sev, x) \in found'
  <2>1. \E id \in {"NAT-000", "NAT-001", "NAT-002"} : id \in Results'
    BY <1>2, FindingIsScored DEF Results
  <2> QED BY <2>1 DEF RouterTold
<1>3. "router" \in notes' \/ \E id \in {"NAT-000", "NAT-001", "NAT-002"} : \E sev, x : Finding(id, sev, x) \in found'
  <2> DEFINE at(m) == {s \in services : sockets[s.at].port = m.port}
             hits == {m \in Forwards(router') : at(m) # {}}
  <2>1. \/ Note("router") \/ Add({Finding("NAT-000", Info, None)}) \/ Add({Finding("NAT-002", Low, None)})
        \/ hits # {} /\ Add({Finding("NAT-001", Critical, m) : m \in hits})
    BY DEF PortForwarding
  <2>2. CASE Note("router")
    BY <2>2 DEF Note
  <2>3. CASE Add({Finding("NAT-000", Info, None)}) \/ Add({Finding("NAT-002", Low, None)})
    BY <2>3 DEF Add
  <2>4. CASE hits # {} /\ Add({Finding("NAT-001", Critical, m) : m \in hits})
    <3>1. PICK m : m \in hits
      BY <2>4
    <3>2. Finding("NAT-001", Critical, m) \in found'
      BY <2>4, <3>1 DEF Add
    <3> QED BY <3>2
  <2> QED BY <2>1, <2>2, <2>3, <2>4
<1> QED BY <1>1, <1>2, <1>3

\* so does the credential search,
LEMMA KeySearchTells == SkipSecrets \/ ReportKeys => KeysTold'
<1>1. ASSUME SkipSecrets \/ (ReportKeys /\ ~rules.patterns) PROVE KeysTold'
  <2>1. "secrets" \in notes'
    BY <1>1 DEF SkipSecrets, ReportKeys, Note
  <2> QED BY <2>1 DEF KeysTold, Remarks
<1>2. ASSUME ReportKeys, rules.patterns PROVE KeysTold'
  <2>1. \/ \E x : Finding("SEC-001", High, x) \in found'
        \/ \E x : Finding("SEC-002", Medium, x) \in found'
        \/ \E x : Finding("SEC-000", Info, x) \in found'
    BY <1>2 DEF ReportKeys
  <2>2. {"SEC-000", "SEC-001", "SEC-002"} \cap Results' # {}
    BY <2>1, FindingIsScored DEF Results
  <2>3. flags' = flags /\ (~flags.history => NotRun("SEC-003") \in found')
    BY <1>2 DEF ReportKeys, Check, chosen
  <2>4. flags'.history \/ "SEC-003" \in Remarks'
    BY <2>3, FindingIsScored DEF Remarks
  <2> QED BY <2>2, <2>4 DEF KeysTold
<1> QED BY <1>1, <1>2

\* and so does the supply chain check, of the list and of the baseline.
LEMMA SupplyTells == SupplyChainCheck => SupplyTold'
<1> SUFFICES ASSUME SupplyChainCheck PROVE SupplyTold'
  OBVIOUS
<1>0. flags'.noSupply => "supply" \in notes'
  BY DEF SupplyChainCheck, Check, chosen, Note
<1>1. CASE "supply" \in notes'
  BY <1>1 DEF SupplyTold, ListTold, BaselineTold, Remarks
<1>2. CASE ~("supply" \in notes')
  <2>1. PICK s \in Supplies : s = supply'
    BY <1>2 DEF SupplyChainCheck, Note
  <2> DEFINE hits == IF rules.entries THEN s.hits ELSE {}
  <2>2. /\ rules.loads => ListFindings(hits) \subseteq found'
        /\ ~rules.loads => "list" \in notes'
        /\ s.baseline = "none" => Finding("SUP-000", Info, None) \in found'
        /\ s.baseline = "there" => ChangeFindings(s.changes) \subseteq found'
        /\ s.baseline = "broken" => "baseline" \in notes'
    BY <1>2, <2>1 DEF SupplyChainCheck, Note
  <2>3. ListTold'
    <3>1. CASE ~rules.loads \/ ~rules.entries
      BY <2>2, <3>1 DEF ListTold, Remarks, SupplyChainCheck, Check
    <3>2. CASE rules.loads /\ rules.entries
      <4>1. \E id \in {"SUP-030", "SUP-031", "SUP-032", "SUP-034"} : \E sev, x :
                Finding(id, sev, x) \in ListFindings(hits)
        <5>1. CASE rules.stale
          BY <3>2, <5>1 DEF ListFindings
        <5>2. CASE ~rules.stale /\ hits = {}
          BY <3>2, <5>2 DEF ListFindings
        <5>3. CASE hits # {}
          <6>1. PICK h : h \in hits
            BY <5>3
          <6>2. Finding("SUP-034", Medium, h.id) \in ListFindings(hits)
                \/ Finding("SUP-030", h.sev, h.id) \in ListFindings(hits)
            BY <6>1 DEF ListFindings
          <6> QED BY <6>2
        <5> QED BY <5>1, <5>2, <5>3
      <4>2. \E id \in {"SUP-030", "SUP-031", "SUP-032", "SUP-034"} : id \in Results'
        BY <2>2, <3>2, <4>1, FindingIsScored DEF Results
      <4> QED BY <4>2 DEF ListTold
    <3> QED BY <3>1, <3>2
  <2>4. BaselineTold'
    <3>1. CASE s.baseline = "none"
      <4>1. "SUP-000" \in Results'
        BY <2>2, <3>1, FindingIsScored DEF Results
      <4> QED BY <4>1 DEF BaselineTold
    <3>2. CASE s.baseline = "broken"
      BY <2>2, <3>2 DEF BaselineTold, Remarks
    <3>3. CASE s.baseline = "there"
      <4>1. \E id \in {"SUP-002", "SUP-010", "SUP-011", "SUP-012", "SUP-013"} : \E sev, x :
                Finding(id, sev, x) \in ChangeFindings(s.changes)
        <5>1. CASE s.changes = {}
          BY <5>1 DEF ChangeFindings
        <5>2. CASE s.changes # {}
          <6>1. PICK c \in s.changes : TRUE
            BY <5>2
          <6>2. c.type \in {"dangerous", "modified", "added", "removed"}
            BY SuppliesAssumption
          <6>3. CASE c.type = "dangerous"
            BY <6>3 DEF ChangeFindings
          <6>4. CASE c.type = "modified"
            BY <6>4 DEF ChangeFindings
          <6>5. CASE c.type = "added"
            BY <6>5 DEF ChangeFindings
          <6>6. CASE c.type = "removed"
            BY <6>6 DEF ChangeFindings
          <6> QED BY <6>2, <6>3, <6>4, <6>5, <6>6
        <5> QED BY <5>1, <5>2
      <4>2. \E id \in {"SUP-002", "SUP-010", "SUP-011", "SUP-012", "SUP-013"} : id \in Results'
        BY <2>2, <3>3, <4>1, FindingIsScored DEF Results
      <4> QED BY <4>2 DEF BaselineTold
    <3> QED BY <3>1, <3>2, <3>3, SuppliesAssumption
  <2> QED BY <1>0, <1>2, <2>3, <2>4 DEF SupplyTold
<1> QED BY <1>1, <1>2

\* The check of the model files has a note when it is turned off.
LEMMA ModelFormatsTells == ModelFormats => ModelsTold'
BY DEF ModelFormats, Check, chosen, Note, ModelsTold, Remarks

\* Every step keeps what the checks owe.
LEMMA StepKeepsTold == Told /\ [Next]_vars => Told'
<1> SUFFICES ASSUME Told, [Next]_vars PROVE Told'
  OBVIOUS
<1> USE DEF Opening, Searching
<1>1. CASE UNCHANGED vars
  <2>1. UNCHANGED <<pc, found, notes, flags, rules, sockets>>
    BY <1>1 DEF vars, chosen
  <2> QED BY <2>1, ToldStays DEF Told
<1>2. CASE Next
  <2>1. found \subseteq found' /\ notes \subseteq notes' /\ UNCHANGED flags
    BY <1>2, FindingsStay
  <2>2. CASE LoadRules
    <3>1. pc' = "listen" /\ RulesTold'
      BY <2>2, LoadRulesTells DEF LoadRules, To
    <3> QED BY <3>1 DEF Told
  <2>3. CASE Listen
    <3>1. pc = "listen" /\ pc' = "identify" /\ UNCHANGED rules /\ SocketsTold'
      BY <2>3 DEF Listen, To, SocketsTold, Note, Remarks
    <3>2. RulesTold'
      <4>1. Remarks \subseteq Remarks'
        BY <2>1 DEF Remarks
      <4> QED BY <3>1, <4>1 DEF Told, RulesTold
    <3> QED BY <3>1, <3>2 DEF Told
  <2>4. CASE Identifying \/ Identified \/ Exposure \/ Config
    <3>1. /\ UNCHANGED <<rules, sockets>> /\ pc \in Opening \ {"listen", "firewall"}
          /\ pc' \in Opening \ {"listen"}
      BY <2>4 DEF Identifying, Identified, Exposure, Config, To, Check, IdentifyNext, Spawn,
         Acquire, Fingerprint, AskAPI, Deposit
    <3> QED BY <2>1, <3>1, ToldStays DEF Told
  <2>5. CASE Firewall
    <3>1. UNCHANGED <<rules, sockets>> /\ pc = "firewall" /\ pc' = "router" /\ FirewallTold'
      BY <2>5, FirewallTells DEF Firewall, Check, To
    <3> QED BY <2>1, <3>1, ToldStays DEF Told
  <2>6. CASE PortForwarding
    <3>1. UNCHANGED <<rules, sockets>> /\ pc = "router" /\ pc' = "secrets" /\ RouterTold'
      BY <2>6, PortForwardingTells DEF PortForwarding, Check, To
    <3> QED BY <2>1, <3>1, ToldStays DEF Told
  <2>7. CASE KnownFiles \/ Home \/ Roots \/ RootsDone
    <3>1. UNCHANGED <<rules, sockets>> /\ pc \in Searching /\ pc' \in Searching
      BY <2>7 DEF KnownFiles, Home, Roots, RootsDone, Check, To
    <3> QED BY <2>1, <3>1, ToldStays DEF Told
  <2>8. CASE SkipSecrets \/ ReportKeys
    <3>1. UNCHANGED <<rules, sockets>> /\ pc \in Searching /\ pc' = "models" /\ KeysTold'
      BY <2>8, KeySearchTells DEF SkipSecrets, ReportKeys, Check, To
    <3> QED BY <2>1, <3>1, ToldStays DEF Told
  <2>9. CASE ModelFormats
    <3>1. UNCHANGED <<rules, sockets>> /\ pc = "models" /\ pc' = "supply" /\ ModelsTold'
      BY <2>9, ModelFormatsTells DEF ModelFormats, Check, To
    <3> QED BY <2>1, <3>1, ToldStays DEF Told
  <2>10. CASE SupplyChainCheck
    <3>1. UNCHANGED <<rules, sockets>> /\ pc = "supply" /\ pc' = "finish" /\ SupplyTold'
      BY <2>10, SupplyTells DEF SupplyChainCheck, Check, To
    <3> QED BY <2>1, <3>1, ToldStays DEF Told
  <2>11. CASE Finish \/ Exited
    <3>1. UNCHANGED <<rules, sockets>> /\ pc \in {"finish", "done"} /\ pc' = "done"
      BY <2>11 DEF Finish, Exited, To, vars
    <3> QED BY <2>1, <3>1, ToldStays DEF Told
  <2> QED BY <1>2, <2>2, <2>3, <2>4, <2>5, <2>6, <2>7, <2>8, <2>9, <2>10, <2>11 DEF Next
<1> QED BY <1>1, <1>2

\* Whatever combination of flags, rules, host and failures, a scan that ends has a
\* result or a remark of the firewall, the router, the search for keys, the known-bad
\* list and the baseline, and a remark of missing rules or listeners and of what a
\* flag turned off (NoSilentGap). It does not say so of the four checks that the code
\* leaves silent: models and launch scripts without a home folder, code inspected
\* with rules that have no indicators, and an empty list beside rules of either kind.
THEOREM NoCheckIsSilent == Spec => []NoSilentGap
<1>1. Init => Told
  BY DEF Init, Told, Opening, Searching
<1>2. Told => NoSilentGap
  <2> SUFFICES ASSUME Told, pc = "done" PROVE NoSilentGap
    BY DEF NoSilentGap
  <2>1. RulesTold /\ SocketsTold /\ FirewallTold /\ RouterTold /\ KeysTold /\ ModelsTold /\ SupplyTold
    BY DEF Told, Opening, Searching
  <2>2. \/ {"SUP-030", "SUP-031", "SUP-032", "SUP-034"} \cap Results # {}
        \/ {"supply", "list", "RULE-001"} \cap Remarks # {}
        \/ ~rules.entries /\ (rules.indicators \/ rules.patterns)
    BY <2>1 DEF SupplyTold, ListTold, RulesTold
  <2>3. rules.indicators \/ rules.patterns \/ {"rules", "RULE-001"} \cap Remarks # {}
    BY <2>1 DEF RulesTold
  <2> QED BY <2>1, <2>2, <2>3 DEF NoSilentGap, SocketsTold, FirewallTold, RouterTold, KeysTold,
                                  ModelsTold, SupplyTold, BaselineTold
<1> QED BY <1>1, <1>2, StepKeepsTold, PTL DEF Spec


-----------------------------------------------------------------------------
(* The points a report loses: the sum that MapThenSumSet takes, one finding
   at a time, is a number, and no less than what any one finding costs. *)

Points(f) == IF f.mark = "advisory" THEN 0 ELSE Penalty(f.sev)
Pick(s) == CHOOSE x \in s : TRUE

\* What the sum over s is made of, given the sums over smaller sets.
Step(g, s) == IF s = {} THEN 0 ELSE Points(Pick(s)) + g[s \ {Pick(s)}]
Sums(fs) == CHOOSE g : g = [s \in SUBSET fs |-> Step(g, s)]

\* The points lost are the sum over the findings.
LEMMA LostIsSum == ASSUME NEW fs PROVE Lost(fs) = Sums(fs)[fs]
BY DEF Lost, MapThenSumSet, MapThenFoldSet, Sums, Step, Points, Pick

\* To take an element leaves one less.
LEMMA PickTakesOne ==
    ASSUME NEW s, IsFiniteSet(s), s # {}
    PROVE  /\ Pick(s) \in s /\ IsFiniteSet(s \ {Pick(s)})
           /\ Cardinality(s) \in Nat \ {0} /\ Cardinality(s \ {Pick(s)}) = Cardinality(s) - 1
<1>1. Pick(s) \in s
  BY DEF Pick
<1>2. Cardinality(s) \in Nat /\ Cardinality(s) # 0
  BY FS_CardinalityType, FS_EmptySet
<1> QED BY <1>1, <1>2, FS_RemoveElement

\* The sums exist: up to any size of set, and so for all.
LEMMA SumsExist ==
    ASSUME NEW fs, IsFiniteSet(fs), \A f \in fs : Points(f) \in Nat
    PROVE  \E g : g = [s \in SUBSET fs |-> Step(g, s)]
<1> DEFINE UpTo(g, n) == \A s \in SUBSET fs : Cardinality(s) <= n => g[s] = Step(g, s)
           T == {n \in Nat : ~ \E g \in [SUBSET fs -> Nat] : UpTo(g, n)}
<1>1. \A s \in SUBSET fs : IsFiniteSet(s) /\ Cardinality(s) \in Nat /\ Cardinality(s) <= Cardinality(fs)
  BY FS_Subset, FS_CardinalityType
<1>2. T = {}
  <2> SUFFICES ASSUME T # {} PROVE FALSE
    OBVIOUS
  <2>1. PICK n \in T : \A m \in T : n <= m
    <3>1. T \in SUBSET Nat
      OBVIOUS
    <3> HIDE DEF T
    <3> QED BY <3>1, Least
  <2>2. CASE n = 0
    <3> DEFINE g == [s \in SUBSET fs |-> 0]
    <3>1. \A s \in SUBSET fs : Cardinality(s) <= 0 => s = {}
      BY <1>1, FS_EmptySet
    <3>2. g \in [SUBSET fs -> Nat] /\ UpTo(g, 0)
      BY <3>1 DEF Step
    <3> QED BY <2>1, <2>2, <3>2
  <2>3. CASE n # 0
    <3>1. n \in Nat /\ n - 1 \in Nat
      BY <2>3
    <3>2. n - 1 \notin T
      <4> HIDE DEF T
      <4> QED BY <2>1, <3>1
    <3>3. PICK h \in [SUBSET fs -> Nat] : UpTo(h, n - 1)
      BY <3>1, <3>2
    <3> DEFINE g == [s \in SUBSET fs |-> Step(h, s)]
    <3>4. ASSUME NEW s \in SUBSET fs, s # {}
          PROVE  /\ s \ {Pick(s)} \in SUBSET fs /\ Points(Pick(s)) \in Nat
                 /\ Cardinality(s \ {Pick(s)}) = Cardinality(s) - 1
      BY <1>1, <3>4, PickTakesOne
    <3>5. g \in [SUBSET fs -> Nat]
      <4>1. \A s \in SUBSET fs : Step(h, s) \in Nat
        BY <3>3, <3>4 DEF Step
      <4> QED BY <4>1
    <3>6. ASSUME NEW s \in SUBSET fs, Cardinality(s) <= n PROVE g[s] = Step(g, s)
      <4>1. CASE s = {}
        BY <4>1 DEF Step
      <4>2. CASE s # {}
        <5> DEFINE r == s \ {Pick(s)}
        <5>1. r \in SUBSET fs /\ Cardinality(r) <= n - 1
          BY <1>1, <3>4, <3>6, <4>2
        <5>2. h[r] = Step(h, r)
          BY <3>3, <5>1
        <5>3. g[r] = h[r]
          BY <5>1, <5>2
        <5> QED BY <4>2, <5>3 DEF Step
      <4> QED BY <4>1, <4>2
    <3>7. UpTo(g, n)
      BY <3>6
    <3> QED BY <2>1, <3>5, <3>7
  <2> QED BY <2>2, <2>3
<1>3. Cardinality(fs) \in Nat
  BY FS_CardinalityType
<1>4. PICK g \in [SUBSET fs -> Nat] : UpTo(g, Cardinality(fs))
  BY <1>2, <1>3
<1>5. \A s \in SUBSET fs : g[s] = Step(g, s)
  BY <1>1, <1>4
<1>6. g = [s \in SUBSET fs |-> Step(g, s)]
  BY <1>5
<1> QED BY <1>6

\* The sum over a set, from that over the set without one of its members.
LEMMA LostIsEnough ==
    ASSUME NEW fs, IsFiniteSet(fs), \A f \in fs : Points(f) \in Nat
    PROVE  Lost(fs) \in Nat /\ \A f \in fs : Points(f) <= Lost(fs)
<1> DEFINE g == Sums(fs)
           Fine(s) == g[s] \in Nat /\ \A f \in s : Points(f) <= g[s]
           T == {n \in Nat : \E s \in SUBSET fs : Cardinality(s) = n /\ ~Fine(s)}
<1>1. \A s \in SUBSET fs : IsFiniteSet(s) /\ Cardinality(s) \in Nat
  BY FS_Subset, FS_CardinalityType
<1>2. \A s \in SUBSET fs : g[s] = Step(g, s)
  <2>1. g = [s \in SUBSET fs |-> Step(g, s)]
    BY SumsExist DEF Sums
  <2> HIDE DEF g
  <2> QED BY <2>1
<1>3. T = {}
  <2> SUFFICES ASSUME T # {} PROVE FALSE
    OBVIOUS
  <2>1. PICK n \in T : \A m \in T : n <= m
    <3>1. T \in SUBSET Nat
      OBVIOUS
    <3> HIDE DEF T
    <3> QED BY <3>1, Least
  <2>2. PICK s \in SUBSET fs : Cardinality(s) = n /\ ~Fine(s)
    BY <2>1
  <2>3. CASE s = {}
    <3>1. g[s] = 0
      BY <1>2, <2>3 DEF Step
    <3> HIDE DEF g
    <3> QED BY <2>2, <2>3, <3>1
  <2>4. CASE s # {}
    <3> DEFINE r == s \ {Pick(s)}
    <3>1. /\ Pick(s) \in s /\ r \in SUBSET fs /\ Points(Pick(s)) \in Nat
          /\ Cardinality(r) = n - 1 /\ n - 1 \in Nat
      BY <1>1, <2>2, <2>4, PickTakesOne
    <3>2. n - 1 \notin T
      BY <2>1, <3>1
    <3>3. Fine(r)
      BY <3>1, <3>2
    <3>4. g[s] = Points(Pick(s)) + g[r]
      BY <1>2, <2>4 DEF Step
    <3> HIDE DEF g
    <3>5. g[s] \in Nat
      BY <3>1, <3>3, <3>4
    <3>6. ASSUME NEW f \in s PROVE Points(f) <= g[s]
      <4>1. CASE f = Pick(s)
        BY <3>1, <3>3, <3>4, <4>1
      <4>2. CASE f \in r
        <5>1. Points(f) \in Nat /\ Points(f) <= g[r] /\ g[r] \in Nat
          BY <3>3, <4>2
        <5> QED BY <3>1, <3>4, <5>1
      <4> QED BY <3>6, <4>1, <4>2
    <3> QED BY <2>2, <3>5, <3>6
  <2> QED BY <2>3, <2>4
<1>4. Fine(fs)
  <2>1. Cardinality(fs) \in Nat
    BY FS_CardinalityType
  <2> QED BY <1>3, <2>1
<1> HIDE DEF g
<1>5. Lost(fs) = g[fs]
  BY LostIsSum DEF g
<1> QED BY <1>4, <1>5

\* A finding costs a number of points: a critical one 35, and from medium on at least 10.
LEMMA PointsAreNumbers ==
    ASSUME NEW f, f.sev \in Info..Critical
    PROVE  /\ Points(f) \in Nat
           /\ f.mark # "advisory" /\ f.sev >= Medium => Points(f) >= 10
           /\ (f.mark # "advisory" /\ f.sev = Critical => Points(f) = 35)
<1>1. f.sev \in 0..4
  BY DEF Info, Critical
<1>2. /\ Penalty(f.sev) \in Nat
      /\ f.sev >= 2 => Penalty(f.sev) >= 10
      /\ f.sev = 4 => Penalty(f.sev) = 35
  BY <1>1 DEF Penalty
<1> QED BY <1>2 DEF Points, Medium, Critical

\* A report with a critical finding has a grade of C or worse, and one with a medium
\* finding has a score of 90 or less.
LEMMA CriticalCosts ==
    ASSUME Sound(found)
    PROVE  /\ Score(found) \in 0..100 /\ Grade(found) \in {"A", "B", "C", "D", "F"}
           /\ \A f \in found : f.mark # "advisory" /\ f.sev = Critical => Grade(found) \notin {"A", "B"}
           /\ \A f \in found : f.mark # "advisory" /\ f.sev >= Medium => Score(found) <= 90
<1>1. IsFiniteSet(found) /\ \A f \in found : Points(f) \in Nat
  BY PointsAreNumbers DEF Sound, Proper
<1>2. Lost(found) \in Nat /\ \A f \in found : Points(f) <= Lost(found)
  BY <1>1, LostIsEnough
<1>3. Score(found) \in 0..100
  BY <1>2 DEF Score
<1>4. Grade(found) \in {"A", "B", "C", "D", "F"} /\ (Score(found) < 75 => Grade(found) \notin {"A", "B"})
  BY <1>3 DEF Grade
<1>5. ASSUME NEW f \in found, f.mark # "advisory", f.sev = Critical PROVE Score(found) < 75
  <2>1. Points(f) = 35
    BY <1>5, PointsAreNumbers DEF Sound, Proper
  <2> QED BY <1>2, <2>1 DEF Score
<1>6. ASSUME NEW f \in found, f.mark # "advisory", f.sev >= Medium PROVE Score(found) <= 90
  <2>1. Points(f) \in Nat /\ Points(f) >= 10
    BY <1>6, PointsAreNumbers DEF Sound, Proper
  <2> QED BY <1>2, <2>1 DEF Score
<1> QED BY <1>3, <1>4, <1>5, <1>6

-----------------------------------------------------------------------------
(* A service that is open to the network, or that the internet is forwarded
   to, leaves a critical finding in the report, and one at a LAN address a
   medium one. *)

Grave(f) == f \in found /\ f.mark = "scored" /\ f.sev = Critical

BeforeRouter == {"rules", "router"} \cup Opening

Weighed ==
    /\ flags \in Flag
    /\ pc \notin {"rules", "listen", "identify"} => Joined
    /\ pc \notin {"rules", "listen", "identify", "exposure"} =>
           \A s \in services : ExposureOf(s) \in found
    /\ IF pc \in BeforeRouter THEN router = <<>>
       ELSE \A s \in services : Forwarded(s) => \E f : Grave(f)
    /\ exit = 0 => pc = "done" /\ \A f \in found : ~(f.sev >= flags.failOn)

\* A listener that is open to all is listed as open when it is looked at alone.
LEMMA OpenIsListed ==
    ASSUME Shown, NEW i \in Listeners, OpenToAll(sockets[i])
    PROVE  ~Slow(i) /\ \E s \in Alone(i) : s.exposure = "any" /\ s.noAuth
<1>1. /\ sockets[i] \in Socket /\ Hint(i) \in Sigs \cup {None}
      /\ Claims(i) \in Seq(Sigs) /\ Own(i) \in Seq(Sigs)
  BY OwnIsTyped
<1>2. PICK g \in ToSet(Claims(i)) \cup {sockets[i].hint} :
          sockets[i].looks = {g} /\ g \in sockets[i].opens
  BY DEF OpenToAll, Claims
<1>3. /\ Behind(sockets[i]) = {sockets[i]} /\ sockets[i].addr = "any" /\ ~sockets[i].slow
  BY DEF OpenToAll
<1>4. Looks(i) = {g} /\ g \in Opens(i) /\ ~Slow(i)
  BY <1>2, <1>3 DEF Looks, Opens, Slow
<1>5. g \in Sigs /\ g # None
  BY <1>1, <1>2, NoneAssumption DEF Socket
<1>6. \E k \in DOMAIN Own(i) : Own(i)[k] = g
  <2>1. CASE g \in ToSet(Claims(i))
    <3>1. PICK k \in DOMAIN Claims(i) : Claims(i)[k] = g
      BY <2>1 DEF ToSet
    <3>2. CASE Hint(i) = None
      BY <3>1, <3>2 DEF Own
    <3>3. CASE Hint(i) # None
      <4>1. k \in DOMAIN Append(Claims(i), Hint(i)) /\ Append(Claims(i), Hint(i))[k] = g
        BY <1>1, <3>1
      <4> QED BY <3>3, <4>1 DEF Own
    <3> QED BY <3>2, <3>3
  <2>2. CASE g = sockets[i].hint
    <3>1. Own(i) = Append(Claims(i), g)
      BY <1>5, <2>2 DEF Own, Hint
    <3>2. Len(Claims(i)) + 1 \in DOMAIN Append(Claims(i), g)
          /\ Append(Claims(i), g)[Len(Claims(i)) + 1] = g
      BY <1>1
    <3> QED BY <3>1, <3>2
  <2> QED BY <1>2, <2>1, <2>2
<1> DEFINE k == FirstIn(Own(i), Looks(i))
           fit == {x \in DOMAIN Own(i) : Own(i)[x] \in Looks(i)}
<1>7. k # 0 /\ Own(i)[k] = g
  <2>1. fit # {} /\ fit \in SUBSET (Nat \ {0})
    BY <1>1, <1>4, <1>6
  <2>2. k = Min(fit)
    BY <2>1 DEF FirstIn
  <2>3. Min(fit) \in fit
    BY <2>1, MinIsMember
  <2> QED BY <1>4, <2>1, <2>2, <2>3
<1>8. Alone(i) = {[name |-> Own(i)[k], at |-> i, confirmed |-> TRUE,
                   exposure |-> sockets[i].addr, noAuth |-> Own(i)[k] \in Opens(i)]}
  BY <1>7 DEF Alone, Own
<1>9. PICK s \in Alone(i) : s = [name |-> Own(i)[k], at |-> i, confirmed |-> TRUE,
                                exposure |-> sockets[i].addr, noAuth |-> Own(i)[k] \in Opens(i)]
  BY <1>8
<1> HIDE DEF k
<1>10. s.exposure = "any" /\ s.noAuth
  BY <1>3, <1>4, <1>7, <1>9
<1> QED BY <1>4, <1>10

\* An open service on the network is a critical finding.
LEMMA OpenIsGrave ==
    ASSUME NEW s \in services, s.exposure = "any", s.noAuth, ExposureOf(s) \in found
    PROVE  Grave(ExposureOf(s))
BY DEF ExposureOf, Finding, Grave

\* A critical finding is not taken back.
LEMMA GraveStays == ASSUME found \subseteq found', NEW f, Grave(f) PROVE Grave(f)'
BY DEF Grave

\* A service at a LAN address is a finding of medium severity or worse.
LEMMA LANIsTold ==
    ASSUME NEW s \in services, s.exposure = "lan"
    PROVE  ExposureOf(s).mark = "scored" /\ ExposureOf(s).sev \in {Medium, High}
BY DEF ExposureOf, Finding

\* A service that the router forwards to is a critical finding.
LEMMA ForwardingIsGrave ==
    ASSUME PortForwarding, UNCHANGED <<machine, sockets, services>>, router = <<>>,
           NEW s \in services, Forwarded(s)'
    PROVE  \E f : Grave(f)'
<1>1. ~flags.noUPnP /\ router' \in Routers
  <2>1. Gateways(<<>>) = {}
    BY DEF Gateways
  <2>2. Gateways(router') # {}
    BY DEF Forwarded
  <2> QED BY <2>1, <2>2 DEF PortForwarding
<1> DEFINE at(m) == {x \in services : sockets[x.at].port = m.port}
           hits == {m \in Forwards(router') : at(m) # {}}
<1>2. Gateways(router') # {}
  BY DEF Forwarded
<1>3. PICK m : m \in hits
  <2>1. PICK r \in Routers : r = router'
    BY <1>1
  <2>2. PICK n \in DOMAIN FirstTable(r) :
            /\ n <= MaxMappings /\ FirstTable(r)[n].port = sockets[s.at].port
            /\ \A m \in 1..n : FirstTable(r)[m].kind = "mapping"
    BY <2>1 DEF Forwarded, FirstTable
  <2>3. FirstTable(r)[n] \in Forwards(r)
    BY <1>2, <2>1, <2>2, MappingIsRead
  <2>4. s \in at(FirstTable(r)[n])
    BY <2>2
  <2> QED BY <2>1, <2>3, <2>4
<1>4. Forwards(router') # {} /\ hits # {}
  BY <1>3
<1>5. Add({Finding("NAT-001", Critical, x) : x \in hits})
  BY <1>1, <1>2, <1>4 DEF PortForwarding
<1>6. Finding("NAT-001", Critical, m) \in found'
  BY <1>3, <1>5 DEF Add
<1> QED BY <1>6, FindingIsScored DEF Grave

\* Once the services are known they stay as they are.
LEMMA ServicesStay ==
    ASSUME Fresh, Next, pc \notin {"rules", "listen", "identify"}
    PROVE  UNCHANGED <<machine, sockets, identifying>> /\ UNCHANGED <<services, Joined>>
<1>1. UNCHANGED <<machine, sockets, identifying>>
  BY StartOfScan
<1>2. UNCHANGED Joined
  BY <1>1, SocketsDecide DEF identifying, Joined
<1> QED BY <1>1, <1>2 DEF identifying

\* Every step keeps the grave findings of what is open.
LEMMA StepKeepsWeighed == ReportInv /\ Weighed /\ [Next]_vars => Weighed'
<1> SUFFICES ASSUME Fresh, Weighed, [Next]_vars PROVE Weighed'
  BY DEF ReportInv
<1> USE DEF Opening, BeforeRouter
<1>1. CASE UNCHANGED vars
  <2>1. UNCHANGED <<pc, found, router, exit, flags, sockets, services>> /\ UNCHANGED Joined
    BY <1>1, SocketsDecide DEF vars, chosen, identifying, Joined
  <2>2. \A s : UNCHANGED <<ExposureOf(s), Forwarded(s), Grave(s)>>
    BY <2>1 DEF ExposureOf, Forwarded, Grave
  <2> QED BY <2>1, <2>2 DEF Weighed
<1>2. CASE Next
  <2>1. found \subseteq found' /\ UNCHANGED flags
    BY <1>2, FindingsStay
  <2>2. flags' \in Flag
    BY <2>1 DEF Weighed
  <2>3. \A s : UNCHANGED ExposureOf(s)
    BY DEF ExposureOf
  <2>4. CASE LoadRules \/ Listen \/ Identifying
    <3>1. UNCHANGED <<router, exit>> /\ pc # "done" /\ pc' \in {"listen", "identify"}
          /\ pc \in {"rules", "listen", "identify"}
      BY <2>4 DEF LoadRules, Listen, Identifying, To
    <3> QED BY <2>2, <3>1 DEF Weighed
  <2>5. CASE Identified
    <3>1. UNCHANGED <<router, exit, machine, sockets, identifying>>
          /\ pc = "identify" /\ pc' = "exposure" /\ Joined
      BY <2>5 DEF Identified, To
    <3>2. Joined'
      BY <3>1, SocketsDecide DEF identifying, Joined
    <3> QED BY <2>2, <3>1, <3>2 DEF Weighed
  <2>6. CASE \/ Exposure \/ Config \/ Firewall
             \/ SkipSecrets \/ KnownFiles \/ Home \/ Roots \/ RootsDone \/ ReportKeys
             \/ ModelFormats \/ SupplyChainCheck
    <3>1. /\ UNCHANGED <<router, exit>>
          /\ pc \notin {"rules", "listen", "identify"}
          /\ pc' \notin {"rules", "listen", "identify", "exposure"}
          /\ pc \in BeforeRouter <=> pc' \in BeforeRouter
          /\ pc # "done" /\ pc' # "done"
          /\ pc = "exposure" => Exposure
      <4>1. CASE Exposure \/ Config \/ Firewall
        BY <4>1 DEF Exposure, Config, Firewall, Check, To
      <4>2. CASE SkipSecrets \/ KnownFiles \/ Home \/ Roots \/ RootsDone \/ ReportKeys
        BY <4>2 DEF SkipSecrets, KnownFiles, Home, Roots, RootsDone, ReportKeys, Check, To
      <4>3. CASE ModelFormats \/ SupplyChainCheck
        BY <4>3 DEF ModelFormats, SupplyChainCheck, Check, To
      <4> QED BY <2>6, <4>1, <4>2, <4>3
    <3>0. UNCHANGED <<machine, sockets, services>> /\ UNCHANGED Joined
      BY <1>2, <3>1, ServicesStay
    <3>2. \A s \in services : ExposureOf(s) \in found'
      <4>1. CASE pc = "exposure"
        BY <3>1, <4>1 DEF Exposure, Add
      <4>2. CASE pc # "exposure"
        BY <2>1, <3>1, <4>2 DEF Weighed
      <4> QED BY <4>1, <4>2
    <3>3. \A s : UNCHANGED Forwarded(s)
      BY <3>0, <3>1 DEF Forwarded
    <3>4. (\E f : Grave(f)) => \E f : Grave(f)'
      BY <2>1, GraveStays
    <3>5. Joined' /\ exit' # 0
      BY <3>0, <3>1 DEF Weighed
    <3>6. CASE pc \in BeforeRouter
      BY <2>2, <2>3, <3>0, <3>1, <3>2, <3>5, <3>6 DEF Weighed
    <3>7. CASE pc \notin BeforeRouter
      BY <2>2, <2>3, <3>0, <3>1, <3>2, <3>3, <3>4, <3>5, <3>7 DEF Weighed
    <3> QED BY <3>6, <3>7
  <2>7. CASE PortForwarding
    <3>1. pc = "router" /\ pc' = "secrets" /\ UNCHANGED exit
      BY <2>7 DEF PortForwarding, Check, To
    <3>2. UNCHANGED <<machine, sockets, services>> /\ UNCHANGED Joined
      BY <1>2, <3>1, ServicesStay
    <3>3. Joined /\ exit # 0 /\ router = <<>> /\ \A s \in services : ExposureOf(s) \in found
      BY <3>1 DEF Weighed
    <3>4. \A s \in services : Forwarded(s)' => \E f : Grave(f)'
      BY <2>7, <3>2, <3>3, ForwardingIsGrave
    <3> QED BY <2>1, <2>2, <2>3, <3>1, <3>2, <3>3, <3>4 DEF Weighed
  <2>8. CASE Finish \/ Exited
    <3>1. /\ pc \in {"finish", "done"} /\ pc' = "done" /\ UNCHANGED <<found, router>>
          /\ exit' = 0 => \/ exit = 0 /\ pc = "done"
                          \/ ~ \E f \in found : f.sev >= flags.failOn
      BY <2>8 DEF Finish, Exited, To, vars, Note, Quiet
    <3>2. UNCHANGED <<machine, sockets, services>> /\ UNCHANGED Joined
      BY <1>2, <3>1, ServicesStay
    <3>3. \A s : UNCHANGED <<Forwarded(s), Grave(s)>>
      BY <3>1, <3>2 DEF Forwarded, Grave
    <3> QED BY <2>1, <2>2, <2>3, <3>1, <3>2, <3>3 DEF Weighed
  <2> QED BY <1>2, <2>4, <2>5, <2>6, <2>7, <2>8 DEF Next
<1> QED BY <1>1, <1>2

\* Whatever the network, the flags and the order of the goroutines, whoever reads only
\* the grade or the exit code is not misled about the services the scan was shown: with
\* a grade of A or B, or an exit code of 0 under --fail-on, none of them is open to all
\* of the network without credentials, and none that was found is forwarded to; and
\* with a score above 90, or an exit code of 0 under --fail-on medium, none is bound to
\* a LAN address (AGoodReportIsTrue), as long as the claimants of a port fill the slice
\* they are in. Of what the system does not show it says nothing.
THEOREM GoodReportsAreTrue ==
    ASSUME Roomless
    PROVE  Spec => []AGoodReportIsTrue
<1> DEFINE Inv == ReportInv /\ IdentifyInv /\ Weighed
<1>1. Init => Inv
  <2>1. Init => ReportInv /\ IdentifyInv
    BY InitReport, InitIdentify
  <2>2. Init => Weighed
    <3>1. \A f \in Flags : Applied(f) \in Flag
      BY FlagsAssumption DEF Applied, Flag
    <3> QED BY <3>1 DEF Init, Weighed, BeforeRouter
  <2> QED BY <2>1, <2>2
<1>2. Inv /\ [Next]_vars => Inv'
  BY StepKeepsReport, ScanKeeps, StepKeepsWeighed DEF ReportInv
<1>3. Inv => AGoodReportIsTrue
  <2> SUFFICES ASSUME Inv, pc = "done" PROVE AGoodReportIsTrue
    BY DEF AGoodReportIsTrue
  <2>1. Joined /\ \A s \in services : ExposureOf(s) \in found
    BY DEF Weighed
  <2>2. flags.failOn \in Nat /\ Sound(found)
    BY DEF Weighed, Flag, Low, Medium, High, Critical, ReportInv
  <2>3. ASSUME NEW k \in ToSet(sockets) PROVE \E i \in Listeners : k = sockets[i]
    BY <2>3 DEF ToSet, Listeners
  <2>4. ASSUME Grade(found) \in {"A", "B"} \/ Passes(Critical), NEW f, Grave(f) PROVE FALSE
    <3>1. f \in found /\ f.mark # "advisory" /\ f.sev = Critical
      BY <2>4 DEF Grave
    <3>2. exit = 0 /\ flags.failOn <= Critical
      BY <2>2, <2>4, <3>1, CriticalCosts DEF Passes
    <3>3. f.sev >= flags.failOn
      BY <2>2, <3>1, <3>2 DEF Critical
    <3> QED BY <3>1, <3>2, <3>3 DEF Weighed
  <2>5. ASSUME Grade(found) \in {"A", "B"} \/ Passes(Critical), NEW i \in Listeners, OpenToAll(sockets[i])
        PROVE  FALSE
    <3>1. ~Slow(i) /\ \E s \in Alone(i) : s.exposure = "any" /\ s.noAuth
      BY <2>5, OpenIsListed DEF IdentifyInv
    <3>2. Alone(i) = ListedAt(i)
      BY <2>1, <3>1 DEF IdentifyInv, Joined, Progress
    <3>3. PICK s \in services : s.exposure = "any" /\ s.noAuth
      BY <3>1, <3>2 DEF ListedAt
    <3>4. Grave(ExposureOf(s))
      BY <2>1, <3>3, OpenIsGrave
    <3> QED BY <2>4, <2>5, <3>4
  <2>6. ASSUME Grade(found) \in {"A", "B"} \/ Passes(Critical), NEW s \in services PROVE ~Forwarded(s)
    <3>1. Forwarded(s) => \E f : Grave(f)
      BY DEF Weighed, BeforeRouter, Opening
    <3> QED BY <2>4, <2>6, <3>1
  <2>7. ASSUME Score(found) > 90 \/ Passes(Medium), NEW i \in Listeners, OnTheLAN(sockets[i]) PROVE FALSE
    <3>1. Sure(i) /\ sockets[i].addr = "lan"
      BY <2>7 DEF OnTheLAN, Sure, Hint, Claims
    <3>2. ListedAt(i) # {}
      BY <2>1, <3>1 DEF IdentifyInv, Joined, Progress
    <3>3. PICK s \in services : s.at = i
      BY <3>2 DEF ListedAt
    <3>4. s.exposure = "lan"
      BY <3>1, <3>3 DEF IdentifyInv
    <3>5. PICK f \in found : f.mark = "scored" /\ f.sev \in {Medium, High}
      BY <2>1, <3>4, LANIsTold
    <3>6. f.sev \in Nat /\ f.sev >= Medium
      BY <3>5 DEF Medium, High
    <3>7. Score(found) \in 0..100 /\ Score(found) <= 90
      BY <2>2, <3>5, <3>6, CriticalCosts
    <3>8. exit = 0 /\ flags.failOn <= Medium
      BY <2>7, <3>7 DEF Passes
    <3>9. f.sev >= flags.failOn
      BY <2>2, <3>6, <3>8 DEF Medium
    <3> QED BY <3>8, <3>9 DEF Weighed
  <2> HIDE DEF Inv
  <2> QED BY <2>3, <2>5, <2>6, <2>7 DEF AGoodReportIsTrue
<1> QED BY <1>1, <1>2, <1>3, PTL DEF Spec

-----------------------------------------------------------------------------
(* The search for keys within a scan. *)

KeyIds == {"SEC-000", "SEC-002"}
Reported == {"models", "supply", "finish", "done"}

\* What the report says of the keys, and of how far the search for them went.
KeysReported ==
    /\ {f.about[1] : f \in {f \in found : f.id = "SEC-002"}} =
           IF cfg = {} THEN {} ELSE {Cardinality(cfg)}
    /\ cut /\ ~(hist # {} /\ cfg = {}) =>
           \E f \in found : f.id \in KeyIds /\ f.about[2] = "cut"

\* How far the search is, by the step of the scan that is next.
KeyStage ==
    /\ pc \notin {"home", "roots", "keys"} \cup Reported => KeySearchInit /\ disk \in Disks
    /\ pc = "home" => Unwalked /\ (rules.patterns => PlacesOf(cfg) = KeysIn(FilesIn(disk.known)))
    /\ pc \in {"roots", "keys"} \/ Searched =>
           IF rules.patterns /\ rules.exts THEN Walking(flags.docs, flags.dirs) ELSE Unwalked
    /\ pc = "keys" \/ Searched =>
           todo = {} /\ (rules.patterns /\ rules.exts => Cardinality(cfg) = Cardinality(PlacesOf(cfg)))
    /\ pc \notin Reported => \A f \in found : f.id \notin KeyIds
    /\ Searched => KeysReported

\* Only the search for keys has a finding about keys.
LEMMA OthersFindNoKeys ==
    ASSUME Next, ~ReportKeys, NEW f \in found' \ found
    PROVE  f.id \notin KeyIds
<1> USE DEF KeyIds
<1>1. CASE LoadRules
  BY <1>1 DEF LoadRules, Add, Note, Advisory, Finding
<1>2. CASE Listen \/ Identifying \/ Identified \/ SkipSecrets \/ KnownFiles \/ Home \/ Roots
           \/ RootsDone \/ Finish \/ Exited
  BY <1>2 DEF Listen, Identifying, Identified, SkipSecrets, KnownFiles, Home, Roots,
     RootsDone, Finish, Exited, Note, Quiet, vars
<1>3. CASE Exposure
  <2>1. PICK s \in services : f = ExposureOf(s)
    BY <1>3 DEF Exposure, Add
  <2> QED BY <2>1, ExposureIsProper
<1>4. CASE Config
  BY <1>4 DEF Config, Add, ConfigFindings, Finding
<1>5. CASE Firewall
  <2>1. PICK fw \in {"on", "off", "unknown"} :
            IF FirewallFindings(fw) = {} THEN Note("firewall") ELSE Add(FirewallFindings(fw))
    BY <1>5, FirewallsAssumption DEF Firewall
  <2> QED BY <2>1 DEF FirewallFindings, Note, Add, NotRun, Finding
<1>6. CASE PortForwarding
  BY <1>6 DEF PortForwarding, Note, Add, Finding
<1>7. CASE ModelFormats
  BY <1>7 DEF ModelFormats, Note, Add, WeightFindings, Finding
<1>8. CASE SupplyChainCheck
  <2>1. /\ supply' \in Supplies
        /\ found' = found
                 \cup supply'.other \cup (IF rules.indicators THEN supply'.code ELSE {})
                 \cup (IF rules.loads THEN ListFindings(IF rules.entries THEN supply'.hits ELSE {})
                                      ELSE {})
                 \cup (CASE supply'.baseline = "none" -> {Finding("SUP-000", Info, None)}
                         [] supply'.baseline = "there" -> ChangeFindings(supply'.changes)
                         [] supply'.baseline = "broken" -> {})
    BY <1>8 DEF SupplyChainCheck, Note
  <2>2. PICK s \in Supplies : s = supply'
    BY <2>1
  <2>3. CASE f \in s.other \cup s.code
    BY <2>3, SuppliesAssumption
  <2>4. ASSUME NEW hits, f \in ListFindings(hits) PROVE f.id \notin KeyIds
    BY <2>4 DEF ListFindings, Advisory, Finding
  <2>5. ASSUME NEW changes, f \in ChangeFindings(changes) PROVE f.id \notin KeyIds
    BY <2>5 DEF ChangeFindings, Finding
  <2>6. CASE f \in (CASE s.baseline = "none" -> {Finding("SUP-000", Info, None)}
                      [] s.baseline = "there" -> ChangeFindings(s.changes)
                      [] s.baseline = "broken" -> {})
    <3>1. s.baseline \in {"none", "there", "broken"}
      BY SuppliesAssumption
    <3>2. \/ f = Finding("SUP-000", Info, None)
          \/ f \in ChangeFindings(s.changes)
      BY <2>6, <3>1
    <3> QED BY <2>5, <3>2 DEF Finding
  <2>7. CASE rules.loads /\ f \in ListFindings(IF rules.entries THEN s.hits ELSE {})
    BY <2>4, <2>7
  <2> QED BY <2>1, <2>2, <2>3, <2>6, <2>7
<1> QED BY <1>1, <1>2, <1>3, <1>4, <1>5, <1>6, <1>7, <1>8 DEF Next

\* What the report says of the keys is what the search had come to.
LEMMA ReportKeysReports ==
    ASSUME ReportKeys, rules.patterns, Scoped, \A f \in found : f.id \notin KeyIds
    PROVE  KeysReported'
<1> DEFINE B == IF cfg # {} THEN {Finding("SEC-002", Medium, <<Cardinality(cfg), ScopeOn("SEC-002")>>)} ELSE {}
           E == IF hist = {} /\ cfg = {} THEN {Finding("SEC-000", Info, <<0, ScopeOn("SEC-000")>>)} ELSE {}
<1>1. UNCHANGED <<read, cut, hist, cfg>>
  BY DEF ReportKeys, searching
<1>2. found' = found \cup (IF hist # {} THEN {Finding("SEC-001", High, <<Cardinality(hist), "unsaid">>)} ELSE {})
                     \cup B \cup (((IF flags.history THEN {} ELSE {NotRun("SEC-003")})
                                   \cup (IF flags.docs THEN {} ELSE {NotRun("SEC-004")})) \cup E)
  BY DEF ReportKeys
<1>3. \A f \in found' : f.id \in KeyIds => f \in B \cup E
  BY <1>2, FindingIsScored DEF KeyIds
<1>4. B \cup E \subseteq found'
  BY <1>2
<1>5. \A f \in B : f.id = "SEC-002" /\ f.about = <<Cardinality(cfg), Scope>>
  BY DEF Finding, ScopeOn
<1>6. \A f \in E : f.id = "SEC-000" /\ f.about = <<0, Scope>>
  BY DEF Finding, ScopeOn
<1>7. (cfg # {} <=> B # {}) /\ (hist = {} /\ cfg = {} <=> E # {})
  OBVIOUS
<1> HIDE DEF B, E
<1>8. {f.about[1] : f \in {f \in found' : f.id = "SEC-002"}} = IF cfg = {} THEN {} ELSE {Cardinality(cfg)}
  <2>1. {f \in found' : f.id = "SEC-002"} = B
    BY <1>3, <1>4, <1>5, <1>6 DEF KeyIds
  <2>2. \A f \in B : f.about[1] = Cardinality(cfg)
    BY <1>5
  <2>3. cfg = {} <=> B = {}
    BY <1>7
  <2> HIDE DEF KeyIds
  <2> QED BY <2>1, <2>2, <2>3
<1>9. cut /\ ~(hist # {} /\ cfg = {}) => \E f \in found' : f.id \in KeyIds /\ f.about[2] = "cut"
  <2> SUFFICES ASSUME cut, ~(hist # {} /\ cfg = {})
               PROVE  \E f \in found' : f.id \in KeyIds /\ f.about[2] = "cut"
    OBVIOUS
  <2>1. Scope = "cut"
    BY DEF Scope, Scoped
  <2>2. PICK f \in B \cup E : TRUE
    BY <1>7
  <2>3. f.about[2] = "cut" /\ f.id \in KeyIds
    BY <1>5, <1>6, <2>1, <2>2 DEF KeyIds
  <2> QED BY <1>4, <2>3
<1> QED BY <1>1, <1>8, <1>9 DEF KeysReported

\* Nobody but the search touches the disk or what was found there.
LEMMA OthersLeaveTheSearch ==
    ASSUME Next
    PROVE  /\ UNCHANGED <<disk, flags, host>>
           /\ UNCHANGED rules \/ (pc = "rules" /\ pc' = "listen")
           /\ \/ UNCHANGED searching \/ KnownFiles \/ Home \/ Roots \/ RootsDone
<1>1. CASE LoadRules \/ Listen \/ Identifying \/ Identified \/ Finish \/ Exited
  BY <1>1 DEF LoadRules, Listen, Identifying, Identified, Finish, Exited, vars, chosen, To
<1>2. CASE Exposure \/ Config \/ Firewall \/ PortForwarding \/ SkipSecrets
  BY <1>2 DEF Exposure, Config, Firewall, PortForwarding, SkipSecrets, Check, chosen
<1>3. CASE KnownFiles \/ Home \/ Roots \/ RootsDone \/ ReportKeys
  BY <1>3 DEF KnownFiles, Home, Roots, RootsDone, ReportKeys, Check, chosen
<1>4. CASE ModelFormats \/ SupplyChainCheck
  BY <1>4 DEF ModelFormats, SupplyChainCheck, Check, chosen
<1> QED BY <1>1, <1>2, <1>3, <1>4 DEF Next

\* The rules are loaded once.
LEMMA OnlyLoadingSetsRules == ASSUME Next, ~LoadRules PROVE UNCHANGED rules
<1>1. CASE Listen \/ Identifying \/ Identified \/ Finish \/ Exited
  BY <1>1 DEF Listen, Identifying, Identified, Finish, Exited, vars
<1>2. CASE Exposure \/ Config \/ Firewall \/ PortForwarding \/ SkipSecrets
  BY <1>2 DEF Exposure, Config, Firewall, PortForwarding, SkipSecrets, Check
<1>3. CASE KnownFiles \/ Home \/ Roots \/ RootsDone \/ ReportKeys
  BY <1>3 DEF KnownFiles, Home, Roots, RootsDone, ReportKeys, Check
<1>4. CASE ModelFormats \/ SupplyChainCheck
  BY <1>4 DEF ModelFormats, SupplyChainCheck, Check
<1> QED BY <1>1, <1>2, <1>3, <1>4 DEF Next

\* The exit code is decided at the end.
LEMMA OnlyFinishSetsExit == ASSUME Next, ~Finish PROVE UNCHANGED exit
<1>1. CASE LoadRules \/ Listen \/ Identifying \/ Identified \/ Exited
  BY <1>1 DEF LoadRules, Listen, Identifying, Identified, Exited, vars
<1>2. CASE Exposure \/ Config \/ Firewall \/ PortForwarding \/ SkipSecrets
  BY <1>2 DEF Exposure, Config, Firewall, PortForwarding, SkipSecrets, Check
<1>3. CASE KnownFiles \/ Home \/ Roots \/ RootsDone \/ ReportKeys
  BY <1>3 DEF KnownFiles, Home, Roots, RootsDone, ReportKeys, Check
<1>4. CASE ModelFormats \/ SupplyChainCheck
  BY <1>4 DEF ModelFormats, SupplyChainCheck, Check
<1> QED BY <1>1, <1>2, <1>3, <1>4 DEF Next

BeforeSecrets == {"rules", "listen", "identify", "exposure", "config", "firewall", "router", "secrets"}

\* The steps of a scan, as far as the search for keys can tell them apart.
LEMMA StepsOfTheSearch ==
    ASSUME Next, pc \in BeforeSecrets \cup {"home", "roots", "keys"} \cup Reported
    PROVE  \/ KnownFiles \/ Home \/ Roots \/ RootsDone \/ ReportKeys
           \/ /\ UNCHANGED searching
              /\ \/ pc \in BeforeSecrets /\ pc' \in BeforeSecrets
                 \/ SkipSecrets
                 \/ pc \in Reported /\ pc' \in Reported /\ UNCHANGED rules
<1> USE DEF BeforeSecrets, Reported
<1>1. CASE LoadRules \/ Listen \/ Identifying \/ Identified
  BY <1>1 DEF LoadRules, Listen, Identifying, Identified, To
<1>2. CASE Exposure \/ Config \/ Firewall \/ PortForwarding
  BY <1>2 DEF Exposure, Config, Firewall, PortForwarding, Check, To
<1>3. CASE SkipSecrets \/ KnownFiles \/ Home \/ Roots \/ RootsDone \/ ReportKeys
  BY <1>3 DEF SkipSecrets
<1>4. CASE ModelFormats \/ SupplyChainCheck \/ Finish \/ Exited
  BY <1>4 DEF ModelFormats, SupplyChainCheck, Finish, Exited, Check, To, vars
<1> QED BY <1>1, <1>2, <1>3, <1>4 DEF Next

SearchSound ==
    /\ pc \in BeforeSecrets \cup {"home", "roots", "keys"} \cup Reported
    /\ SearchInv /\ KeyStage

\* Steps before the search and after it.
LEMMA ElsewhereKeepsSearch ==
    ASSUME SearchSound, Next, ~ReportKeys, UNCHANGED searching,
           \/ pc \in BeforeSecrets /\ pc' \in BeforeSecrets
           \/ SkipSecrets
           \/ pc \in Reported /\ pc' \in Reported /\ UNCHANGED rules
    PROVE  SearchSound'
<1>1. UNCHANGED <<disk, flags, host>> /\ UNCHANGED <<disk, searching>>
  BY OthersLeaveTheSearch
<1>2. SearchInv'
  BY <1>1, SearchStays DEF SearchSound
<1>3. CASE pc \in BeforeSecrets /\ pc' \in BeforeSecrets
  <2>1. KeySearchInit' /\ disk' \in Disks
    BY <1>1, <1>3 DEF SearchSound, KeyStage, KeySearchInit, searching, BeforeSecrets, Reported
  <2>2. \A f \in found' : f.id \notin KeyIds
    BY <1>3, OthersFindNoKeys DEF SearchSound, KeyStage, BeforeSecrets, Reported
  <2>3. /\ pc' \notin Reported /\ pc' \notin {"home", "roots", "keys"} /\ ~Searched'
    BY <1>3 DEF BeforeSecrets, Reported, Searched
  <2> QED BY <1>2, <1>3, <2>1, <2>2, <2>3 DEF SearchSound, KeyStage
<1>4. CASE SkipSecrets
  <2>1. pc' = "models" /\ ~Searched'
    BY <1>4, <1>1 DEF SkipSecrets, Check, To, Searched
  <2> QED BY <1>2, <2>1 DEF SearchSound, KeyStage, Reported
<1>5. CASE pc \in Reported /\ pc' \in Reported /\ UNCHANGED rules
  <2>1. pc' \notin {"home", "roots", "keys"} /\ pc \notin {"home", "roots", "keys"}
    BY <1>5 DEF Reported
  <2>2. Searched' => Searched
    BY <1>1, <1>5 DEF Searched, Reported
  <2>3. ASSUME Searched'
        PROVE  IF (rules.patterns /\ rules.exts)' THEN Walking(flags.docs, flags.dirs)' ELSE Unwalked'
    <3>1. PICK docs, named : docs = flags.docs /\ named = flags.dirs
      OBVIOUS
    <3>2. CASE rules.patterns /\ rules.exts
      <4>1. Walking(docs, named)
        BY <2>2, <2>3, <3>1, <3>2 DEF SearchSound, KeyStage
      <4>2. Walking(docs, named)'
        BY <1>1, <4>1, SearchStays
      <4>3. flags'.docs = docs /\ flags'.dirs = named
        BY <1>1, <3>1
      <4> QED BY <1>5, <3>2, <4>2, <4>3
    <3>3. CASE ~(rules.patterns /\ rules.exts)
      <4>1. Unwalked
        BY <2>2, <2>3, <3>3 DEF SearchSound, KeyStage
      <4> QED BY <1>1, <1>5, <3>3, <4>1, SearchStays
    <3> QED BY <3>2, <3>3
  <2>4. ASSUME Searched'
        PROVE  /\ todo' = {}
               /\ (rules.patterns /\ rules.exts)' => Cardinality(cfg') = Cardinality(PlacesOf(cfg)')
    BY <1>1, <1>5, <2>2, <2>4, SearchStays DEF SearchSound, KeyStage, searching
  <2>5. ASSUME Searched' PROVE KeysReported'
    <3>1. KeysReported
      BY <2>2, <2>5 DEF SearchSound, KeyStage
    <3>2. found \subseteq found' /\ \A f \in found' \ found : f.id \notin KeyIds
      BY OthersFindNoKeys, FindingsStay
    <3>3. {f \in found' : f.id = "SEC-002"} = {f \in found : f.id = "SEC-002"}
      BY <3>2 DEF KeyIds
    <3>4. UNCHANGED <<cut, hist, cfg>>
      BY <1>1 DEF searching
    <3> QED BY <3>1, <3>2, <3>3, <3>4 DEF KeysReported
  <2> QED BY <1>2, <1>5, <2>1, <2>3, <2>4, <2>5 DEF SearchSound, KeyStage
<1> QED BY <1>3, <1>4, <1>5

\* What the scan was started with, and what it came to.
Ranges ==
    /\ host \in Hosts /\ flags \in Flag /\ rules \in Rules /\ exit \in {-1, 0, 1, 2}

\* At the start of a scan.
LEMMA InitRanges == Init => Ranges
<1>1. \A f \in Flags : Applied(f) \in Flag
  BY FlagsAssumption DEF Applied, Flag
<1> QED BY <1>1, RulesAssumption DEF Init, Ranges

\* Every step keeps them.
LEMMA StepKeepsRanges == Ranges /\ [Next]_vars => Ranges'
<1> SUFFICES ASSUME Ranges, Next PROVE Ranges'
  BY DEF Ranges, vars, chosen
<1>1. UNCHANGED <<host, flags>>
  BY OthersLeaveTheSearch
<1>2. rules' \in Rules
  <2>1. CASE LoadRules
    <3>1. rules' = NoRules \/ \E r \in RuleFiles : rules' = r
      BY <2>1 DEF LoadRules
    <3> QED BY <3>1, RulesAssumption
  <2>2. CASE ~LoadRules
    BY <2>2, OnlyLoadingSetsRules DEF Ranges
  <2> QED BY <2>1, <2>2
<1>3. exit' \in {-1, 0, 1, 2}
  <2>1. CASE Finish
    BY <2>1 DEF Finish
  <2>2. CASE ~Finish
    BY <2>2, OnlyFinishSetsExit DEF Ranges
  <2> QED BY <2>1, <2>2
<1> QED BY <1>1, <1>2, <1>3 DEF Ranges

\* The files known by name are read.
LEMMA KnownFilesKeeps ==
    ASSUME SearchSound, Ranges, KnownFiles, Next
    PROVE  SearchSound'
<1>1. pc = "secrets" /\ pc' = "home" /\ UNCHANGED <<disk, flags, host, rules, found>>
      /\ IF rules.patterns THEN ReadKnown(flags.history) ELSE UNCHANGED searching
  BY DEF KnownFiles, Check, To, chosen, Quiet
<1>2. KeySearchInit /\ disk \in Disks /\ \A f \in found : f.id \notin KeyIds
  BY <1>1 DEF SearchSound, KeyStage, Reported
<1>3. Unwalked /\ SearchInv
  BY <1>2, InitSearch
<1>4. Unwalked' /\ SearchInv' /\ (rules'.patterns => PlacesOf(cfg)' = KeysIn(FilesIn(disk.known))')
  <2>1. CASE rules.patterns
    <3>1. PICK h \in BOOLEAN : h = flags.history
      BY DEF Ranges, Flag
    <3>2. ReadKnown(h)
      BY <1>1, <2>1, <3>1
    <3>3. Unwalked' /\ SearchInv' /\ PlacesOf(cfg)' = KeysIn(FilesIn(disk.known))
      BY <1>1, <1>3, <3>2, ReadKnownKeeps
    <3>4. KeysIn(FilesIn(disk.known))' = KeysIn(FilesIn(disk.known))
      BY <1>1 DEF KeysIn, Legible
    <3> QED BY <3>3, <3>4
  <2>2. CASE ~rules.patterns
    BY <1>1, <1>3, <2>2, SearchStays
  <2> QED BY <2>1, <2>2
<1>5. pc' = "home" /\ ~Searched' /\ pc' \notin Reported /\ \A f \in found' : f.id \notin KeyIds
  BY <1>1, <1>2 DEF Searched, Reported
<1> QED BY <1>4, <1>5 DEF SearchSound, KeyStage, Reported

\* What is next while the roots are walked, and what must then hold.
LEMMA StageOfRoots ==
    ASSUME SearchInv', pc' \in {"roots", "keys"}, \A f \in found' : f.id \notin KeyIds,
           IF (rules.patterns /\ rules.exts)' THEN Walking(flags.docs, flags.dirs)' ELSE Unwalked',
           pc' = "keys" =>
               /\ todo' = {}
               /\ (rules.patterns /\ rules.exts)' => Cardinality(cfg') = Cardinality(PlacesOf(cfg)')
    PROVE  SearchSound'
<1>1. ~Searched' /\ pc' \notin Reported /\ pc' # "home"
  BY DEF Searched, Reported
<1> QED BY <1>1 DEF SearchSound, KeyStage

\* The home folder is read.
LEMMA HomeKeeps ==
    ASSUME SearchSound, Home, Next
    PROVE  SearchSound'
<1>1. pc = "home" /\ pc' = "roots" /\ UNCHANGED <<disk, flags, host, rules, found>>
      /\ IF rules.patterns /\ rules.exts THEN ReadHome(flags.docs, flags.dirs)
         ELSE UNCHANGED searching
  BY DEF Home, Check, To, chosen, Quiet
<1>2. SearchInv /\ Unwalked /\ (rules.patterns => PlacesOf(cfg) = KeysIn(FilesIn(disk.known)))
      /\ \A f \in found : f.id \notin KeyIds
  BY <1>1 DEF SearchSound, KeyStage, Reported
<1>3. PICK docs, named : docs = flags.docs /\ named = flags.dirs
  OBVIOUS
<1>4. flags'.docs = docs /\ flags'.dirs = named
  BY <1>1, <1>3
<1>5. CASE rules.patterns /\ rules.exts
  <2>1. ReadHome(docs, named) /\ KeysTyped
    BY <1>1, <1>2, <1>3, <1>5 DEF SearchInv, SearchTyped, KeysTyped
  <2>2. SearchInv' /\ Walking(docs, named)'
    BY <1>1, <1>2, <1>5, <2>1, ReadHomeKeeps
  <2>3. Walking(flags.docs, flags.dirs)'
    BY <1>4, <2>2
  <2> QED BY <1>1, <1>2, <1>5, <2>2, <2>3, StageOfRoots
<1>6. CASE ~(rules.patterns /\ rules.exts)
  <2>1. SearchInv' /\ Unwalked'
    BY <1>1, <1>2, <1>6, SearchStays
  <2> QED BY <1>1, <1>2, <1>6, <2>1, StageOfRoots
<1> QED BY <1>5, <1>6

\* A root is walked.
LEMMA RootsKeeps ==
    ASSUME SearchSound, Roots, Next
    PROVE  SearchSound'
<1>1. pc = "roots" /\ pc' = "roots" /\ UNCHANGED <<disk, flags, host, rules, found>> /\ WalkRoot
  BY DEF Roots, Check, To, chosen, Quiet
<1>2. SearchInv /\ (\A f \in found : f.id \notin KeyIds)
      /\ IF rules.patterns /\ rules.exts THEN Walking(flags.docs, flags.dirs) ELSE Unwalked
  BY <1>1 DEF SearchSound, KeyStage, Reported
<1>3. rules.patterns /\ rules.exts
  BY <1>1, <1>2 DEF WalkRoot, Unwalked
<1>4. PICK docs, named : docs = flags.docs /\ named = flags.dirs
  OBVIOUS
<1>5. SearchInv' /\ Walking(docs, named)'
  <2>1. Walking(docs, named)
    BY <1>2, <1>3, <1>4
  <2> QED BY <1>1, <1>2, <2>1, WalkRootKeeps, WalkRootCounts
<1>6. flags'.docs = docs /\ flags'.dirs = named
  BY <1>1, <1>4
<1>7. Walking(flags.docs, flags.dirs)'
  BY <1>5, <1>6
<1> QED BY <1>1, <1>2, <1>3, <1>5, <1>7, StageOfRoots

\* What was met twice is dropped.
LEMMA RootsDoneKeeps ==
    ASSUME SearchSound, RootsDone, Next
    PROVE  SearchSound'
<1>1. pc = "roots" /\ pc' = "keys" /\ UNCHANGED <<disk, flags, host, rules, found>> /\ todo = {}
      /\ IF rules.patterns /\ rules.exts THEN Dedupe ELSE UNCHANGED searching
  BY DEF RootsDone, Check, To, chosen, Quiet
<1>2. SearchInv /\ (\A f \in found : f.id \notin KeyIds)
      /\ IF rules.patterns /\ rules.exts THEN Walking(flags.docs, flags.dirs) ELSE Unwalked
  BY <1>1 DEF SearchSound, KeyStage, Reported
<1>3. CASE rules.patterns /\ rules.exts
  <2>1. PICK docs, named : docs = flags.docs /\ named = flags.dirs
    OBVIOUS
  <2>2. Walking(docs, named)
    BY <1>2, <1>3, <2>1
  <2>3. SearchInv' /\ todo' = {} /\ Cardinality(cfg') = Cardinality(PlacesOf(cfg)')
        /\ PlacesOf(cfg)' = PlacesOf(cfg) /\ UNCHANGED <<read, cut, searched, hist>>
    BY <1>1, <1>2, <1>3, DedupeKeeps
  <2>4. Walking(docs, named)'
    <3>1. FilesRead' = FilesRead
      BY <2>3 DEF FilesRead
    <3>2. HomeTold' /\ ReadIsThere'
      BY <1>1, <2>2, <2>3, <3>1 DEF Walking, HomeTold, HomeListing, ReadIsThere, RootWalked
    <3>3. Counted' /\ Dealt(docs, named)'
      BY <1>1, <2>2, <2>3, <3>1 DEF Walking, Counted, Dealt, KeysIn, Legible, SearchRoots, AskedFor
    <3> QED BY <3>2, <3>3 DEF Walking
  <2>5. flags'.docs = docs /\ flags'.dirs = named
    BY <1>1, <2>1
  <2>6. Walking(flags.docs, flags.dirs)'
    BY <2>4, <2>5
  <2> QED BY <1>1, <1>2, <1>3, <2>3, <2>6, StageOfRoots
<1>4. CASE ~(rules.patterns /\ rules.exts)
  <2>1. SearchInv' /\ Unwalked' /\ todo' = {}
    BY <1>1, <1>2, <1>4, SearchStays DEF Unwalked
  <2> QED BY <1>1, <1>2, <1>4, <2>1, StageOfRoots
<1> QED BY <1>3, <1>4

\* The keys are reported.
LEMMA ReportKeysKeeps ==
    ASSUME SearchSound, ReportKeys, Next
    PROVE  SearchSound'
<1>1. pc = "keys" /\ pc' = "models" /\ UNCHANGED <<disk, flags, host, rules, searching>>
  BY DEF ReportKeys, Check, To, chosen
<1>2. SearchInv /\ todo = {} /\ (\A f \in found : f.id \notin KeyIds)
      /\ (rules.patterns /\ rules.exts => Cardinality(cfg) = Cardinality(PlacesOf(cfg)))
  BY <1>1 DEF SearchSound, KeyStage, Reported
<1>3. IF rules.patterns /\ rules.exts THEN Walking(flags.docs, flags.dirs) ELSE Unwalked
  BY <1>1 DEF SearchSound, KeyStage, Reported
<1>4. SearchInv' /\ UNCHANGED <<todo, cfg>>
  BY <1>1, <1>2, SearchStays DEF searching
<1>5. IF (rules.patterns /\ rules.exts)' THEN Walking(flags.docs, flags.dirs)' ELSE Unwalked'
  <2>1. PICK docs, named : docs = flags.docs /\ named = flags.dirs
    OBVIOUS
  <2>2. CASE rules.patterns /\ rules.exts
    <3>1. Walking(docs, named)
      BY <1>3, <2>1, <2>2
    <3>2. Walking(docs, named)'
      BY <1>1, <3>1, SearchStays
    <3>3. flags'.docs = docs /\ flags'.dirs = named
      BY <1>1, <2>1
    <3> QED BY <1>1, <2>2, <3>2, <3>3
  <2>3. CASE ~(rules.patterns /\ rules.exts)
    BY <1>1, <1>3, <2>3, SearchStays
  <2> QED BY <2>2, <2>3
<1>6. Searched' => KeysReported'
  <2>1. Searched' => rules.patterns
    BY <1>1 DEF Searched
  <2> QED BY <1>2, <2>1, ReportKeysReports DEF SearchInv
<1>7. Cardinality(cfg') = Cardinality(cfg) /\ PlacesOf(cfg)' = PlacesOf(cfg)
  BY <1>1, <1>4, SearchStays
<1> QED BY <1>1, <1>2, <1>4, <1>5, <1>6, <1>7 DEF SearchSound, KeyStage, Reported

\* Every step of a scan keeps what the search promises.
LEMMA StepKeepsSearch == Ranges /\ SearchSound /\ [Next]_vars => SearchSound'
<1> SUFFICES ASSUME Ranges, SearchSound, [Next]_vars PROVE SearchSound'
  OBVIOUS
<1>1. CASE UNCHANGED vars
  <2>1. /\ UNCHANGED <<pc, flags, host, rules, found, disk, searching>>
        /\ UNCHANGED <<todo, budget, read, cut, searched, hist, cfg>>
    BY <1>1 DEF vars, chosen, searching
  <2>2. SearchInv'
    BY <2>1, SearchStays DEF SearchSound
  <2>3. /\ pc' \notin {"home", "roots", "keys"} \cup Reported => KeySearchInit' /\ disk' \in Disks
        /\ pc' \notin Reported => \A f \in found' : f.id \notin KeyIds
    BY <2>1 DEF SearchSound, KeyStage, KeySearchInit
  <2>4. Searched' = Searched /\ (Searched => KeysReported')
    BY <2>1 DEF SearchSound, KeyStage, KeysReported, Searched
  <2>5. pc' = "home" => Unwalked' /\ (rules'.patterns => PlacesOf(cfg)' = KeysIn(FilesIn(disk.known))')
    <3>1. KeysIn(FilesIn(disk.known))' = KeysIn(FilesIn(disk.known))
      BY <2>1 DEF KeysIn, Legible
    <3> QED BY <2>1, <3>1, SearchStays DEF SearchSound, KeyStage
  <2>6. ASSUME pc' \in {"roots", "keys"} \/ Searched'
        PROVE  IF (rules.patterns /\ rules.exts)' THEN Walking(flags.docs, flags.dirs)' ELSE Unwalked'
    <3>1. PICK docs, named : docs = flags.docs /\ named = flags.dirs
      OBVIOUS
    <3>2. CASE rules.patterns /\ rules.exts
      <4>1. Walking(docs, named)
        BY <2>1, <2>4, <2>6, <3>1, <3>2 DEF SearchSound, KeyStage
      <4>2. Walking(docs, named)'
        BY <2>1, <4>1, SearchStays
      <4>3. flags'.docs = docs /\ flags'.dirs = named
        BY <2>1, <3>1
      <4> QED BY <2>1, <3>2, <4>2, <4>3
    <3>3. CASE ~(rules.patterns /\ rules.exts)
      <4>1. Unwalked
        BY <2>1, <2>4, <2>6, <3>3 DEF SearchSound, KeyStage
      <4> QED BY <2>1, <3>3, <4>1, SearchStays
    <3> QED BY <3>2, <3>3
  <2>7. pc' = "keys" \/ Searched' =>
            /\ todo' = {}
            /\ (rules.patterns /\ rules.exts)' => Cardinality(cfg') = Cardinality(PlacesOf(cfg)')
    BY <2>1, <2>4, SearchStays DEF SearchSound, KeyStage
  <2>8. pc' \in BeforeSecrets \cup {"home", "roots", "keys"} \cup Reported
    BY <2>1 DEF SearchSound
  <2> QED BY <2>2, <2>3, <2>4, <2>5, <2>6, <2>7, <2>8 DEF SearchSound, KeyStage
<1>2. CASE Next
  <2>1. CASE KnownFiles \/ Home \/ Roots \/ RootsDone \/ ReportKeys
    BY <1>2, <2>1, KnownFilesKeeps, HomeKeeps, RootsKeeps, RootsDoneKeeps, ReportKeysKeeps
  <2>2. CASE ~(KnownFiles \/ Home \/ Roots \/ RootsDone \/ ReportKeys)
    <3>1. pc \in BeforeSecrets \cup {"home", "roots", "keys"} \cup Reported
      BY DEF SearchSound
    <3>2. /\ UNCHANGED searching
          /\ \/ pc \in BeforeSecrets /\ pc' \in BeforeSecrets
             \/ SkipSecrets
             \/ pc \in Reported /\ pc' \in Reported /\ UNCHANGED rules
      BY <1>2, <2>2, <3>1, StepsOfTheSearch
    <3> QED BY <1>2, <2>2, <3>2, ElsewhereKeepsSearch
  <2> QED BY <2>1, <2>2
<1> QED BY <1>1, <1>2

\* At the start of a scan nothing was searched.
LEMMA InitSearchSound == Init => SearchSound
<1> SUFFICES ASSUME Init PROVE SearchSound
  OBVIOUS
<1>1. KeySearchInit /\ disk \in Disks /\ pc = "rules" /\ found = {}
  BY DEF Init
<1>2. Unwalked /\ SearchInv
  BY <1>1, InitSearch
<1> QED BY <1>1, <1>2 DEF SearchSound, KeyStage, Searched, BeforeSecrets, Reported

\* The search is sound all through a scan.
LEMMA SearchIsSound == Spec => [](Ranges /\ SearchSound)
BY InitRanges, InitSearchSound, StepKeepsRanges, StepKeepsSearch, PTL DEF Spec

\* Whatever the folders hold, no more files are read than the budget has, but for one
\* in each root when the home folder left less than there are roots (homeTopLevel,
\* walkForKeys and the shares of the roots, secretwalk.go).
THEOREM BudgetIsHeld == Spec => []BudgetHolds
<1>1. SearchSound => BudgetHolds
  BY BudgetIsKept DEF SearchSound
<1> QED BY <1>1, SearchIsSound, PTL

\* However much the home folder and earlier roots held, a text file was read in every
\* root walked that has one (the share of a root is never nothing, secretwalk.go).
THEOREM RootsAreReached == Spec => []EveryRootIsReached
<1>1. SearchSound => EveryRootIsReached
  BY DEF SearchSound, SearchInv
<1> QED BY <1>1, SearchIsSound, PTL

\* A search that a limit stopped anywhere is reported as such, with keys or without,
\* but when keys were found in shell history alone (scopeNote, secrets.go).
THEOREM UnreadIsAlwaysTold == Spec => []UnreadIsTold
<1>1. SearchSound => UnreadIsTold
  <2> SUFFICES ASSUME SearchSound, Searched PROVE UnreadIsTold
    BY DEF UnreadIsTold
  <2>1. UnreadIsMarked /\ KeysReported
    BY DEF SearchSound, SearchInv, KeyStage
  <2>2. rules.exts /\ ~(FilesIn(HomeListing) \subseteq FilesRead) => cut
    <3> SUFFICES ASSUME rules.exts, ~(FilesIn(HomeListing) \subseteq FilesRead) PROVE cut
      OBVIOUS
    <3>1. PICK docs, named : docs = flags.docs /\ named = flags.dirs
      OBVIOUS
    <3>2. Walking(docs, named)
      BY <3>1 DEF SearchSound, KeyStage, Searched
    <3> QED BY <3>2 DEF Walking, HomeTold
  <2> QED BY <2>1, <2>2 DEF UnreadIsTold, KeysReported, KeyIds
<1> QED BY <1>1, SearchIsSound, PTL

\* When no limit stopped the search, the report counts each key in reach exactly once:
\* the keys found are those of every file that the flags put in reach, and dedupeHits
\* leaves one of each.
THEOREM KeysAreCounted == Spec => []KeysInReachAreCounted
<1>1. SearchSound => KeysInReachAreCounted
  <2> SUFFICES ASSUME SearchSound, Searched, rules.exts, ~cut
               PROVE  LET keys == KeysIn(InReach(flags.docs, flags.dirs))
                      IN  {f.about[1] : f \in {f \in found : f.id = "SEC-002"}} =
                              IF keys = {} THEN {} ELSE {Cardinality(keys)}
    BY DEF KeysInReachAreCounted
  <2>1. PICK docs, named : docs = flags.docs /\ named = flags.dirs
    OBVIOUS
  <2>2. Walking(docs, named) /\ SearchInv /\ KeysReported /\ todo = {}
        /\ Cardinality(cfg) = Cardinality(PlacesOf(cfg))
    BY <2>1 DEF SearchSound, KeyStage, Searched
  <2>3. PlacesOf(cfg) = KeysIn(InReach(docs, named))
    BY <2>2, WholeSearch DEF Walking, Counted
  <2>4. cfg = {} <=> PlacesOf(cfg) = {}
    BY DEF PlacesOf
  <2> QED BY <2>1, <2>2, <2>3, <2>4 DEF KeysReported
<1> QED BY <1>1, SearchIsSound, PTL

\* Every variable of a scan stays within what it can be; no more than MaxParallel
\* goroutines talk at a time (the semaphore of Identify), and the score is a number
\* from 0 to 100 with a grade (Finalize).
THEOREM TypeCorrect == Spec => []TypeOK
<1>1. ReportInv /\ Ranges /\ SearchSound => TypeOK
  <2> SUFFICES ASSUME ReportInv, Ranges, SearchSound PROVE TypeOK
    OBVIOUS
  <2>1. pc \in {"rules", "listen", "identify", "exposure", "config", "firewall", "router",
                "secrets", "home", "roots", "keys", "models", "supply", "finish", "done"}
    BY DEF SearchSound, BeforeSecrets, Reported
  <2>2. /\ machine \in {n.there : n \in Networks}
        /\ sockets \in {n.shown : n \in Networks} \cup {<<>>} /\ next \in 1..(Len(sockets) + 1)
        /\ gor \in [Listeners -> Stages] /\ services \subseteq Service
        /\ Cardinality(Talking) <= MaxParallel
    BY DEF ReportInv, IdentifyTypes, Shown
  <2>3. SearchTyped
    BY DEF SearchSound, SearchInv
  <2>4. todo \cup {searched[i].root : i \in DOMAIN searched} \subseteq DOMAIN disk.roots
    <3>1. todo \subseteq DOMAIN disk.roots
      BY <2>3 DEF SearchTyped
    <3> DEFINE D == DOMAIN disk.roots
               E == [root : D, cut : BOOLEAN]
    <3>2. searched \in Seq(E)
      BY <2>3 DEF SearchTyped
    <3> HIDE DEF E
    <3>3. ASSUME NEW i \in DOMAIN searched PROVE searched[i] \in E
      BY <3>2, <3>3
    <3>4. ASSUME NEW i \in DOMAIN searched PROVE searched[i].root \in D
      BY <3>3, <3>4 DEF E
    <3> QED BY <3>1, <3>4
  <2>5. {Place(h) : h \in hist \cup cfg} \subseteq Files \X Keys
    BY <2>3 DEF SearchTyped, PlacesOf
  <2>6. disk \in Disks /\ budget \in Int
    BY <2>3 DEF SearchTyped
  <2>7. cut \in BOOLEAN
    BY <2>3 DEF SearchTyped
  <2>8. \A f \in found : f.sev \in Info..Critical /\ f.mark \in Marks
    BY DEF ReportInv, Sound, Proper, Marks
  <2>9. Score(found) \in 0..100 /\ Grade(found) \in {"A", "B", "C", "D", "F"}
    BY CriticalCosts DEF ReportInv
  <2>10. host \in Hosts /\ flags \in Flag /\ rules \in Rules /\ exit \in {-1, 0, 1, 2}
    BY DEF Ranges
  <2> QED BY <2>1, <2>2, <2>4, <2>5, <2>6, <2>7, <2>8, <2>9, <2>10 DEF TypeOK
<1>2. Spec => []ReportInv
  BY InitReport, StepKeepsReport, PTL DEF Spec
<1> QED BY <1>1, <1>2, SearchIsSound, PTL
=============================================================================
