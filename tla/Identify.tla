------------------------------ MODULE Identify ------------------------------
(***************************************************************************)
(* Service identification (internal/probe, internal/catalog): one          *)
(* goroutine per listener that some signature could explain, at most       *)
(* MaxParallel of them talking at a time.  Each asks the loopback address  *)
(* of its port, tries the fingerprints of its candidates in order, asks    *)
(* the API of the service it settled on, and adds it to the shared list.   *)
(*                                                                         *)
(* What a process answers is two sets: the signatures whose fingerprint it *)
(* satisfies, and those whose API call it answers without credentials.  A  *)
(* slow process may let any request time out.  What listens does not       *)
(* change during a scan.                                                   *)
(*                                                                         *)
(* The list is a set.  Its order is that in which the goroutines finish;   *)
(* all it decides is the order of findings of one severity.                *)
(***************************************************************************)
EXTENDS Integers, Sequences, FiniteSets, SequencesExt

CONSTANTS
    Sigs,         \* signatures of the catalog
    Claimants,    \* Claimants[port]: the signatures that claim the port, in order
    Ephemeral,    \* ports at or above dynamicPortFloor
    MaxParallel,  \* how many goroutines talk at a time (12 in the code)
    Networks,     \* what can be listening, and what the system may show of it
    None

Ports == DOMAIN Claimants
Socket == [addr : {"any", "loopback", "lan"}, six : BOOLEAN, port : Ports,
           hint : Sigs \cup {None},   \* the signature its process name hints at, if legible
           looks : SUBSET Sigs, opens : SUBSET Sigs, slow : BOOLEAN]

ASSUME ClaimantsAssumption == \A p \in Ports : Claimants[p] \in Seq(Sigs)
ASSUME EphemeralAssumption == Ephemeral \subseteq Ports
ASSUME NoneAssumption == None \notin Sigs
ASSUME MaxParallelAssumption == MaxParallel \in Nat \ {0}
\* Listeners keeps one socket per address and port. It shows none when enumeration
\* fails, and on some systems only the user's own when the scan is not root.
SameSocket(k, l) == k.addr = l.addr /\ k.six = l.six /\ k.port = l.port
ASSUME NetworksAssumption ==
    \A n \in Networks :
        /\ n.there \subseteq Socket /\ n.shown \in Seq(Socket)
        /\ ToSet(n.shown) \subseteq n.there
        /\ \A i, j \in DOMAIN n.shown : SameSocket(n.shown[i], n.shown[j]) => i = j

VARIABLES
    machine,   \* the sockets that are listening
    sockets,   \* those the scan was shown, sorted by port
    next,      \* the listener the loop is at
    gor,       \* gor[i]: where the goroutine of listener i is
    slot,      \* slot[p]: the hint behind the claimants of p, in spare capacity
    best,      \* best[i]: the signature listener i was settled on, and if confirmed
    open,      \* open[i]: its API answered without credentials
    services   \* the list so far

identifying == <<next, gor, slot, best, open, services>>

Listeners == DOMAIN sockets
Stages == {"none", "wait", "probe", "auth", "deposit", "done"}
Service == [name : Sigs, at : Nat, exposure : {"any", "loopback", "lan"},
            confirmed : BOOLEAN, noAuth : BOOLEAN]

IdentifyInit ==
    /\ machine \in {n.there : n \in Networks}
    /\ sockets = <<>>
    /\ next = 1 /\ slot = [p \in Ports |-> None]
    /\ gor = <<>> /\ best = <<>> /\ open = <<>>
    /\ services = {}

\* Listeners: what it shows, and the goroutines there will be for it.
Enumerate ==
    /\ \E n \in Networks : n.there = machine /\ sockets' = n.shown
    /\ gor' = [i \in DOMAIN sockets' |-> "none"]
    /\ best' = [i \in DOMAIN sockets' |-> [sig |-> None, confirmed |-> FALSE]]
    /\ open' = [i \in DOMAIN sockets' |-> FALSE]
    /\ UNCHANGED <<machine, next, slot, services>>

-----------------------------------------------------------------------------
(* PortIndex appends the claimants of a port one at a time, which leaves its
   slice the next power of two of room.  Identify appends the hint of a
   listener to that slice: with room to spare it writes behind the claimants,
   where the goroutines of other listeners on the port look for theirs. *)

\* Mutant: the slices are made with room to grow.
RoomToGrow(n) == n + 1
Room(n) == Min({c \in {0} \cup {2^k : k \in 0..n} : c >= n})

Claims(i) == Claimants[sockets[i].port]
Hint(i) == sockets[i].hint
Shared(i) == Claims(i) # <<>> /\ Room(Len(Claims(i))) > Len(Claims(i))

Candidates(i) ==
    CASE Hint(i) = None -> Claims(i)
      [] Hint(i) # None /\ Shared(i) -> Append(Claims(i), slot[sockets[i].port])
      [] OTHER -> Append(Claims(i), Hint(i))

\* probeHost: whatever the address, the request goes to loopback, so it is answered
\* by the socket bound there, or else by the one bound to every address, whether or
\* not the scan was shown it.
Behind(k) ==
    LET near(a) == {l \in machine : l.addr = a /\ l.six = k.six /\ l.port = k.port}
    IN  IF near("loopback") # {} THEN near("loopback") ELSE near("any")

Looks(i) == UNION {k.looks : k \in Behind(sockets[i])}
Slow(i) == \E k \in Behind(sockets[i]) : k.slow
Opens(i) == UNION {k.opens : k \in Behind(sockets[i])}

\* The first candidate that is in S, as a position; 0 when none is.
FirstIn(cands, S) ==
    LET fit == {k \in DOMAIN cands : cands[k] \in S}
    IN  IF fit = {} THEN 0 ELSE Min(fit)

\* identifyOne: confirmed by a fingerprint, or else by the process, or else because
\* one signature alone claims the port.
Settle(i, answered) ==
    LET cands == Candidates(i)
        k == FirstIn(cands, answered)
    IN  CASE k # 0 -> [sig |-> cands[k], confirmed |-> TRUE]
          [] k = 0 /\ Hint(i) # None -> [sig |-> Hint(i), confirmed |-> FALSE]
          [] k = 0 /\ Hint(i) = None /\ Len(cands) = 1 -> [sig |-> cands[1], confirmed |-> FALSE]
          [] OTHER -> [sig |-> None, confirmed |-> FALSE]

\* Mutant: a high port is noise, confirmed or not.
NoiseByPort(i) == sockets[i].port \in Ephemeral
IsNoise(i) == ~best[i].confirmed /\ sockets[i].port \in Ephemeral

-----------------------------------------------------------------------------
\* The loop of Identify: the hint is appended, the goroutine started.
Spawn ==
    /\ next \in Listeners
    /\ next' = next + 1
    /\ slot' = IF Hint(next) = None THEN slot ELSE [slot EXCEPT ![sockets[next].port] = Hint(next)]
    /\ gor' = [gor EXCEPT ![next] = IF Claims(next) = <<>> /\ Hint(next) = None
                                    THEN "done" ELSE "wait"]
    /\ UNCHANGED <<machine, sockets, best, open, services>>

Talking == {i \in Listeners : gor[i] \in {"probe", "auth", "deposit"}}

Acquire(i) ==
    /\ gor[i] = "wait" /\ Cardinality(Talking) < MaxParallel
    /\ gor' = [gor EXCEPT ![i] = "probe"]
    /\ UNCHANGED <<machine, sockets, next, slot, best, open, services>>

Fingerprint(i) ==
    /\ gor[i] = "probe"
    /\ \E answered \in IF Slow(i) THEN SUBSET Looks(i) ELSE {Looks(i)} :
           best' = [best EXCEPT ![i] = Settle(i, answered)]
    /\ gor' = [gor EXCEPT ![i] = IF best'[i].sig = None THEN "done" ELSE "auth"]
    /\ UNCHANGED <<machine, sockets, next, slot, open, services>>

AskAPI(i) ==
    /\ gor[i] = "auth"
    /\ \E answers \in IF Slow(i) THEN BOOLEAN ELSE {TRUE} :
           open' = [open EXCEPT ![i] = answers /\ best[i].sig \in Opens(i)]
    /\ gor' = [gor EXCEPT ![i] = "deposit"]
    /\ UNCHANGED <<machine, sockets, next, slot, best, services>>

\* The map seen: a service of this name at this address and port is listed.
Listed(i) ==
    \E s \in services : s.name = best[i].sig /\ SameSocket(sockets[s.at], sockets[i])

\* Under the mutex; the semaphore is given back.
Deposit(i) ==
    /\ gor[i] = "deposit"
    /\ gor' = [gor EXCEPT ![i] = "done"]
    /\ services' = IF IsNoise(i) \/ Listed(i) THEN services
                   ELSE services \cup {[name |-> best[i].sig, at |-> i, noAuth |-> open[i],
                                        exposure |-> sockets[i].addr,
                                        confirmed |-> best[i].confirmed]}
    /\ UNCHANGED <<machine, sockets, next, slot, best, open>>

IdentifyNext ==
    \/ Spawn
    \/ \E i \in Listeners : Acquire(i) \/ Fingerprint(i) \/ AskAPI(i) \/ Deposit(i)

Joined == next > Len(sockets) /\ \A i \in Listeners : gor[i] = "done"

-----------------------------------------------------------------------------
\* What a listener comes to when it is looked at alone: the hint is its own.
Alone(i) ==
    LET cands == IF Hint(i) = None THEN Claims(i) ELSE Append(Claims(i), Hint(i))
        k == FirstIn(cands, Looks(i))
        guess == IF Hint(i) # None THEN {Hint(i)}
                 ELSE IF Len(cands) = 1 THEN {cands[1]} ELSE {}
    IN  IF k # 0
        THEN {[name |-> cands[k], at |-> i, confirmed |-> TRUE,
               exposure |-> sockets[i].addr, noAuth |-> cands[k] \in Opens(i)]}
        ELSE {[name |-> g, at |-> i, confirmed |-> FALSE,
               exposure |-> sockets[i].addr, noAuth |-> g \in Opens(i)] :
                  g \in IF sockets[i].port \in Ephemeral THEN {} ELSE guess}

\* In whatever order the goroutines run, wait for one another and finish, a listener
\* whose requests are answered in time is listed as it would be if the scan had been
\* shown no other: none is lost, listed twice, or identified by what was appended for
\* another listener on its port (Identify shares its slices).
EveryAnswerIsListed ==
    Joined => \A i \in Listeners :
                  ~Slow(i) => {s \in services : s.at = i} = Alone(i)
=============================================================================
