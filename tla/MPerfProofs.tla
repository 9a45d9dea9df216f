---------------------------- MODULE MPerfProofs ----------------------------
(***************************************************************************)
(* What the controller of mperf knows of its servers, for any number of    *)
(* processes, clients and requests.                                        *)
(*                                                                         *)
(* The invariant follows the controller through one request.  Until it     *)
(* forks, every server that lives has been told to stop (Told).  Between   *)
(* the locks and the answer, when nothing was left over from before, the   *)
(* only process there is the new one, and SIGUSR1 can only be its own      *)
(* (Lone).  A server that was collected owes the controller no signal      *)
(* (Owed), which is why nothing left over means no late SIGUSR1 either.    *)
(***************************************************************************)
EXTENDS MPerf, TLAPS

Places == {"accept", "parse", "terminate", "kill", "spin", "spun", "complete",
           "receive", "body", "fork", "forked", "wait", "waited", "reply"}
States == {"none", "starting", "configuring", "refusing", "exiting", "opening",
           "ready", "accepting", "accepted", "testing", "zombie", "reaped"}
Process ==
  [state : States, at : {"check", "calling", "blocked"}, sigint : BOOLEAN,
   sigalrm : BOOLEAN, alarm : BOOLEAN, pend : SUBSET {"INT", "TERM"},
   conf : Shared, ok : BOOLEAN, told : BOOLEAN]

\* the types of everything but the clients
Typed ==
  /\ pc \in Places /\ call \in {"none", "blocked", "failed"}
  /\ call # "none" => Reading
  /\ instruction \in {"CONF", "TERM"}
  /\ chldPID \in Pids \cup {-1, 0} /\ forked \in Pids \cup {-1, 0}
  /\ locks \in [Locks -> BOOLEAN] /\ alarm \in BOOLEAN
  /\ ret \in Results /\ message \in Shared
  /\ pending \subseteq {"usr1", "usr2", "chld"}
  /\ server \in [Pids -> Process]

\* a system call, an alarm and a signal belong to a process that can have them
Shape(s) ==
  /\ s.at # "check" => s.state \in {"accepting", "testing"}
  /\ s.alarm => s.state = "testing"
  /\ s.pend # {} => s.state \notin {"none", "reaped", "zombie"}
Shapes == \A p \in Pids : Shape(server[p])

\* a SIGUSR1 under way is that of a process not yet collected
Owed == "usr1" \in pending => \E p \in Pids : Exists(p)

\* SIGUSR1, under way or handled, is the answer of the server just forked
Heard == "usr1" \in pending \/ ~locks["usr1"]
Lone ==
  pc \in {"fork", "forked", "wait", "waited"} /\ ~stale =>
    /\ \A p \in Pids : Exists(p) => pc # "fork" /\ p = forked
    /\ Heard => pc # "fork" /\ forked \in Pids /\ server[forked].ok

\* one of the three locks has ended the wait
Ended == pc = "waited" => \E l \in {"usr1", "usr2", "alrm"} : ~locks[l]

\* from kill() to the store of the new id
Told ==
  pc \in {"spin", "spun", "complete", "receive", "body", "fork", "forked"} =>
    \A p \in Pids : Live(p) => server[p].told \/ (pc = "forked" /\ p = forked)

\* the test chldPID > 0 has been made
Tested == pc \in {"terminate", "kill"} => chldPID # 0

\* chldPID is the last child or none, once its id is stored
Known == pc # "forked" => chldPID \in {forked, -1}

\* the child whose id is not stored yet
Newborn == pc = "forked" /\ forked \in Pids => Exists(forked) \/ forked \in early

Inv ==
  /\ Typed /\ Shapes /\ Owed /\ Lone /\ Ended /\ Told /\ Tested
  /\ Known /\ Newborn /\ SuccessMeansServer /\ OldServersTold /\ DeadChildKnown

-----------------------------------------------------------------------------

(* A process id is not the 0 or the -1 of chldPID.                         *)
LEMMA PidsArePositive == \A p \in Pids : p \in Nat /\ p > 0 /\ p # 0 /\ p # -1
  BY MPerfAssumption

(* The controller starts with no server.                                   *)
LEMMA InitInv == Init => Inv
  <1> SUFFICES ASSUME Init PROVE Inv
    BY Zenon
  <1>1. \A p \in Pids : server[p] = NotStarted
    BY Zenon DEF Init
  <1>2. NotStarted \in Process /\ Shape(NotStarted) /\ NotStarted.state = "none"
    BY Zenon DEF NotStarted, Process, Shape, States, Shared, Messages
  <1>3. \A p \in Pids : ~Exists(p) /\ ~Live(p)
    BY Zenon, <1>1, <1>2 DEF Exists, Live, Is
  <1>4. Typed
    BY Zenon, <1>2 DEF Init, Typed, Reading, Places, Locks, Results, Shared, Messages
  <1>5. Shapes
    BY Zenon, <1>1, <1>2 DEF Shapes
  <1>6. pc = "accept" /\ chldPID = 0 /\ forked = 0 /\ pending = {}
    BY Zenon DEF Init
  <1>7. Owed /\ Lone /\ Ended /\ Told /\ Tested /\ Known /\ Newborn
    BY Zenon, <1>6 DEF Owed, Lone, Ended, Told, Tested, Known, Newborn
  <1> QED
    BY Zenon, <1>3, <1>4, <1>5, <1>6, <1>7, PidsArePositive
    DEF Inv, SuccessMeansServer, OldServersTold, DeadChildKnown

\* Nobody is born, dies, is told or answers when the processes stay as they are.
LEMMA SameServers ==
  ASSUME UNCHANGED server
  PROVE  \A p : (Exists(p)' <=> Exists(p)) /\ (Live(p)' <=> Live(p))
  BY Zenon DEF Exists, Live, Is


\* The clients do not matter to the invariant.
LEMMA ClientInv ==
  ASSUME Inv, UNCHANGED <<controller, message, pending, server, early>>
  PROVE  Inv'
  <1>1. \A p : (Exists(p)' <=> Exists(p)) /\ (Live(p)' <=> Live(p))
    BY Zenon, SameServers
  <1> QED
    BY <1>1 DEF controller, Inv, Typed, Reading, Shapes, Owed, Heard, Lone, Ended, Told, Tested,
      Known, Newborn, SuccessMeansServer, OldServersTold, DeadChildKnown

(* accept() of the controller takes a connection.                          *)
LEMMA MainInv ==
  ASSUME Inv, NEW c \in Clients, main(c)
  PROVE  Inv'
  <1>1. \A p : (Exists(p)' <=> Exists(p)) /\ (Live(p)' <=> Live(p))
    BY Zenon, SameServers DEF main
  <1> QED
    BY <1>1 DEF main, Inv, Typed, Reading, Places, Shapes, Owed, Heard, Lone, Ended, Told, Tested,
      Known, Newborn, SuccessMeansServer, OldServersTold, DeadChildKnown

(* A request is read; without a server there is nothing to terminate.      *)
LEMMA ParseInv ==
  ASSUME Inv, NEW i \in {"CONF", "TERM"}, parse(i)
  PROVE  Inv'
  <1>1. \A p : (Exists(p)' <=> Exists(p)) /\ (Live(p)' <=> Live(p))
    BY Zenon, SameServers DEF parse, world
  <1>2. /\ pc' = IF chldPID > 0 THEN "terminate" ELSE IF i = "CONF" THEN "receive" ELSE "reply"
        /\ call' = "none" /\ alarm' \in BOOLEAN
        /\ UNCHANGED <<chldPID, forked, locks, message, stale, pending, server, early>>
        /\ instruction' = i /\ ret' = "SUCC"
    BY Zenon DEF parse, FirstStep, Terminated, world
  <1>3. Typed' /\ Shapes' /\ Owed'
    BY Zenon, <1>1, <1>2 DEF Inv, Typed, Reading, Places, Results, Shapes, Owed
  <1>4. Lone' /\ Ended' /\ Known' /\ Newborn'
    BY Zenon, <1>2 DEF parse, Inv, Lone, Ended, Known, Newborn
  <1>5. Tested'
    BY <1>2 DEF Tested
  <1>6. Told'
    <2>1. CASE pc' = "receive"
      <3>1. \A p \in Pids : p # chldPID
        BY Zenon, <1>2, <2>1, PidsArePositive
      <3> QED
        BY Zenon, <1>1, <1>2, <2>1, <3>1 DEF parse, Inv, OldServersTold, Told
    <2> QED
      BY Zenon, <1>2, <2>1 DEF Told
  <1>7. SuccessMeansServer' /\ OldServersTold' /\ DeadChildKnown'
    BY Zenon, <1>1, <1>2 DEF parse, Inv, SuccessMeansServer, OldServersTold, DeadChildKnown
  <1> QED
    BY Zenon, <1>3, <1>4, <1>5, <1>6, <1>7 DEF Inv

(* A request that cannot be read changes no process.                       *)
LEMMA ParseFailsInv ==
  ASSUME Inv, parseFails
  PROVE  Inv'
  <1>1. \A p : (Exists(p)' <=> Exists(p)) /\ (Live(p)' <=> Live(p))
    BY Zenon, SameServers DEF parseFails
  <1> QED
    BY <1>1 DEF parseFails, Inv, Typed, Reading, Places, Shapes, Owed, Heard, Lone, Ended, Told,
      Tested, Known, Newborn, SuccessMeansServer, OldServersTold, DeadChildKnown

(* rTerminate() takes the locks and sets the alarm before it kills.        *)
LEMMA TerminateInv ==
  ASSUME Inv, rTerminate
  PROVE  Inv'
  <1>1. \A p : (Exists(p)' <=> Exists(p)) /\ (Live(p)' <=> Live(p))
    BY Zenon, SameServers DEF rTerminate, world
  <1> QED
    BY Zenon, <1>1 DEF rTerminate, LockAndArm, world, Inv, Typed, Reading, Places, Locks, Shapes, Owed,
      Heard, Lone, Ended, Told, Tested, Known, Newborn, SuccessMeansServer, OldServersTold,
      DeadChildKnown

(* What a signal of the controller does to a process.                      *)
LEMMA HitIs ==
  ASSUME NEW s \in Process, NEW sig \in {"INT", "TERM"}
  PROVE  LET u == [s EXCEPT !.pend = @ \cup {sig}, !.told = TRUE]
         IN /\ u \in Process /\ u.state = s.state /\ u.told
            /\ u.ok = s.ok /\ u.at = s.at /\ u.alarm = s.alarm
  BY Zenon DEF Process

\* A signal changes what a process has pending and that it was told, no more.
LEMMA KillIs ==
  ASSUME Typed, Shapes, NEW pid, NEW sig \in {"INT", "TERM"}, rKill(pid, sig)
  PROVE  /\ server' \in [Pids -> Process]
         /\ Shapes'
         /\ ret' \in {"SUCC", "EKILL"}
         /\ \A p \in Pids : /\ (Exists(p)' <=> Exists(p)) /\ (Live(p)' <=> Live(p))
                            /\ server[p].ok => server'[p].ok
                            /\ server[p].told => server'[p].told
                            /\ Live(p) /\ pid \in {p, -1} => server'[p].told
  <1> DEFINE hit(p) == [server[p] EXCEPT !.pend = @ \cup {sig}, !.told = TRUE]
  <1>1. \A p \in Pids :
          /\ server[p] \in Process
          /\ server'[p] = IF Live(p) /\ pid \in {p, -1} THEN hit(p) ELSE server[p]
    BY Zenon DEF Typed, rKill
  <1>2. \A p \in Pids :
          /\ hit(p) \in Process /\ hit(p).state = server[p].state /\ hit(p).told
          /\ hit(p).ok = server[p].ok /\ hit(p).at = server[p].at
          /\ hit(p).alarm = server[p].alarm
    BY Zenon, <1>1, HitIs
  <1> HIDE DEF hit
  <1>3. server' \in [Pids -> Process]
    <2>1. server' = [p \in Pids |-> server'[p]]
      BY Zenon DEF rKill
    <2> QED
      BY Zenon, <1>1, <1>2, <2>1
  <1>4. \A p \in Pids : server'[p].state = server[p].state
    BY Zenon, <1>1, <1>2
  <1>5. Shapes'
    <2> SUFFICES ASSUME NEW p \in Pids PROVE Shape(server'[p])
      BY Zenon DEF Shapes
    <2>1. Shape(server[p])
      BY Zenon DEF Shapes
    <2>2. CASE Live(p) /\ pid \in {p, -1}
      BY <1>1, <1>2, <2>1, <2>2 DEF Shape, Live, Exists, Is
    <2> QED
      BY Zenon, <1>1, <2>1, <2>2
  <1>6. ret' \in {"SUCC", "EKILL"}
    <2>1. CASE pid \in Pids
      BY Zenon, <2>1 DEF rKill
    <2>2. CASE pid \notin Pids
      BY Zenon, <2>2 DEF rKill
    <2> QED
      BY Zenon, <2>1, <2>2
  <1>7. \A p \in Pids : (Exists(p)' <=> Exists(p)) /\ (Live(p)' <=> Live(p))
    BY Zenon, <1>4 DEF Live, Exists, Is
  <1> QED
    BY Zenon, <1>1, <1>2, <1>3, <1>5, <1>6, <1>7

(* kill(chldPID, SIGINT), with which a request begins.                     *)
LEMMA KillInv ==
  ASSUME Inv, killSIGINT
  PROVE  Inv'
  <1>1. PICK pid \in {chldPID, forked} : rKill(pid, "INT")
    BY Zenon DEF killSIGINT
  <1>2. /\ server' \in [Pids -> Process]
        /\ Shapes'
        /\ ret' \in {"SUCC", "EKILL"}
        /\ \A p \in Pids : /\ (Exists(p)' <=> Exists(p)) /\ (Live(p)' <=> Live(p))
                           /\ server[p].ok => server'[p].ok
                           /\ server[p].told => server'[p].told
                           /\ Live(p) /\ pid \in {p, -1} => server'[p].told
    BY ONLY Zenon, <1>1, KillIs, Inv DEF Inv
  <1>3. /\ pc = "kill" /\ pc' = (IF ret' = "SUCC" THEN "spin" ELSE "reply")
        /\ alarm' = (alarm /\ ret' = "SUCC")
        /\ UNCHANGED <<call, instruction, chldPID, forked, locks, message, stale, pending, early>>
    BY Zenon DEF killSIGINT
  <1>4. Typed'
    BY Zenon, <1>2, <1>3 DEF Inv, Typed, Reading, Places, Results
  <1>5. Owed' /\ Lone' /\ Ended' /\ Tested' /\ Known' /\ Newborn' /\ SuccessMeansServer'
    BY Zenon, <1>2, <1>3 DEF Inv, Owed, Lone, Ended, Tested, Known,
      Newborn, SuccessMeansServer
  <1>6. Told'
    <2>1. pid = chldPID \/ chldPID = -1
      BY Zenon, <1>3 DEF Inv, Known
    <2> QED
      BY Zenon, <1>2, <1>3, <2>1, PidsArePositive DEF Inv, Told, OldServersTold
  <1>7. OldServersTold' /\ DeadChildKnown'
    BY Zenon, <1>2, <1>3 DEF Inv, OldServersTold, DeadChildKnown
  <1> QED
    BY Zenon, <1>2, <1>4, <1>5, <1>6, <1>7 DEF Inv

(* kill(chldPID, SIGTERM), when SIGINT did not end it and -k is given.     *)
LEMMA CompleteInv ==
  ASSUME Inv, killSIGTERM
  PROVE  Inv'
  <1>1. PICK pid \in {chldPID, forked} : rKill(pid, "TERM")
    BY Zenon DEF killSIGTERM
  <1>2. /\ server' \in [Pids -> Process]
        /\ Shapes'
        /\ ret' \in {"SUCC", "EKILL"}
        /\ \A p \in Pids : /\ (Exists(p)' <=> Exists(p)) /\ (Live(p)' <=> Live(p))
                           /\ server[p].ok => server'[p].ok
                           /\ server[p].told => server'[p].told
    BY ONLY Zenon, <1>1, KillIs, Inv DEF Inv
  <1>3. /\ pc = "complete"
        /\ pc' = (IF ret' = "SUCC" THEN IF instruction = "CONF" THEN "receive" ELSE "reply"
                  ELSE "reply")
        /\ UNCHANGED <<call, instruction, chldPID, forked, locks, message, stale, pending, early>>
        /\ alarm' \in BOOLEAN
    BY Zenon DEF killSIGTERM, Terminated
  <1>4. Typed'
    BY Zenon, <1>2, <1>3 DEF Inv, Typed, Reading, Places, Results
  <1>5. Owed' /\ Lone' /\ Ended' /\ Tested' /\ Known' /\ Newborn' /\ SuccessMeansServer'
    BY Zenon, <1>2, <1>3 DEF Inv, Owed, Lone, Ended, Tested, Known, Newborn, SuccessMeansServer
  <1>6. Told'
    BY Zenon, <1>2, <1>3 DEF Inv, Told
  <1>7. OldServersTold' /\ DeadChildKnown'
    BY Zenon, <1>2, <1>3 DEF Inv, OldServersTold, DeadChildKnown
  <1> QED
    BY Zenon, <1>2, <1>4, <1>5, <1>6, <1>7 DEF Inv

\* The spin loop of rTerminate and what follows it.
LEMMA SpinInv ==
  ASSUME Inv, spinAND \/ spun
  PROVE  Inv'
  <1>1. UNCHANGED <<call, instruction, chldPID, forked, locks, ret, message, stale, world>>
    BY Zenon DEF spinAND, spun
  <1>2. \A p : (Exists(p)' <=> Exists(p)) /\ (Live(p)' <=> Live(p))
    BY Zenon, <1>1, SameServers DEF world
  <1>3. /\ pc \in {"spin", "spun"} /\ alarm' \in BOOLEAN
        /\ pc' \in {"spun", "complete", "receive", "reply"}
        /\ pc' = "reply" => instruction = "TERM"
    BY Zenon DEF spinAND, spun, Terminated, Inv, Typed
  <1> QED
    BY <1>1, <1>2, <1>3 DEF world, Inv, Typed, Reading, Places, Shapes, Owed, Heard, Lone, Ended,
      Told, Tested, Known, Newborn, SuccessMeansServer, OldServersTold, DeadChildKnown

(* A configuration that does not arrive.                                   *)
LEMMA ReceiveInv ==
  ASSUME Inv, receiveFails
  PROVE  Inv'
  <1>1. \A p : (Exists(p)' <=> Exists(p)) /\ (Live(p)' <=> Live(p))
    BY Zenon, SameServers DEF receiveFails, world
  <1> QED
    BY <1>1 DEF receiveFails, world, Inv, Typed, Reading, Places, Results, Shapes, Owed, Heard, Lone,
      Ended, Told, Tested, Known, Newborn, SuccessMeansServer, OldServersTold, DeadChildKnown

\* A step inside rRecvBytes and rReceiveMessage that ends neither.
LEMMA StillReading ==
  ASSUME Inv, Typed', Reading, pc' = pc \/ (pc = "receive" /\ pc' = "body"),
         UNCHANGED <<chldPID, forked, locks, ret, message, stale, world>>
  PROVE  Inv'
  <1>1. \A p : (Exists(p)' <=> Exists(p)) /\ (Live(p)' <=> Live(p))
    BY Zenon, SameServers DEF world
  <1>2. /\ pc' \notin {"accept", "terminate", "kill", "spin", "spun", "complete", "fork",
                       "forked", "wait", "waited", "reply"}
        /\ pc \notin {"forked", "reply"}
        /\ pc' \in {"receive", "body"} => pc \in {"receive", "body"}
    BY Zenon DEF Reading
  <1>3. Shapes' /\ Owed'
    BY Zenon, <1>1 DEF Inv, Shapes, Shape, Owed, world
  <1>4. Lone' /\ Ended' /\ Tested' /\ Newborn'
    BY Zenon, <1>2 DEF Lone, Ended, Tested, Newborn
  <1>5. Told'
    BY Zenon, <1>1, <1>2 DEF Inv, Told, world
  <1>6. Known'
    BY Zenon, <1>2 DEF Inv, Known
  <1>7. SuccessMeansServer' /\ OldServersTold' /\ DeadChildKnown'
    BY Zenon, <1>1, <1>2 DEF Inv, SuccessMeansServer, OldServersTold, DeadChildKnown, world
  <1> QED
    BY Zenon, <1>3, <1>4, <1>5, <1>6, <1>7 DEF Inv

(* Calls of read() that bring nothing to act upon, or nothing at all.       *)
LEMMA ReadInv ==
  ASSUME Inv, enterRead \/ readSome \/ readLength \/ readFails
  PROVE  Inv'
  <1>1. UNCHANGED <<instruction, chldPID, forked, locks, alarm, ret, message, stale, world>>
    BY Zenon DEF enterRead, readSome, readLength, readFails
  <1>2. /\ Reading /\ call' \in {"none", "blocked", "failed"}
        /\ pc' = pc \/ (pc = "receive" /\ pc' = "body")
    BY Zenon DEF enterRead, readSome, readLength, readFails, Reading
  <1>3. Typed'
    BY Zenon, <1>1, <1>2 DEF Inv, Typed, Reading, Places, world
  <1> QED
    BY Zenon, <1>1, <1>2, <1>3, StillReading

(* The alarm of the reads releases no lock.                                 *)
LEMMA TimeoutInv ==
  ASSUME Inv, timeoutHandler
  PROVE  Inv'
  <1>1. /\ UNCHANGED <<pc, instruction, chldPID, forked, locks, ret, message, stale, world>>
        /\ Reading /\ alarm' = FALSE /\ call' = IF call = "blocked" THEN "failed" ELSE call
    BY Zenon DEF timeoutHandler, Interrupted
  <1>2. Typed'
    BY Zenon, <1>1 DEF Inv, Typed, Reading, world
  <1> QED
    BY Zenon, <1>1, <1>2, StillReading

\* The locks are set before fork(), and nothing left over means no late SIGUSR1.
LEMMA ConfigureInv ==
  ASSUME Inv, NEW m \in Messages, doConfigure(m)
  PROVE  Inv'
  <1>1. \A p : (Exists(p)' <=> Exists(p)) /\ (Live(p)' <=> Live(p))
    BY Zenon, SameServers DEF doConfigure, world
  <1>2. /\ pc = "body" /\ pc' = "fork" /\ call' = "none" /\ message' = m
        /\ locks' = [l \in Locks |-> l \in {"usr1", "usr2", "alrm"} \/ locks[l]]
        /\ alarm' = TRUE
        /\ stale' = (\E p \in Pids : Exists(p))
        /\ UNCHANGED <<instruction, chldPID, forked, ret, pending, server, early>>
    BY Zenon DEF doConfigure, LockAndArm, world
  <1>3. Typed' /\ Shapes' /\ Owed' /\ locks'["usr1"]
    BY Zenon, <1>1, <1>2 DEF Inv, Typed, Reading, Places, Shared, Locks, Shapes, Owed
  <1>4. Lone'
    BY Zenon, <1>1, <1>2, <1>3 DEF Inv, Owed, Lone, Heard
  <1>5. Ended' /\ Tested' /\ Known' /\ Newborn' /\ SuccessMeansServer'
    BY Zenon, <1>2 DEF Inv, Ended, Tested, Known, Newborn, SuccessMeansServer
  <1>6. Told' /\ OldServersTold' /\ DeadChildKnown'
    BY Zenon, <1>1, <1>2 DEF Inv, Told, OldServersTold, DeadChildKnown
  <1> QED
    BY Zenon, <1>3, <1>4, <1>5, <1>6 DEF Inv

\* The child is there, and its id is not stored.
LEMMA ForkInv ==
  ASSUME Inv, NEW p \in Pids, backupFork(p)
  PROVE  Inv'
  <1> DEFINE s == [server[p] EXCEPT !.state = "starting"]
  <1>1. /\ pc = "fork" /\ pc' = "forked" /\ forked' = p
        /\ server' = [server EXCEPT ![p] = s]
        /\ UNCHANGED <<call, instruction, chldPID, locks, alarm, ret, message, stale, pending, early>>
    BY Zenon DEF backupFork
  <1>2. server[p] \in Process /\ Shape(server[p]) /\ server[p].state = "none"
    BY Zenon DEF Inv, Typed, Shapes, backupFork, Is
  <1>3. /\ s \in Process /\ s.state = "starting" /\ s.ok = server[p].ok
        /\ s.at = server[p].at /\ s.alarm = server[p].alarm /\ s.pend = server[p].pend
    BY Zenon, <1>2 DEF Process, States
  <1>4. Shape(s)
    BY Zenon, <1>2, <1>3 DEF Shape
  <1> HIDE DEF s
  <1>5. server \in [Pids -> Process]
    BY Zenon DEF Inv, Typed
  <1>6. server'[p] = s /\ \A q \in Pids \ {p} : server'[q] = server[q]
    BY Zenon, <1>1, <1>5
  <1>7. /\ Exists(p)' /\ Live(p)'
        /\ \A q \in Pids \ {p} : (Exists(q)' <=> Exists(q)) /\ (Live(q)' <=> Live(q))
    BY Zenon, <1>3, <1>6 DEF Exists, Live, Is
  <1>8. Typed'
    BY Zenon, <1>1, <1>3, <1>5 DEF Inv, Typed, Reading, Places
  <1>9. Shapes'
    BY Zenon, <1>4, <1>6 DEF Inv, Shapes
  <1>10. Owed' /\ Ended' /\ Tested' /\ Known' /\ Newborn' /\ SuccessMeansServer'
    BY Zenon, <1>1, <1>7 DEF Inv, Owed, Ended, Tested, Known, Newborn, SuccessMeansServer
  <1>11. Lone'
    BY Zenon, <1>1, <1>7 DEF Inv, Lone, Heard
  <1>12. Told' /\ OldServersTold'
    BY Zenon, <1>1, <1>6, <1>7 DEF Inv, Told, OldServersTold
  <1>13. DeadChildKnown'
    BY Zenon, <1>1, <1>7 DEF Inv, DeadChildKnown
  <1> QED
    BY Zenon, <1>8, <1>9, <1>10, <1>11, <1>12, <1>13 DEF Inv

(* A fork() that fails leaves no new process.                              *)
LEMMA ForkFailsInv ==
  ASSUME Inv, forkFails
  PROVE  Inv'
  <1>1. \A p : (Exists(p)' <=> Exists(p)) /\ (Live(p)' <=> Live(p))
    BY Zenon, SameServers DEF forkFails, world
  <1> QED
    BY Zenon, <1>1, PidsArePositive DEF forkFails, world, Inv, Typed, Reading, Places, Shapes, Owed, Heard,
      Lone, Ended, Told, Tested, Known, Newborn, SuccessMeansServer, OldServersTold, DeadChildKnown

(* backupFork() stores the id of the new server.                           *)
LEMMA StoreInv ==
  ASSUME Inv, storePID
  PROVE  Inv'
  <1>1. \A p : (Exists(p)' <=> Exists(p)) /\ (Live(p)' <=> Live(p))
    BY Zenon, SameServers DEF storePID, world
  <1> QED
    BY <1>1 DEF storePID, world, Inv, Typed, Reading, Places, Shapes, Owed, Heard, Lone, Ended, Told,
      Tested, Known, Newborn, SuccessMeansServer, OldServersTold, DeadChildKnown

(* spinAND3() ends: one of the three locks is open.                        *)
LEMMA WaitInv ==
  ASSUME Inv, spinAND3
  PROVE  Inv'
  <1>1. \A p : (Exists(p)' <=> Exists(p)) /\ (Live(p)' <=> Live(p))
    BY Zenon, SameServers DEF spinAND3, world
  <1> QED
    BY <1>1 DEF spinAND3, world, Inv, Typed, Reading, Places, Shapes, Owed, Heard, Lone, Ended, Told,
      Tested, Known, Newborn, SuccessMeansServer, OldServersTold, DeadChildKnown

\* Success: neither SIGUSR2 nor the alarm, so SIGUSR1 ended the wait.
LEMMA WaitedInv ==
  ASSUME Inv, waited
  PROVE  Inv'
  <1>1. \A p : (Exists(p)' <=> Exists(p)) /\ (Live(p)' <=> Live(p))
    BY Zenon, SameServers DEF waited, world
  <1>2. /\ pc = "waited" /\ pc' = "reply" /\ alarm' = FALSE /\ ret' = Outcome
        /\ UNCHANGED <<call, instruction, chldPID, forked, locks, message, stale, pending, server,
                       early>>
    BY Zenon DEF waited, world
  <1>3. locks["usr2"] \in BOOLEAN /\ locks["alrm"] \in BOOLEAN
    BY Zenon DEF Inv, Typed, Locks
  <1>4. Outcome \in Results /\ (Outcome = "SUCC" => locks["usr2"] /\ locks["alrm"])
    BY Zenon, <1>3 DEF Outcome, Results
  <1>5. ret' = "SUCC" => ~locks["usr1"]
    BY Zenon, <1>2, <1>4 DEF Inv, Ended
  <1>6. SuccessMeansServer'
    BY Zenon, <1>2, <1>5 DEF Inv, Lone, Heard, SuccessMeansServer
  <1>7. Typed' /\ Shapes' /\ Owed'
    BY Zenon, <1>1, <1>2, <1>4 DEF Inv, Typed, Reading, Places, Shapes, Owed
  <1> QED
    BY Zenon, <1>1, <1>2, <1>6, <1>7 DEF Inv, Lone, Ended, Told, Tested, Known, Newborn, OldServersTold,
      DeadChildKnown

(* The controller answers the client and goes back to accept().            *)
LEMMA ReplyInv ==
  ASSUME Inv, NEW arrives \in BOOLEAN, reply(arrives)
  PROVE  Inv'
  <1>1. \A p : (Exists(p)' <=> Exists(p)) /\ (Live(p)' <=> Live(p))
    BY Zenon, SameServers DEF reply
  <1> QED
    BY <1>1 DEF reply, Inv, Typed, Reading, Places, Shapes, Owed, Heard, Lone, Ended, Told, Tested,
      Known, Newborn, SuccessMeansServer, OldServersTold, DeadChildKnown
\* The controller's alarm releases one lock.
LEMMA AlarmInv ==
  ASSUME Inv, sigalrmHandler
  PROVE  Inv'
  <1>1. \A p : (Exists(p)' <=> Exists(p)) /\ (Live(p)' <=> Live(p))
    BY Zenon, SameServers DEF sigalrmHandler, world
  <1>2. /\ locks' = [locks EXCEPT !["alrm"] = FALSE] /\ alarm' = FALSE
        /\ UNCHANGED <<pc, call, instruction, chldPID, forked, ret, message, stale, pending, server,
                       early>>
    BY Zenon DEF sigalrmHandler, world
  <1>3. /\ locks' \in [Locks -> BOOLEAN] /\ locks'["usr1"] = locks["usr1"]
        /\ \A l \in Locks : ~locks[l] => ~locks'[l]
    BY Zenon, <1>2 DEF Inv, Typed, Locks
  <1>4. Typed' /\ Shapes' /\ Owed'
    BY Zenon, <1>1, <1>2, <1>3 DEF Inv, Typed, Reading, Shapes, Owed
  <1>5. Lone' /\ Ended'
    BY Zenon, <1>1, <1>2, <1>3 DEF Inv, Lone, Heard, Ended, Locks
  <1> QED
    BY Zenon, <1>1, <1>2, <1>4, <1>5 DEF Inv, Told, Tested, Known, Newborn, SuccessMeansServer,
      OldServersTold, DeadChildKnown

\* The children that sigchldHandler collects, and nothing else, are gone.
LEMMA ReapIs ==
  ASSUME Typed, Shapes, NEW reaped, reaped \subseteq Zombies,
         server' = [p \in Pids |-> IF p \in reaped THEN [server[p] EXCEPT !.state = "reaped"]
                                   ELSE server[p]]
  PROVE  /\ server' \in [Pids -> Process]
         /\ Shapes'
         /\ \A p \in Pids : /\ Exists(p)' <=> Exists(p) /\ p \notin reaped
                            /\ Live(p)' <=> Live(p)
                            /\ server'[p].ok = server[p].ok
                            /\ server'[p].told = server[p].told
  <1> SUFFICES ASSUME NEW p \in Pids
               PROVE  /\ server'[p] \in Process /\ Shape(server'[p])
                      /\ Exists(p)' <=> Exists(p) /\ p \notin reaped
                      /\ Live(p)' <=> Live(p)
                      /\ server'[p].ok = server[p].ok
                      /\ server'[p].told = server[p].told
    BY Zenon DEF Shapes
  <1>1. server[p] \in Process /\ Shape(server[p])
    BY Zenon DEF Typed, Shapes
  <1>2. CASE p \in reaped
    <2> DEFINE s == [server[p] EXCEPT !.state = "reaped"]
    <2>1. /\ s \in Process /\ s.state = "reaped" /\ s.ok = server[p].ok
          /\ s.told = server[p].told /\ s.at = server[p].at /\ s.alarm = server[p].alarm
          /\ s.pend = server[p].pend
      BY Zenon, <1>1 DEF Process, States
    <2>2. server'[p] = s
      BY Zenon, <1>2
    <2>3. server[p].state = "zombie"
      BY Zenon, <1>2 DEF Zombies, Is
    <2> HIDE DEF s
    <2> QED
      BY Zenon, <1>1, <1>2, <2>1, <2>2, <2>3 DEF Shape, Exists, Live, Is
  <1>3. CASE p \notin reaped
    BY Zenon, <1>1, <1>3 DEF Exists, Live, Is
  <1> QED
    BY Zenon, <1>2, <1>3

\* Handlers release locks and collect children, in one go.
LEMMA HandleInv ==
  ASSUME Inv, HandleSignals
  PROVE  Inv'
  <1> DEFINE reaped == IF "chld" \in pending THEN Zombies ELSE {}
  <1>1. /\ locks' = [l \in Locks |-> locks[l] /\ l \notin pending] /\ pending' = {}
        /\ UNCHANGED <<pc, instruction, forked, alarm, ret, message, stale>>
        /\ call' = IF call = "blocked" THEN "failed" ELSE call
    BY Zenon DEF HandleSignals, Interrupted
  <1>2. /\ server' = [p \in Pids |-> IF p \in reaped
                                     THEN [server[p] EXCEPT !.state = "reaped"] ELSE server[p]]
        /\ chldPID' = IF chldPID \in reaped THEN -1 ELSE chldPID
        /\ early' = early \cup (IF pc = "forked" THEN {forked} \cap reaped ELSE {})
    <2>1. CASE "chld" \in pending
      <3>1. sigchldHandler
        BY Zenon, <2>1 DEF HandleSignals
      <3>2. (IF Zombies = {} THEN {} ELSE Reaped(Zombies)) = reaped
        BY Zenon, <2>1 DEF Reaped
      <3> QED
        BY Zenon, <3>1, <3>2 DEF sigchldHandler, ForgetChild
    <2>2. CASE "chld" \notin pending
      <3>1. UNCHANGED <<server, chldPID, early>>
        BY Zenon, <2>2 DEF HandleSignals
      <3>2. server \in [Pids -> Process]
        BY Zenon DEF Inv, Typed
      <3> QED
        BY Zenon, <2>2, <3>1, <3>2
    <2> QED
      BY Zenon, <2>1, <2>2
  <1>3. reaped \subseteq Zombies
    BY Zenon
  <1> HIDE DEF reaped
  <1>4. /\ server' \in [Pids -> Process]
        /\ Shapes'
        /\ \A p \in Pids : /\ Exists(p)' <=> Exists(p) /\ p \notin reaped
                           /\ Live(p)' <=> Live(p)
                           /\ server'[p].ok = server[p].ok
                           /\ server'[p].told = server[p].told
    BY ONLY Zenon, <1>2, <1>3, ReapIs, Inv DEF Inv
  <1>5. reaped \subseteq Pids /\ \A p \in reaped : ~Live(p)
    BY Zenon, <1>3 DEF Zombies, Live, Exists, Is
  <1>6. /\ locks' \in [Locks -> BOOLEAN] /\ \A l \in Locks : ~locks[l] => ~locks'[l]
        /\ ~locks'["usr1"] => Heard
    BY Zenon, <1>1 DEF Inv, Typed, Locks, Heard
  <1>7. Typed'
    BY Zenon, <1>1, <1>2, <1>4, <1>6 DEF Inv, Typed, Reading
  <1>8. Owed' /\ Ended' /\ Tested'
    BY <1>1, <1>2, <1>6 DEF Inv, Owed, Ended, Locks, Tested
  <1>9. Lone'
    BY Zenon, <1>1, <1>4, <1>6 DEF Inv, Typed, Lone, Heard
  <1>10. Told' /\ OldServersTold'
    BY Zenon, <1>1, <1>2, <1>4, <1>5 DEF Inv, Told, OldServersTold
  <1>11. Known' /\ Newborn' /\ DeadChildKnown'
    BY Zenon, <1>1, <1>2, <1>4, <1>5, PidsArePositive DEF Inv, Known, Newborn,
      DeadChildKnown
  <1>12. SuccessMeansServer'
    BY Zenon, <1>1, <1>4 DEF Inv, SuccessMeansServer
  <1> QED
    BY Zenon, <1>4, <1>7, <1>8, <1>9, <1>10, <1>11, <1>12 DEF Inv

-----------------------------------------------------------------------------
(* The servers.                                                            *)

\* What any step of a server comes to: it stays a process, a life it keeps is
\* one it had, what it accepted and what it was told stay, and it sends SIGUSR1
\* only as one that accepted its arguments.
Moves(p, s) ==
  /\ server' = [server EXCEPT ![p] = s]
  /\ s \in Process /\ Shape(s)
  /\ Exists(p) /\ s.state \notin {"none", "reaped"}
  /\ s.state # "zombie" => Live(p) /\ s.told = server[p].told
  /\ server[p].ok => s.ok
  /\ pending \subseteq pending' /\ pending' \subseteq {"usr1", "usr2", "chld"}
  /\ "usr1" \in pending' => "usr1" \in pending \/ s.ok

(* Any move of one server keeps the invariant.                             *)
LEMMA MovesInv ==
  ASSUME Inv, NEW p \in Pids, NEW s, Moves(p, s), UNCHANGED <<controller, early>>,
         message' \in Shared
  PROVE  Inv'
  <1>1. /\ server' = [server EXCEPT ![p] = s] /\ s \in Process /\ Shape(s) /\ Exists(p)
        /\ server[p].ok => s.ok
        /\ pending' \subseteq {"usr1", "usr2", "chld"}
        /\ "usr1" \in pending' => "usr1" \in pending \/ s.ok
    BY Zenon DEF Moves
  <1>2. server \in [Pids -> Process]
    BY Zenon DEF Inv, Typed
  <1>3. server'[p] = s /\ \A q \in Pids \ {p} : server'[q] = server[q]
    BY Zenon, <1>1, <1>2
  <1>4. \A q \in Pids : /\ Exists(q)' <=> Exists(q)
                        /\ Live(q)' => Live(q) /\ server'[q].told = server[q].told
                        /\ server[q].ok => server'[q].ok
    BY Zenon, <1>3 DEF Moves, Exists, Live, Is
  <1>5. UNCHANGED <<pc, call, instruction, chldPID, forked, locks, alarm, ret, stale, early>>
    BY Zenon DEF controller
  <1>6. Typed' /\ Shapes'
    BY Zenon, <1>1, <1>2, <1>3, <1>5 DEF Inv, Typed, Reading, Shapes
  <1>7. Owed'
    BY Zenon, <1>1, <1>4 DEF Inv, Owed
  <1>8. Lone'
    BY Zenon, <1>1, <1>3, <1>4, <1>5 DEF Inv, Lone, Heard
  <1>9. Ended' /\ Tested' /\ Known' /\ Newborn'
    BY Zenon, <1>4, <1>5 DEF Inv, Typed, Ended, Tested, Known, Newborn
  <1>10. Told' /\ OldServersTold' /\ DeadChildKnown'
    BY Zenon, <1>4, <1>5 DEF Inv, Typed, Told, OldServersTold, DeadChildKnown
  <1>11. SuccessMeansServer'
    BY Zenon, <1>4, <1>5 DEF Inv, SuccessMeansServer
  <1> QED
    BY Zenon, <1>6, <1>7, <1>8, <1>9, <1>10, <1>11 DEF Inv

(* What a process that has ended looks like.                               *)
LEMMA ExitedIs ==
  ASSUME NEW s \in Process
  PROVE  /\ Exited(s) \in Process /\ Shape(Exited(s))
         /\ Exited(s).state = "zombie" /\ Exited(s).ok = s.ok
  BY Zenon DEF Process, Exited, Shape, States, Shared, Messages

(* exit() is a move of a server.                                           *)
LEMMA ExitMoves ==
  ASSUME Inv, NEW p \in Pids, Live(p), Exit(p)
  PROVE  Moves(p, Exited(server[p]))
  <1>1. server[p] \in Process
    BY Zenon DEF Inv, Typed
  <1>2. /\ Exited(server[p]) \in Process /\ Shape(Exited(server[p]))
        /\ Exited(server[p]).state = "zombie" /\ Exited(server[p]).ok = server[p].ok
    BY Zenon, <1>1, ExitedIs
  <1> QED
    BY Zenon, <1>2 DEF Inv, Typed, Exit, Moves, Live

\* A step that sends nothing and keeps the process alive.
LEMMA BecomesMoves ==
  ASSUME Inv, NEW p \in Pids, Live(p), NEW s \in Process, Shape(s), Becomes(p, s),
         s.state \notin {"none", "reaped", "zombie"}, s.told = server[p].told,
         s.ok = server[p].ok
  PROVE  Moves(p, s)
  BY Zenon DEF Inv, Typed, Becomes, Moves, Live

\* the server as one field after the other changes
LEMMA FieldsAre ==
  ASSUME NEW s \in Process
  PROVE  /\ \A st \in States :
              LET u == [s EXCEPT !.state = st]
              IN /\ u \in Process /\ u.state = st /\ u.at = s.at /\ u.alarm = s.alarm
                 /\ u.pend = s.pend /\ u.told = s.told /\ u.ok = s.ok
         /\ \A at \in {"check", "calling", "blocked"} :
              LET u == [s EXCEPT !.at = at]
              IN /\ u \in Process /\ u.state = s.state /\ u.at = at /\ u.alarm = s.alarm
                 /\ u.pend = s.pend /\ u.told = s.told /\ u.ok = s.ok
  BY Zenon DEF Process

\* A handler has run: the system call goes on, or it ends, or the test does.
LEMMA InterruptMoves ==
  ASSUME Inv, NEW p \in Pids, Live(p), NEW s \in Process, Shape(s), Interrupt(p, s),
         s.state = server[p].state, s.told = server[p].told, s.ok = server[p].ok
  PROVE  \E u : Moves(p, u)
  <1>1. s.state \notin {"none", "reaped", "zombie"}
    BY Zenon DEF Live, Exists, Is
  <1>2. CASE Becomes(p, s)
    BY Zenon, <1>1, <1>2, BecomesMoves
  <1>3. CASE Exit(p)
    BY Zenon, <1>3, ExitMoves
  <1>4. CASE s.state = "accepting" /\ Becomes(p, [s EXCEPT !.at = "check"])
    <2> DEFINE u == [s EXCEPT !.at = "check"]
    <2>1. /\ u \in Process /\ u.state = s.state /\ u.at = "check" /\ u.alarm = s.alarm
          /\ u.pend = s.pend /\ u.told = s.told /\ u.ok = s.ok
      BY Zenon, FieldsAre
    <2>2. Becomes(p, u)
      BY Zenon, <1>4
    <2> HIDE DEF u
    <2>3. Shape(u)
      BY Zenon, <2>1 DEF Shape
    <2> QED
      BY Zenon, <1>1, <2>1, <2>2, <2>3, BecomesMoves
  <1>5. s.at = "blocked" => s.state \in {"accepting", "testing"}
    BY Zenon DEF Shape
  <1> QED
    BY Zenon, <1>2, <1>3, <1>4, <1>5 DEF Interrupt
\* the two handlers' effects on a process
LEMMA HandledIs ==
  ASSUME NEW s \in Process, Shape(s)
  PROVE  LET u == [s EXCEPT !.sigint = FALSE, !.pend = {}]
             v == [s EXCEPT !.sigalrm = FALSE, !.alarm = FALSE]
         IN /\ u \in Process /\ Shape(u) /\ u.state = s.state /\ u.told = s.told /\ u.ok = s.ok
            /\ v \in Process /\ Shape(v) /\ v.state = s.state /\ v.told = s.told /\ v.ok = s.ok
  BY Zenon DEF Process, Shape

(* A server that a signal or its alarm ends makes a move.                  *)
LEMMA SignalMoves ==
  ASSUME Inv, NEW p \in Pids, ServerSignal(p) \/ ServerAlarm(p)
  PROVE  \E u : Moves(p, u)
  <1>1. server[p] \in Process /\ Shape(server[p])
    BY Zenon DEF Inv, Typed, Shapes
  <1>2. Live(p)
    BY Zenon, <1>1 DEF ServerSignal, ServerAlarm, Shape, Live, Exists, Is
  <1>3. CASE Exit(p)
    BY Zenon, <1>2, <1>3, ExitMoves
  <1>4. CASE Interrupt(p, [server[p] EXCEPT !.sigint = FALSE, !.pend = {}])
    BY Zenon, <1>1, <1>2, <1>4, HandledIs, InterruptMoves
  <1>5. CASE Interrupt(p, [server[p] EXCEPT !.sigalrm = FALSE, !.alarm = FALSE])
    BY Zenon, <1>1, <1>2, <1>5, HandledIs, InterruptMoves
  <1> QED
    BY Zenon, <1>3, <1>4, <1>5 DEF ServerSignal, ServerAlarm

\* what the steps before a test make of a process that has no alarm and is in
\* no system call
LEMMA StartedIs ==
  ASSUME NEW s \in Process, Shape(s), NEW m \in Shared
  PROVE  /\ s.state = "starting" =>
              LET u == [s EXCEPT !.state = "configuring", !.conf = m]
              IN u \in Process /\ Shape(u) /\ u.state = "configuring" /\ u.told = s.told /\ u.ok = s.ok
         /\ s.state = "ready" =>
              LET u == [s EXCEPT !.state = "accepting", !.sigint = TRUE, !.sigalrm = TRUE]
              IN u \in Process /\ Shape(u) /\ u.state = "accepting" /\ u.told = s.told /\ u.ok = s.ok
         /\ s.state = "accepting" =>
              LET u == [s EXCEPT !.state = "accepted", !.at = "check"]
              IN u \in Process /\ Shape(u) /\ u.state = "accepted" /\ u.told = s.told /\ u.ok = s.ok
         /\ s.state = "accepted" => \A at \in {"check", "calling"} :
              LET u == [s EXCEPT !.state = "testing", !.at = at, !.alarm = TRUE]
              IN u \in Process /\ Shape(u) /\ u.state = "testing" /\ u.told = s.told /\ u.ok = s.ok
  BY DEF Process, Shape, States

(* The steps of a server outside configure() are moves.                    *)
LEMMA StartMoves ==
  ASSUME Inv, NEW p \in Pids,
         \/ startAsServer(p) \/ serverMain(p) \/ acceptReturns(p) \/ startTest(p)
  PROVE  \E u : Moves(p, u)
  <1>1. server[p] \in Process /\ Shape(server[p]) /\ message \in Shared
    BY Zenon DEF Inv, Typed, Shapes
  <1>2. Live(p)
    BY Zenon DEF startAsServer, serverMain, acceptReturns, startTest, Live, Exists, Is
  <1>3. CASE startAsServer(p)
    BY Zenon, <1>1, <1>2, <1>3, StartedIs, BecomesMoves DEF startAsServer, Is
  <1>4. CASE serverMain(p)
    BY Zenon, <1>1, <1>2, <1>4, StartedIs, BecomesMoves DEF serverMain, Is
  <1>5. CASE acceptReturns(p)
    BY Zenon, <1>1, <1>2, <1>5, StartedIs, BecomesMoves DEF acceptReturns, Is
  <1>6. CASE startTest(p)
    <2>1. CASE Exit(p)
      BY Zenon, <1>2, <2>1, ExitMoves
    <2> QED
      BY Zenon, <1>1, <1>2, <1>6, <2>1, StartedIs, BecomesMoves DEF startTest, Is
  <1> QED
    BY Zenon, <1>3, <1>4, <1>5, <1>6

(* configure(), which sends SIGUSR1, or SIGUSR2 and exits, makes moves.     *)
LEMMA ConfigureMoves ==
  ASSUME Inv, NEW p \in Pids, configure(p) \/ configureFails(p) \/ configureExits(p)
  PROVE  \E u : Moves(p, u)
  <1>1. server[p] \in Process /\ Shape(server[p])
    BY Zenon DEF Inv, Typed, Shapes
  <1>2. Live(p) /\ server[p].state \in {"configuring", "refusing", "exiting"}
    BY Zenon DEF configure, configureFails, configureExits, Live, Exists, Is
  <1>3. ASSUME NEW st \in {"refusing", "exiting"},
               server' = [server EXCEPT ![p] = [server[p] EXCEPT !.state = st]],
               pending' \in {pending, pending \cup {"usr2"}}
        PROVE  \E u : Moves(p, u)
    <2> DEFINE u == [server[p] EXCEPT !.state = st]
    <2>1. /\ u \in Process /\ u.state = st /\ u.ok = server[p].ok /\ u.told = server[p].told
          /\ u.at = server[p].at /\ u.alarm = server[p].alarm /\ u.pend = server[p].pend
      BY Zenon, <1>1 DEF Process, States
    <2> HIDE DEF u
    <2>2. Shape(u)
      BY Zenon, <1>1, <1>2, <2>1 DEF Shape
    <2>3. server' = [server EXCEPT ![p] = u]
      BY Zenon, <1>3 DEF u
    <2>4. /\ pending \subseteq pending' /\ pending' \subseteq {"usr1", "usr2", "chld"}
          /\ "usr1" \in pending' => "usr1" \in pending
      BY Zenon, <1>3 DEF Inv, Typed
    <2>5. Moves(p, u)
      BY Zenon, <1>2, <2>1, <2>2, <2>3, <2>4 DEF Moves, Live
    <2> QED
      BY Zenon, <2>5
  <1>4. CASE configure(p) /\ pending' = pending \cup {"usr1"}
            /\ server' = [server EXCEPT ![p].state = "opening", ![p].ok = TRUE]
    <2> DEFINE u == [server[p] EXCEPT !.state = "opening", !.ok = TRUE]
    <2>1. u \in Process /\ u.state = "opening" /\ u.ok /\ u.told = server[p].told
          /\ u.at = server[p].at /\ u.alarm = server[p].alarm /\ u.pend = server[p].pend
      BY Zenon, <1>1 DEF Process, States
    <2>2. Shape(u)
      BY Zenon, <1>1, <1>2, <2>1 DEF Shape
    <2>3. server' = [server EXCEPT ![p] = u] /\ pending' = pending \cup {"usr1"}
      <3>1. [server EXCEPT ![p].state = "opening", ![p].ok = TRUE] = [server EXCEPT ![p] = u]
        BY Zenon, <1>1 DEF Inv, Typed
      <3> QED
        BY Zenon, <1>4, <3>1
    <2> HIDE DEF u
    <2> QED
      BY Zenon, <1>2, <2>1, <2>2, <2>3 DEF Inv, Typed, Moves, Live
  <1>5. CASE configure(p) /\ Becomes(p, [server[p] EXCEPT !.state = "refusing"])
    BY Zenon, <1>3, <1>5 DEF Becomes
  <1>6. CASE configureFails(p)
    <2>1. [server EXCEPT ![p].state = "exiting"]
            = [server EXCEPT ![p] = [server[p] EXCEPT !.state = "exiting"]]
      BY Zenon DEF Inv, Typed
    <2> QED
      BY Zenon, <1>3, <1>6, <2>1 DEF configureFails
  <1>7. CASE configureExits(p)
    BY Zenon, <1>2, <1>7, ExitMoves DEF configureExits
  <1> QED
    BY Zenon, <1>4, <1>5, <1>6, <1>7 DEF configure

\* The remaining steps change one field, or end the process.
LEMMA LoopMoves ==
  ASSUME Inv, NEW p \in Pids, openListenFD(p) \/ Loop(p) \/ Block(p) \/ Transfer(p)
  PROVE  \E u : Moves(p, u)
  <1>1. server[p] \in Process /\ Shape(server[p])
    BY Zenon DEF Inv, Typed, Shapes
  <1>2. Live(p)
    BY Zenon, <1>1 DEF openListenFD, Loop, Block, Transfer, Shape, Live, Exists, Is
  <1>3. CASE Exit(p)
    BY Zenon, <1>2, <1>3, ExitMoves
  <1>4. ASSUME NEW at \in {"check", "calling", "blocked"},
               server[p].state \in {"accepting", "testing"},
               Becomes(p, [server[p] EXCEPT !.at = at])
        PROVE  \E u : Moves(p, u)
    <2> DEFINE u == [server[p] EXCEPT !.at = at]
    <2>1. /\ u \in Process /\ u.state = server[p].state /\ u.at = at
          /\ u.alarm = server[p].alarm /\ u.pend = server[p].pend
          /\ u.told = server[p].told /\ u.ok = server[p].ok
      BY <1>1, FieldsAre
    <2>2. Becomes(p, u)
      BY Zenon, <1>4
    <2> HIDE DEF u
    <2>3. Shape(u)
      BY Zenon, <1>1, <1>4, <2>1 DEF Shape
    <2> QED
      BY Zenon, <1>2, <1>4, <2>1, <2>2, <2>3, BecomesMoves
  <1>5. CASE openListenFD(p) /\ ~Exit(p)
    <2> DEFINE u == [server[p] EXCEPT !.state = "ready"]
    <2>1. /\ u \in Process /\ u.state = "ready" /\ u.at = server[p].at
          /\ u.alarm = server[p].alarm /\ u.pend = server[p].pend
          /\ u.told = server[p].told /\ u.ok = server[p].ok
      <3>1. "ready" \in States
        BY Zenon DEF States
      <3> QED BY Zenon, <1>1, <3>1, FieldsAre
    <2>2. Becomes(p, u) /\ server[p].state = "opening"
      BY Zenon, <1>5 DEF openListenFD, Is
    <2> HIDE DEF u
    <2>3. Shape(u)
      BY Zenon, <1>1, <2>1, <2>2 DEF Shape
    <2> QED
      BY Zenon, <1>2, <2>1, <2>2, <2>3, BecomesMoves
  <1>6. CASE Loop(p)
    BY Zenon, <1>3, <1>4, <1>6 DEF Loop, Is
  <1>7. CASE Block(p)
    BY Zenon, <1>1, <1>4, <1>7 DEF Block, Shape
  <1>8. CASE Transfer(p)
    BY Zenon, <1>3, <1>4, <1>8 DEF Transfer, Is
  <1> QED
    BY Zenon, <1>3, <1>5, <1>6, <1>7, <1>8

(* Every step of a server keeps the invariant.                             *)
LEMMA ServerInv ==
  ASSUME Inv, NEW p \in Pids, ServerStep(p)
  PROVE  Inv'
  <1>1. UNCHANGED <<controller, early>>
    BY Zenon DEF ServerStep
  <1>2. \E u : Moves(p, u)
    <2>1. CASE ServerSignal(p) \/ ServerAlarm(p)
      BY ONLY Zenon, <2>1, Inv, p \in Pids, SignalMoves
    <2>2. CASE startAsServer(p) \/ serverMain(p) \/ acceptReturns(p) \/ startTest(p)
      BY ONLY Zenon, <2>2, Inv, p \in Pids, StartMoves
    <2>3. CASE configure(p) \/ configureFails(p) \/ configureExits(p)
      BY ONLY Zenon, <2>3, Inv, p \in Pids, ConfigureMoves
    <2>4. CASE openListenFD(p) \/ Loop(p) \/ Block(p) \/ Transfer(p)
      BY ONLY Zenon, <2>4, Inv, p \in Pids, LoopMoves
    <2> QED
      BY Zenon, <2>1, <2>2, <2>3, <2>4 DEF ServerStep
  <1>3. message' \in Shared
    <2>1. message \in Shared /\ "text" \in Shared
      BY Zenon DEF Inv, Typed, Shared
    <2> QED
      BY Zenon, <2>1 DEF ServerStep, startAsServer, configure, configureFails, configureExits
  <1> QED
    BY Zenon, <1>1, <1>2, <1>3, MovesInv

-----------------------------------------------------------------------------
(* The theorems.                                                           *)

\* The inductive invariant of the controller and its servers (server.c,
\* worker.c): signals may be late, merged or sent by an earlier server, and a
\* child may die between any two steps.
THEOREM MPerfInvariant == Spec => []Inv
  <1>1. Inv /\ [Next]_vars => Inv'
    <2> SUFFICES ASSUME Inv, [Next]_vars PROVE Inv'
      BY Zenon
    <2>1. ASSUME NEW c \in Clients, main(c) PROVE Inv'
      BY Zenon, <2>1, MainInv
    <2>2. CASE ReadReturns
      <3>1. CASE \E i \in {"CONF", "TERM"} : parse(i)
        BY Zenon, <3>1, ParseInv
      <3>2. CASE \E m \in Messages : doConfigure(m)
        BY Zenon, <3>2, ConfigureInv
      <3> QED
        BY Zenon, <2>2, <3>1, <3>2, ReadInv DEF ReadReturns
    <2>3. CASE ControllerStep
      <3>1. CASE \E p \in Pids : backupFork(p)
        BY Zenon, <3>1, ForkInv
      <3>2. CASE \E arrives \in BOOLEAN : reply(arrives)
        BY Zenon, <3>2, ReplyInv
      <3> QED
        BY Zenon, <2>3, <3>1, <3>2, ReadInv, ParseFailsInv, TerminateInv, KillInv, SpinInv,
          CompleteInv, ReceiveInv, ForkFailsInv, StoreInv, WaitInv, WaitedInv
        DEF ControllerStep
    <2>4. CASE HandleSignals \/ sigalrmHandler \/ timeoutHandler
      BY Zenon, <2>4, HandleInv, AlarmInv, TimeoutInv
    <2>5. ASSUME NEW p \in Pids, ServerStep(p) PROVE Inv'
      BY Zenon, <2>5, ServerInv
    <2>6. ASSUME NEW c \in Clients, reconfigureServer(c) \/ connectToServer(c) \/ ClientLeaves(c)
          PROVE  Inv'
      <3>1. UNCHANGED <<controller, message, pending, server, early>>
        BY Zenon, <2>6 DEF reconfigureServer, connectToServer, ClientLeaves, ClientGoes
      <3> QED
        BY Zenon, <3>1, ClientInv
    <2>7. CASE UNCHANGED vars
      BY Zenon, <2>7, ClientInv DEF vars, world
    <2> QED
      BY Zenon, <2>1, <2>2, <2>3, <2>4, <2>5, <2>6, <2>7 DEF Next
  <1> QED
    BY <1>1, InitInv, PTL DEF Spec

\* The variables of the programs keep their types: system calls, alarms and
\* signals belong to processes that can have them.
THEOREM MPerfTypes == Spec => []TypeOK
  <1>1. Inv => TypeOK
    BY Zenon DEF Inv, Typed, Shapes, Shape, TypeOK, Live, Exists, Is
  <1> QED
    BY <1>1, MPerfInvariant, PTL

\* doConfigure reports success only if the server it forked took the arguments,
\* or a server of an earlier test was still there when it forked.
THEOREM MPerfSuccess == Spec => []SuccessMeansServer
  <1>1. Inv => SuccessMeansServer
    BY Zenon DEF Inv
  <1> QED
    BY <1>1, MPerfInvariant, PTL

\* Every server that lives beside the one in chldPID was told to stop, however
\* many there are.
THEOREM MPerfTold == Spec => []OldServersTold
  <1>1. Inv => OldServersTold
    BY Zenon DEF Inv
  <1> QED
    BY <1>1, MPerfInvariant, PTL

\* chldPID names a process kill() finds, or one that died before backupFork()
\* stored its id.
THEOREM MPerfChild == Spec => []DeadChildKnown
  <1>1. Inv => DeadChildKnown
    BY Zenon DEF Inv
  <1> QED
    BY <1>1, MPerfInvariant, PTL
=============================================================================
