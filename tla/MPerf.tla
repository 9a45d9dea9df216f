------------------------------- MODULE MPerf -------------------------------
(***************************************************************************)
(* The processes of the bandwidth tester mperf: the controller (server.c), *)
(* the servers it forks, one for each test (worker.c, sndrcv.c), and the   *)
(* clients (client.c).                                                     *)
(*                                                                         *)
(* The controller asks a server to stop with SIGINT, learns from SIGUSR1   *)
(* or SIGUSR2 whether a new one took its arguments and from SIGCHLD that   *)
(* one died, and waits for these signals in spin loops that an alarm       *)
(* ends.  A lock_t is TRUE while it is locked; handlers release it.        *)
(* Handlers block all signals but SIGTERM, so a handler is one step, and   *)
(* all pending signals are handled before the program goes on.  A signal   *)
(* of another process may take time to arrive.  SIGALRM is the process's   *)
(* own and arrives when the timer expires; when that is, is left open.     *)
(*                                                                         *)
(* Process ids are never reused here.  A client that is gone stands for    *)
(* the next one too.  A read() ends with bytes or without, or a signal     *)
(* interrupts it, if it comes while the controller is blocked in the call. *)
(* The controller's answers are short enough for the socket's buffer, so   *)
(* that a write() may fail but does not wait.                              *)
(***************************************************************************)
EXTENDS Integers, FiniteSets

CONSTANTS Pids,        \* what fork() may return
          Clients,     \* the clients
          MaxRequests  \* bound on the connections to the controller

ASSUME MPerfAssumption ==
  Pids \subseteq Nat \ {0} /\ Pids # {} /\ MaxRequests \in Nat

VARIABLES
  pc,            \* where the controller is
  call,          \* its read(): not called, blocked in it, or failed
  instruction,   \* what the client it serves asked for
  chldPID,       \* the server it knows, 0 at first, -1 for none
  forked,        \* what fork() returned last
  locks,         \* sigusr1, sigusr2, sigchld, sigalrm
  alarm,         \* whether the controller's alarm is running
  ret,           \* the result it will send
  message,       \* the arguments in shared memory
  pending,       \* signals sent to the controller and not yet handled
  completeKill,  \* the option -k
  server,        \* the servers, by process id
  client,        \* the clients: what they do, and the server they dialled
  stale, early,  \* history: see SuccessMeansServer and DeadChildKnown
  killedAll,     \* kill() was called with -1
  requests       \* how many connections the controller accepted

fixed == <<completeKill, requests>>
world == <<pending, fixed, server, client, early>>
\* what belongs to the controller's process; the arguments are shared
controller == <<pc, call, instruction, chldPID, forked, locks, alarm, ret,
                stale, killedAll>>
vars == <<controller, message, world>>

Locks == {"usr1", "usr2", "chld", "alrm"}
Messages == {"good", "bad"}         \* the arguments of a client
Shared == Messages \cup {"text"}    \* or the complaint of a server
Results == {"SUCC", "EMSG", "EKILL", "EREAD", "EPROC"}

NotStarted ==
  [state |-> "none", at |-> "check", sigint |-> FALSE, sigalrm |-> FALSE,
   alarm |-> FALSE, pend |-> {}, conf |-> "bad", ok |-> FALSE, told |-> FALSE]

Is(p, states) == server[p].state \in states
Exists(p) == ~Is(p, {"none", "reaped"})   \* kill() finds it
Live(p) == Exists(p) /\ ~Is(p, {"zombie"})
Listening(p) == Is(p, {"ready", "accepting", "accepted"})
Zombies == {p \in Pids : Is(p, {"zombie"})}
Reading == pc \in {"parse", "receive", "body"}

\* the state of main() when its loop begins
Init ==
  /\ pc = "accept" /\ call = "none" /\ instruction = "CONF"
  /\ chldPID = 0 /\ forked = 0
  /\ locks = [l \in Locks |-> FALSE] /\ alarm = FALSE
  /\ ret = "SUCC" /\ message = "bad" /\ pending = {}
  /\ completeKill \in BOOLEAN
  /\ server = [p \in Pids |-> NotStarted]
  /\ client = [c \in Clients |-> [state |-> "gone", server |-> 0]]
  /\ stale = FALSE /\ early = {} /\ killedAll = FALSE /\ requests = 0

-----------------------------------------------------------------------------
(* Signals to the controller.                                              *)

\* Variant for mutation: waitpid() is called once.
ReapOne(zombies) == {CHOOSE p \in zombies : TRUE}

\* the children that the loop of waitpid() collects
Reaped(zombies) == zombies

\* Variant for mutation: chldPID is left alone.
KeepChild(reaped) == chldPID

\* chldPID after these children were collected
ForgetChild(reaped) == IF chldPID \in reaped THEN -1 ELSE chldPID

sigchldHandler ==
  LET reaped == IF Zombies = {} THEN {} ELSE Reaped(Zombies)
  IN /\ server' = [p \in Pids |-> IF p \in reaped
                                  THEN [server[p] EXCEPT !.state = "reaped"]
                                  ELSE server[p]]
     /\ chldPID' = ForgetChild(reaped)
     /\ early' = early \cup (IF pc = "forked" THEN {forked} \cap reaped ELSE {})

\* a signal ends the read() that is under way; one that comes earlier does not
Interrupted == call' = IF call = "blocked" THEN "failed" ELSE call

\* sigusr1Handler, sigusr2Handler and sigchldHandler, for all that is pending
HandleSignals ==
  /\ pending # {}
  /\ locks' = [l \in Locks |-> locks[l] /\ l \notin pending]
  /\ pending' = {}
  /\ IF "chld" \in pending THEN sigchldHandler
     ELSE UNCHANGED <<server, chldPID, early>>
  /\ Interrupted
  /\ UNCHANGED <<pc, instruction, forked, alarm, ret, message, fixed, client,
                 stale, killedAll>>

sigalrmHandler ==
  /\ alarm /\ ~Reading
  /\ alarm' = FALSE
  /\ locks' = [locks EXCEPT !["alrm"] = FALSE]
  /\ UNCHANGED <<pc, call, instruction, chldPID, forked, ret, message, stale,
                 killedAll, world>>

\* SIGALRM during rRecvBytes and rReceiveMessage
timeoutHandler ==
  /\ alarm /\ Reading
  /\ alarm' = FALSE
  /\ Interrupted
  /\ UNCHANGED <<pc, instruction, chldPID, forked, locks, ret, message, stale,
                 killedAll, world>>

-----------------------------------------------------------------------------
(* The controller.                                                         *)

\* Variant for mutation: alarm() is called before the locks are set and may
\* expire in between.
LockLate(set) ==
  /\ locks' = [l \in Locks |-> l \in set \/ locks[l]]
  /\ alarm' \in BOOLEAN

\* setLock() of some locks and then alarm(SV_RESPONSE)
LockAndArm(set) ==
  /\ locks' = [l \in Locks |-> l \in set \/ locks[l]]
  /\ alarm' = TRUE

\* rKill(): what it returns, and the processes that get the signal.  There may
\* be none for -1; EPERM does not arise with one's own children.
rKill(pid, sig) ==
  /\ ret' \in IF pid \in Pids
              THEN {IF Exists(pid) THEN "SUCC" ELSE "EKILL"}
              ELSE {"SUCC"} \cup {r \in {"EKILL"} : \A p \in Pids : ~Live(p)}
  /\ server' = [p \in Pids |-> IF Live(p) /\ pid \in {p, -1}
                               THEN [server[p] EXCEPT !.pend = @ \cup {sig},
                                                      !.told = TRUE]
                               ELSE server[p]]
  /\ killedAll' = (killedAll \/ pid = -1)

\* what becomes of the client that is served; without an answer it exits
Answered(state) ==
  client' = [c \in Clients |-> IF client[c].state = "served"
                               THEN [client[c] EXCEPT !.state = state]
                               ELSE client[c]]

main(c) ==
  /\ pc = "accept"
  /\ requests < MaxRequests
  /\ requests' = requests + 1
  /\ client[c].state = "asking"
  /\ client' = [client EXCEPT ![c].state = "served"]
  /\ pc' = "parse"
  /\ alarm' = TRUE
  /\ UNCHANGED <<call, instruction, chldPID, forked, locks, ret, message,
                 stale, killedAll, pending, completeKill, server, early>>

\* where doTerminate and doConfigure go on without, or after, rTerminate
Terminated(i) == IF i = "CONF" THEN "receive" ELSE "reply"

\* their test on chldPID
FirstStep(i) == IF chldPID > 0 THEN "terminate" ELSE Terminated(i)

\* rRecvBytes and rReceiveMessage set the alarm once and call read() until they
\* have what they need: the instruction, or a length and then so many bytes.
enterRead ==
  /\ Reading /\ call = "none"
  /\ call' = "blocked"
  /\ UNCHANGED <<pc, instruction, chldPID, forked, locks, alarm, ret, message,
                 stale, killedAll, world>>

\* a part of a length or of a message has come: read() is called again
readSome ==
  /\ pc \in {"receive", "body"} /\ call = "blocked"
  /\ call' = "none"
  /\ UNCHANGED <<pc, instruction, chldPID, forked, locks, alarm, ret, message,
                 stale, killedAll, world>>

\* the whole length has come
readLength ==
  /\ pc = "receive" /\ call = "blocked"
  /\ pc' = "body" /\ call' = "none"
  /\ UNCHANGED <<instruction, chldPID, forked, locks, alarm, ret, message,
                 stale, killedAll, world>>

\* end of file, an error, or an instruction that is not known
readFails ==
  /\ Reading /\ call = "blocked"
  /\ call' = "failed"
  /\ UNCHANGED <<pc, instruction, chldPID, forked, locks, alarm, ret, message,
                 stale, killedAll, world>>

parse(i) ==
  /\ pc = "parse" /\ call = "blocked"
  /\ call' = "none"
  /\ instruction' = i
  /\ pc' = FirstStep(i)
  /\ alarm' = (pc' = "receive")
  /\ ret' = "SUCC"
  /\ UNCHANGED <<chldPID, forked, locks, message, stale, killedAll, world>>

\* without an instruction the connection is closed
parseFails ==
  /\ pc = "parse" /\ call = "failed"
  /\ call' = "none" /\ alarm' = FALSE
  /\ Answered("gone")
  /\ pc' = "accept"
  /\ UNCHANGED <<instruction, chldPID, forked, locks, ret, message, stale,
                 killedAll, pending, fixed, server, early>>

rTerminate ==
  /\ pc = "terminate"
  /\ LockAndArm({"chld", "alrm"})
  /\ pc' = "kill"
  /\ UNCHANGED <<call, instruction, chldPID, forked, ret, message, stale,
                 killedAll, world>>

\* chldPID may have been read before sigchldHandler reset it: forked
killSIGINT ==
  /\ pc = "kill"
  /\ \E pid \in {chldPID, forked} : rKill(pid, "INT")
  /\ alarm' = (alarm /\ ret' = "SUCC")
  /\ pc' = IF ret' = "SUCC" THEN "spin" ELSE "reply"
  /\ UNCHANGED <<call, instruction, chldPID, forked, locks, message, stale,
                 pending, fixed, client, early>>

spinAND ==
  /\ pc = "spin"
  /\ ~locks["chld"] \/ ~locks["alrm"]
  /\ pc' = "spun"
  /\ UNCHANGED <<call, instruction, chldPID, forked, locks, alarm, ret, message,
                 stale, killedAll, world>>

\* alarm(0) and the look at sigchld
spun ==
  /\ pc = "spun"
  /\ pc' = IF locks["chld"] /\ completeKill THEN "complete"
           ELSE Terminated(instruction)
  /\ alarm' = (pc' = "receive")
  /\ UNCHANGED <<call, instruction, chldPID, forked, locks, ret, message, stale,
                 killedAll, world>>

killSIGTERM ==
  /\ pc = "complete"
  /\ \E pid \in {chldPID, forked} : rKill(pid, "TERM")
  /\ pc' = IF ret' = "SUCC" THEN Terminated(instruction) ELSE "reply"
  /\ alarm' = (pc' = "receive")
  /\ UNCHANGED <<call, instruction, chldPID, forked, locks, message, stale,
                 pending, fixed, client, early>>

receiveFails ==
  /\ pc \in {"receive", "body"} /\ call = "failed"
  /\ call' = "none" /\ alarm' = FALSE
  /\ ret' = "EREAD"
  /\ pc' = "reply"
  /\ UNCHANGED <<instruction, chldPID, forked, locks, message, stale,
                 killedAll, world>>

\* the message is complete; setMessage, and what is prepared before fork()
doConfigure(m) ==
  /\ pc = "body" /\ call = "blocked"
  /\ call' = "none"
  /\ message' = m
  /\ LockAndArm({"usr1", "usr2", "alrm"})
  /\ stale' = \E p \in Pids : Exists(p)
  /\ pc' = "fork"
  /\ UNCHANGED <<instruction, chldPID, forked, ret, killedAll, world>>

\* backupFork(): the child runs before its id is stored
backupFork(p) ==
  /\ pc = "fork"
  /\ Is(p, {"none"})
  /\ server' = [server EXCEPT ![p].state = "starting"]
  /\ forked' = p
  /\ pc' = "forked"
  /\ UNCHANGED <<call, instruction, chldPID, locks, alarm, ret, message, stale,
                 killedAll, pending, fixed, client, early>>

forkFails ==
  /\ pc = "fork"
  /\ forked' = -1
  /\ pc' = "forked"
  /\ UNCHANGED <<call, instruction, chldPID, locks, alarm, ret, message, stale,
                 killedAll, world>>

storePID ==
  /\ pc = "forked"
  /\ chldPID' = forked
  /\ pc' = "wait"
  /\ UNCHANGED <<call, instruction, forked, locks, alarm, ret, message, stale,
                 killedAll, world>>

spinAND3 ==
  /\ pc = "wait"
  /\ \E l \in {"usr1", "usr2", "alrm"} : ~locks[l]
  /\ pc' = "waited"
  /\ UNCHANGED <<call, instruction, chldPID, forked, locks, alarm, ret, message,
                 stale, killedAll, world>>

\* Variant for mutation: the timeout is not looked at.
NoTimeout == IF ~locks["usr2"] THEN "EMSG" ELSE "SUCC"

\* what doConfigure makes of the locks
Outcome == CASE ~locks["usr2"] -> "EMSG"
             [] locks["usr2"] /\ ~locks["alrm"] -> "EPROC"
             [] locks["usr2"] /\ locks["alrm"] -> "SUCC"

waited ==
  /\ pc = "waited"
  /\ alarm' = FALSE
  /\ ret' = Outcome
  /\ pc' = "reply"
  /\ UNCHANGED <<call, instruction, chldPID, forked, locks, message, stale,
                 killedAll, world>>

\* rSendBytes, which may fail, and close()
reply(arrives) ==
  /\ pc = "reply"
  /\ Answered(IF arrives THEN "told" ELSE "gone")
  /\ pc' = "accept"
  /\ stale' = FALSE
  /\ UNCHANGED <<call, instruction, chldPID, forked, locks, alarm, ret, message,
                 killedAll, pending, fixed, server, early>>

-----------------------------------------------------------------------------
(* The servers.                                                            *)

Running(p) == Is(p, {"accepting", "accepted", "testing"})
continueTest(p) == server[p].sigint /\ server[p].sigalrm

Exited(s) ==
  [s EXCEPT !.state = "zombie", !.at = "check", !.sigint = FALSE,
            !.sigalrm = FALSE, !.alarm = FALSE, !.pend = {}, !.conf = "bad",
            !.told = FALSE]

Exit(p) ==
  /\ server' = [server EXCEPT ![p] = Exited(@)]
  /\ pending' = pending \cup {"chld"}

Becomes(p, s) == server' = [server EXCEPT ![p] = s] /\ UNCHANGED pending

\* A handler has released one of the locks.  accept() returns with EINTR.  So
\* do read() and write(), unless they have moved some bytes: then they are
\* called again and block again.
Interrupt(p, s) ==
  CASE s.at # "blocked" -> Becomes(p, s)
    [] s.at = "blocked" /\ s.state = "accepting" ->
         Becomes(p, [s EXCEPT !.at = "check"])
    [] s.at = "blocked" /\ s.state = "testing" -> Exit(p) \/ Becomes(p, s)

\* SIGTERM, the default action of SIGINT, or sigintHandler
ServerSignal(p) ==
  /\ server[p].pend # {}
  /\ IF "TERM" \in server[p].pend \/ ~Running(p) THEN Exit(p)
     ELSE Interrupt(p, [server[p] EXCEPT !.sigint = FALSE, !.pend = {}])

\* the alarm of a test
ServerAlarm(p) ==
  /\ server[p].alarm
  /\ Interrupt(p, [server[p] EXCEPT !.sigalrm = FALSE, !.alarm = FALSE])

\* startAsServer and serverMain up to configure(), which reads the arguments
startAsServer(p) ==
  /\ Is(p, {"starting"})
  /\ Becomes(p, [server[p] EXCEPT !.state = "configuring", !.conf = message])
  /\ UNCHANGED message

\* configure() sends SIGUSR1, or it complains in shared memory if it is the
\* type that it does not know.  sscanf leaves the type undefined when it has
\* read a complaint.
configure(p) ==
  /\ Is(p, {"configuring"})
  /\ \/ /\ server[p].conf # "bad"
        /\ server' = [server EXCEPT ![p].state = "opening", ![p].ok = TRUE]
        /\ pending' = pending \cup {"usr1"}
        /\ UNCHANGED message
     \/ /\ server[p].conf # "good"
        /\ Becomes(p, [server[p] EXCEPT !.state = "refusing"])
        /\ message' \in {message, "text"}

\* configure_fail_out: SIGUSR2, and then exit()
configureFails(p) ==
  /\ Is(p, {"refusing"})
  /\ server' = [server EXCEPT ![p].state = "exiting"]
  /\ pending' = pending \cup {"usr2"}
  /\ UNCHANGED message

configureExits(p) ==
  /\ Is(p, {"exiting"})
  /\ Exit(p)
  /\ UNCHANGED message

\* forceOpenListenFD exits when another server listens on the port
openListenFD(p) ==
  /\ Is(p, {"opening"})
  /\ IF \E q \in Pids : Listening(q) THEN Exit(p)
     ELSE Becomes(p, [server[p] EXCEPT !.state = "ready"])

\* Variant for mutation: the alarm of the test runs while the server waits.
AlarmEarly(p) ==
  /\ Is(p, {"ready"})
  /\ Becomes(p, [server[p] EXCEPT !.state = "accepting", !.sigint = TRUE,
                                  !.sigalrm = TRUE, !.alarm = TRUE])

\* serverMain from setLock(&sigint) to its loop
serverMain(p) ==
  /\ Is(p, {"ready"})
  /\ Becomes(p, [server[p] EXCEPT !.state = "accepting", !.sigint = TRUE,
                                  !.sigalrm = TRUE])

\* the condition of the loop around accept() and of the loops of the tests;
\* the program is not in the system call yet when it holds
Loop(p) ==
  /\ Is(p, {"accepting", "testing"})
  /\ server[p].at = "check"
  /\ IF continueTest(p) THEN Becomes(p, [server[p] EXCEPT !.at = "calling"])
     ELSE Exit(p)

Block(p) ==
  /\ server[p].at = "calling"
  /\ Becomes(p, [server[p] EXCEPT !.at = "blocked"])

acceptReturns(p) ==
  /\ Is(p, {"accepting"})
  /\ server[p].at = "blocked"
  /\ \E c \in Clients : client[c] = [state |-> "dialled", server |-> p]
  /\ Becomes(p, [server[p] EXCEPT !.state = "accepted", !.at = "check"])

\* close(listenfd) and parse(): doLongTest and doFixTest look at the locks
\* before they write, doReceive after it has read
startTest(p) ==
  /\ Is(p, {"accepted"})
  /\ IF continueTest(p)
     THEN \E at \in {"check", "calling"} :
            Becomes(p, [server[p] EXCEPT !.state = "testing", !.at = at,
                                         !.alarm = TRUE])
     ELSE Exit(p)

\* a packet is moved, or it is the last one or the connection is broken
Transfer(p) ==
  /\ Is(p, {"testing"})
  /\ server[p].at = "blocked"
  /\ Becomes(p, [server[p] EXCEPT !.at = "check"]) \/ Exit(p)

ServerStep(p) ==
  /\ \/ startAsServer(p) \/ configure(p) \/ configureFails(p)
     \/ configureExits(p)
     \/ /\ \/ openListenFD(p) \/ serverMain(p) \/ Loop(p) \/ Block(p)
           \/ acceptReturns(p) \/ startTest(p) \/ Transfer(p)
           \/ ServerSignal(p) \/ ServerAlarm(p)
        /\ UNCHANGED message
  /\ UNCHANGED <<controller, fixed, client, early>>

-----------------------------------------------------------------------------
(* The clients.                                                            *)

ClientGoes(c, to) ==
  /\ client' = [client EXCEPT ![c] = to]
  /\ UNCHANGED <<controller, message, pending, fixed, server, early>>

\* the controller is dialled, and the instruction and the arguments are sent
reconfigureServer(c) ==
  /\ client[c].state = "gone"
  /\ ClientGoes(c, [state |-> "asking", server |-> 0])

\* the result is overwritten by that of rRecvBytes, so a client that is told
\* anything goes on
connectToServer(c) ==
  /\ client[c].state = "told"
  /\ IF \E p \in Pids : Listening(p)
     THEN \E p \in Pids :
            /\ Listening(p)
            /\ ClientGoes(c, [state |-> "dialled", server |-> p])
     ELSE ClientGoes(c, [state |-> "gone", server |-> 0])

\* its test is over, or it is interrupted before it is served; a client that is
\* not there to be answered is gone when its connection is closed (reply)
ClientLeaves(c) ==
  /\ client[c].state \in {"asking", "dialled"}
  /\ ClientGoes(c, [state |-> "gone", server |-> 0])

-----------------------------------------------------------------------------
\* what the controller does by itself
ControllerStep ==
  \/ enterRead \/ parseFails \/ receiveFails
  \/ rTerminate \/ killSIGINT \/ spinAND \/ spun \/ killSIGTERM
  \/ \E p \in Pids : backupFork(p)
  \/ forkFails \/ storePID \/ spinAND3 \/ waited
  \/ \E arrives \in BOOLEAN : reply(arrives)

\* what it does when the client has sent something or is gone
ReadReturns ==
  \/ readSome \/ readLength \/ readFails
  \/ \E i \in {"CONF", "TERM"} : parse(i)
  \/ \E m \in Messages : doConfigure(m)

Next ==
  \/ \E c \in Clients : main(c)
  \/ ControllerStep \/ ReadReturns
  \/ HandleSignals \/ sigalrmHandler \/ timeoutHandler
  \/ \E p \in Pids : ServerStep(p)
  \/ \E c \in Clients :
       reconfigureServer(c) \/ connectToServer(c) \/ ClientLeaves(c)

\* The controller's process runs, its alarms expire and its signals arrive.
\* Nothing is assumed of servers and clients: a read() need never return.
Fairness ==
  /\ WF_vars(ControllerStep) /\ WF_vars(HandleSignals)
  /\ WF_vars(sigalrmHandler) /\ WF_vars(timeoutHandler)

Spec == Init /\ [][Next]_vars /\ Fairness

-----------------------------------------------------------------------------
(* Properties.                                                             *)

\* The state has the types of the programs' variables.
TypeOK ==
  /\ call \in {"none", "blocked", "failed"} /\ (call # "none" => Reading)
  /\ chldPID \in Pids \cup {-1, 0} /\ forked \in Pids \cup {-1, 0}
  /\ locks \in [Locks -> BOOLEAN] /\ alarm \in BOOLEAN
  /\ ret \in Results /\ message \in Shared
  /\ pending \subseteq {"usr1", "usr2", "chld"}
  /\ \A p \in Pids :
       /\ server[p].at # "check" => Is(p, {"accepting", "testing"})
       /\ server[p].alarm => Is(p, {"testing"})
       /\ server[p].pend # {} => Live(p)

\* The controller reports success only if the server it forked has accepted
\* the arguments.  Signals carry no sender and a timeout races with the
\* answer, but the locks are set before fork() and looked at after the wait.
\* The exception is a server that was still there before (stale): its late
\* SIGUSR1 is taken for that of the new one.
SuccessMeansServer ==
  pc = "reply" /\ instruction = "CONF" /\ ret = "SUCC" /\ ~stale
    => forked \in Pids /\ server[forked].ok

\* "We don't allow concurrent tests": whatever signals were lost or late, a
\* server that lives beside the one in chldPID has been told to stop.
OldServersTold ==
  \A p \in Pids : Live(p) => \/ p = chldPID
                             \/ p = forked /\ pc = "forked"
                             \/ server[p].told

\* chldPID names a process that can be killed, or none, but for the child
\* that died before backupFork() stored its id (early).
DeadChildKnown ==
  chldPID \in Pids => Exists(chldPID) \/ chldPID \in early

\* Once it has accepted a connection, the controller comes back to accept(),
\* whatever servers and clients do, or it stays for ever in the reads of one
\* connection after their only alarm is used up.  That takes a SIGALRM that
\* comes between two calls of read(), where it interrupts nothing, and a client
\* that then sends nothing more and does not hang up.
ControllerReturns ==
  pc # "accept" ~> (pc = "accept" \/ [](Reading /\ ~alarm))

\* Every server that ends is collected, also when one SIGCHLD stands for two.
ZombiesReaped == Zombies # {} ~> Zombies = {}

\* "we can then simply kill the previous server process": what is killed is a
\* server, and not every process of the user.
KillsOneServer == ~killedAll
=============================================================================
