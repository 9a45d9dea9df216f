----------------------------- MODULE UdpTester -----------------------------
(***************************************************************************)
(* The datagram tester of mperf: mperf-udpsender (udpsender.c), which      *)
(* sends numbered datagrams from one thread and counts the echoes in       *)
(* another, and mperf-udpreceiver (udpreceiver.c), which echoes them.      *)
(*                                                                         *)
(* The two threads of the sender share connfd, serverInfo and the table of *)
(* descriptors, and each calls initConnection() when a call fails.  The    *)
(* lock doingInit is set and released around it and tested by nobody, so   *)
(* it is left out.  A socket is a number, in order of creation; the table  *)
(* maps descriptors to sockets and takes the lowest free one.  A thread    *)
(* that blocks in recvfrom() keeps its socket, also when the other thread  *)
(* closes the descriptor; a datagram carries the socket it was sent from.  *)
(*                                                                         *)
(* The network may lose datagrams, hold and reorder them, and MaxRepeats   *)
(* times deliver one again.  A call may fail by itself (no receiver yet,   *)
(* the interface is down) MaxErrors times.                                 *)
(***************************************************************************)
EXTENDS Integers, FiniteSets

CONSTANTS MAX_ATTEMPT,  \* attempts before the program gives up
          ToSends,      \* the arguments of -n
          MaxSent,      \* bound on the datagrams of a behaviour
          MaxSockets,   \* bound on the sockets the sender creates
          MaxErrors,    \* bound on the calls that fail by themselves
          MaxRepeats    \* bound on the datagrams delivered again

ASSUME UdpAssumption ==
  /\ MAX_ATTEMPT \in Nat \ {0}
  /\ ToSends \subseteq Nat \ {0}
  /\ {MaxSent, MaxSockets, MaxErrors, MaxRepeats} \subseteq Nat

Threads == {"main", "sender", "receiver"}
Stdin == 0                   \* what descriptor 0 is at first
Sockets == 1..MaxSockets
Fds == 0..(MaxSockets + 1)
Closed == -1

VARIABLES
  toSend, waiting,   \* the options -n (-1 without it) and -t
  dotted,            \* whether the server's name is an address in dots
  pc,                \* where each thread of the sender is
  attempt,           \* do_send, do_receive: failures of I/O so far, plus one
  dials,             \* initConnection: attempts so far, plus one
  dialled,           \* what netdial() returned to the thread
  sock,              \* the socket recvfrom() waits on
  connfd, serverInfo,
  table,             \* the descriptors of the sender
  made,              \* how many sockets it has created
  sent, received, alarm,
  exited,            \* how the sender ended
  echo,              \* the receiver: [pc, attempt, client, buf]
  out, back,         \* datagrams on their way to the receiver and back
  wire, failed,      \* history: datagrams sent, and numbers of failed sendto()s
  overlap,           \* history: both threads were in initConnection()
  errors, repeats    \* history: what the environment has spent

thread == <<pc, attempt, dials, dialled, sock>>
conn == <<connfd, serverInfo, table, made, overlap>>
count == <<sent, received, alarm, exited>>
net == <<echo, out, back, wire, failed, errors, repeats>>
options == <<toSend, waiting, dotted>>
vars == <<options, thread, conn, count, net>>

Init ==
  /\ toSend = -1 /\ waiting = FALSE /\ dotted = FALSE
  /\ pc = [t \in Threads |-> IF t = "main" THEN "parse" ELSE "none"]
  /\ attempt = [t \in Threads |-> 1] /\ dials = [t \in Threads |-> 1]
  /\ dialled = [t \in Threads |-> Closed] /\ sock = Stdin
  /\ connfd = 0 /\ serverInfo = "zero"
  /\ table = [f \in Fds |-> IF f = 0 THEN Stdin ELSE Closed]
  /\ made = 0 /\ sent = 0 /\ received = 0 /\ alarm = FALSE /\ exited = "no"
  /\ echo = [pc |-> "parse", attempt |-> 1, client |-> Stdin, buf |-> 0]
  /\ out = {} /\ back = {} /\ wire = {} /\ failed = {}
  /\ overlap = FALSE /\ errors = 0 /\ repeats = 0

-----------------------------------------------------------------------------
(* The sender: initConnection(), in whichever thread.                      *)

At(t, l) == exited = "no" /\ pc[t] = l
Goto(t, l) == pc' = [pc EXCEPT ![t] = l]
IsOpen(f) == f \in Fds /\ table[f] # Closed

\* Variant for mutation: the old socket stays open.
KeepOpen(f) == table

\* close(f), which does nothing when f is not open
close(f) == IF IsOpen(f) THEN [table EXCEPT ![f] = Closed] ELSE table

\* between close(connfd) and the store of a new one
Dials(t) == pc[t] \in {"dial", "connect", "store"}

\* memset(&serverInfo), close(connfd)
initConnection(t) ==
  /\ At(t, "init")
  /\ serverInfo' = "zero"
  /\ table' = close(connfd)
  /\ overlap' = (overlap \/ \E u \in Threads \ {t} : Dials(u))
  /\ Goto(t, "dial")
  /\ UNCHANGED <<options, attempt, dials, dialled, sock, connfd, made, count, net>>

\* an error of its own, or one that the state makes certain
Error(certain) ==
  \/ certain /\ UNCHANGED errors
  \/ ~certain /\ errors < MaxErrors /\ errors' = errors + 1

Lowest == CHOOSE f \in Fds : ~IsOpen(f) /\ \A g \in Fds : g < f => IsOpen(g)

\* netdial(): a new socket, and then its address and connect(); without a
\* socket, -1 at once
netdial(t) ==
  /\ At(t, "dial")
  /\ made < MaxSockets
  /\ made' = made + 1
  /\ table' = [table EXCEPT ![Lowest] = made']
  /\ dialled' = [dialled EXCEPT ![t] = Lowest]
  /\ Goto(t, "connect")
  /\ UNCHANGED <<options, attempt, dials, sock, connfd, serverInfo, overlap, count, net>>

socketFails(t) ==
  /\ At(t, "dial")
  /\ Error(FALSE)
  /\ dialled' = [dialled EXCEPT ![t] = Closed]
  /\ Goto(t, "store")
  /\ UNCHANGED <<options, attempt, dials, sock, conn, count, echo, out, back, wire,
                 failed, repeats>>

\* the descriptor may have been closed by now, or be that of another socket
connect(t) ==
  /\ At(t, "connect")
  /\ IsOpen(dialled[t])
  /\ Goto(t, "store")
  /\ UNCHANGED <<options, attempt, dials, dialled, sock, conn, count, net>>

\* netdial() closes what it opened, or what has its number, and returns -1
connectFails(t) ==
  /\ At(t, "connect")
  /\ Error(~IsOpen(dialled[t]))
  /\ table' = close(dialled[t])
  /\ dialled' = [dialled EXCEPT ![t] = Closed]
  /\ Goto(t, "store")
  /\ UNCHANGED <<options, attempt, dials, sock, connfd, serverInfo, made, overlap, count,
                 echo, out, back, wire, failed, repeats>>

\* where a thread goes on after initConnection(); as a variant for mutation,
\* the receiver waits on the socket it had
ResumeOld(t) == [main |-> "start", sender |-> "select", receiver |-> "blocked"][t]
Resume(t) == [main |-> "start", sender |-> "select", receiver |-> "recv"][t]

\* Variant for mutation: the last attempt failed and nobody notices.
GivesUp(t) == Goto(t, Resume(t)) /\ UNCHANGED exited

\* logFatal()
Fatal(t) == exited' = "fatal" /\ UNCHANGED pc

\* the condition of the attempt loops; as a variant for mutation, off by one
MayRetryOnceMore(n) == n <= MAX_ATTEMPT
MayRetry(n) == n < MAX_ATTEMPT

NextAttempt(t) ==
  IF MayRetry(dials[t])
  THEN Goto(t, "dial") /\ dials' = [dials EXCEPT ![t] = @ + 1] /\ UNCHANGED exited
  ELSE Fatal(t) /\ UNCHANGED dials

\* connfd = ... and the test for -1
storeConn(t) ==
  /\ At(t, "store")
  /\ connfd' = dialled[t]
  /\ IF dialled[t] = Closed
     THEN NextAttempt(t)
     ELSE Goto(t, "address") /\ UNCHANGED <<dials, exited>>
  /\ UNCHANGED <<options, attempt, dialled, sock, serverInfo, table, made, overlap,
                 sent, received, alarm, net>>

\* initConnection() returns, and its counter of attempts is gone
LeaveInit(t) == dials' = [dials EXCEPT ![t] = 1]

\* serverInfo again, and inet_aton(), which leaves the socket open if it fails
setAddress(t) ==
  /\ At(t, "address")
  /\ IF dotted
     THEN serverInfo' = "server" /\ Goto(t, Resume(t)) /\ LeaveInit(t) /\ UNCHANGED exited
     ELSE NextAttempt(t) /\ UNCHANGED serverInfo
  /\ UNCHANGED <<options, attempt, dialled, sock, connfd, table, made, overlap, sent,
                 received, alarm, net>>

-----------------------------------------------------------------------------
(* The sender: main, do_send and do_receive.                               *)

\* the threads start; later they are joined, and main returns
main ==
  /\ \/ /\ At("main", "start")
        /\ pc' = [main |-> "join", sender |-> "select", receiver |-> "recv"]
        /\ UNCHANGED exited
     \/ /\ At("main", "join")
        /\ pc["receiver"] = "done" /\ pc["sender"] = "done"
        /\ exited' = "return"
        /\ UNCHANGED pc
  /\ UNCHANGED <<options, attempt, dials, dialled, sock, conn, sent, received, alarm, net>>

\* the options; without a server or a port the program ends
parseArguments ==
  /\ At("main", "parse")
  /\ \/ /\ toSend' \in ToSends \cup {-1} /\ waiting' \in BOOLEAN /\ dotted' \in BOOLEAN
        /\ Goto("main", "init")
        /\ UNCHANGED exited
     \/ Fatal("main") /\ UNCHANGED options
  /\ UNCHANGED <<attempt, dials, dialled, sock, conn, sent, received, alarm, net>>

\* ++attempt after a failed call, logFatal(), or on to l
Failure(t, l) ==
  IF MayRetry(attempt[t])
  THEN /\ attempt' = [attempt EXCEPT ![t] = @ + 1]
       /\ Goto(t, l)
       /\ UNCHANGED exited
  ELSE Fatal(t) /\ UNCHANGED attempt

\* the test that ends the loop; as a variant for mutation, off by one
IsPast(n) == toSend >= 0 /\ n > toSend
IsLast(n) == n = toSend

\* Variant for mutation: alarmWithLog() is not called.
NoAlarm == UNCHANGED alarm
Alarm == alarm' = waiting

\* the end of an iteration of do_send: leave the loop, or reset attempt
EndOfRound ==
  IF IsLast(sent)
  THEN Goto("sender", "done") /\ Alarm /\ UNCHANGED attempt
  ELSE /\ Goto("sender", "select")
       /\ attempt' = [attempt EXCEPT !["sender"] = 1]
       /\ UNCHANGED alarm

\* select() fails on a descriptor that is closed; no re-initialisation here
selectFails ==
  /\ At("sender", "select")
  /\ Error(~IsOpen(connfd))
  /\ Failure("sender", "select")
  /\ UNCHANGED <<options, dials, dialled, sock, conn, sent, received, alarm, echo, out,
                 back, wire, failed, repeats>>

\* nothing is sent, and the round ends as if it had been; also what select()
\* does with no descriptor at all, connfd being -1
selectTimeout ==
  /\ At("sender", "select")
  /\ IsOpen(connfd) \/ connfd = Closed
  /\ IF MayRetry(attempt["sender"])
     THEN EndOfRound /\ UNCHANGED exited
     ELSE Fatal("sender") /\ UNCHANGED <<attempt, alarm>>
  /\ UNCHANGED <<options, dials, dialled, sock, conn, sent, received, net>>

\* *sendBuf = ++sent
selectReady ==
  /\ At("sender", "select")
  /\ IsOpen(connfd)
  /\ sent < MaxSent
  /\ sent' = sent + 1
  /\ Goto("sender", "sendto")
  /\ UNCHANGED <<options, attempt, dials, dialled, sock, conn, received, alarm, exited,
                 net>>

\* serverInfo as the other thread's memset() left it is refused as well
sendtoFails ==
  /\ At("sender", "sendto")
  /\ Error(~IsOpen(connfd) \/ serverInfo = "zero")
  /\ failed' = failed \cup {sent}
  /\ Failure("sender", "init")
  /\ UNCHANGED <<options, dials, dialled, sock, conn, sent, received, alarm, echo, out,
                 back, wire, repeats>>

\* an address of which the other thread has only written the port is accepted,
\* and the datagram goes astray
sendto ==
  /\ At("sender", "sendto")
  /\ IsOpen(connfd)
  /\ \/ serverInfo = "server" /\ out' = out \cup {[sock |-> table[connfd], n |-> sent]}
     \/ serverInfo = "zero" /\ pc["receiver"] = "address" /\ UNCHANGED out
  /\ wire' = wire \cup {[sock |-> table[connfd], n |-> sent]}
  /\ EndOfRound
  /\ UNCHANGED <<options, dials, dialled, sock, conn, sent, received, exited, echo,
                 back, failed, errors, repeats>>

\* the condition of do_receive, and the call of recvfrom() with connfd as it is
recvfrom ==
  /\ At("receiver", "recv")
  /\ IF received = toSend
     THEN Goto("receiver", "done") /\ UNCHANGED sock
     ELSE IsOpen(connfd) /\ sock' = table[connfd] /\ Goto("receiver", "blocked")
  /\ UNCHANGED <<options, attempt, dials, dialled, conn, count, net>>

\* Variant for mutation: a failed recvfrom() counts as well.
CountFailure == received' = received + 1
NoPacket == UNCHANGED received

recvFails ==
  /\ \/ At("receiver", "recv") /\ received # toSend /\ ~IsOpen(connfd) /\ Error(TRUE)
     \/ At("receiver", "blocked") /\ Error(FALSE)
  /\ NoPacket
  /\ Failure("receiver", "init")
  /\ UNCHANGED <<options, dials, dialled, sock, conn, sent, alarm, echo, out,
                 back, wire, failed, repeats>>

\* a datagram is taken out of the network, or a repeat of it stays there
Taken(d, all, rest) ==
  \/ rest = all \ {d} /\ UNCHANGED repeats
  \/ rest = all /\ repeats < MaxRepeats /\ repeats' = repeats + 1

\* an echo, counted; its source, the server, is written to serverInfo
recvReturns ==
  /\ At("receiver", "blocked")
  /\ \E d \in back : d.sock = sock /\ Taken(d, back, back')
  /\ received' = received + 1
  /\ serverInfo' = "server"
  /\ attempt' = [attempt EXCEPT !["receiver"] = 1]
  /\ Goto("receiver", "recv")
  /\ UNCHANGED <<options, dials, dialled, sock, connfd, table, made, overlap, sent,
                 alarm, exited, echo, out, wire, failed, errors>>

sigalrmHandler ==
  /\ alarm /\ exited = "no"
  /\ exited' = "alarm"
  /\ UNCHANGED <<options, thread, conn, sent, received, alarm, net>>

-----------------------------------------------------------------------------
(* The receiver, mperf-udpreceiver.                                        *)

sender == <<options, thread, conn, count>>

\* recvfrom() fills in clientInfo
Source(d) == d.sock

\* parseArguments(): without a port the program ends
echoParses ==
  /\ echo.pc = "parse"
  /\ \E l \in {"init", "dead"} : echo' = [echo EXCEPT !.pc = l]
  /\ UNCHANGED <<sender, out, back, wire, failed, errors, repeats>>

\* initConnection(): a socket that is bound to the port; a failed attempt, the
\* last of which is fatal; or a local address that is none
echoInit ==
  /\ echo.pc = "init"
  /\ \/ /\ \/ echo' = [echo EXCEPT !.pc = "recv", !.attempt = 1, !.client = Stdin]
           \/ echo' = [echo EXCEPT !.pc = "dead"]
        /\ UNCHANGED errors
     \/ /\ Error(FALSE)
        /\ echo' = IF MayRetry(echo.attempt)
                   THEN [echo EXCEPT !.attempt = @ + 1]
                   ELSE [echo EXCEPT !.pc = "dead"]
  /\ UNCHANGED <<sender, out, back, wire, failed, repeats>>

echoReceives ==
  /\ echo.pc = "recv"
  /\ \E d \in out :
       /\ Taken(d, out, out')
       /\ echo' = [echo EXCEPT !.pc = "send", !.client = Source(d), !.buf = d.n]
  /\ UNCHANGED <<sender, back, wire, failed, errors>>

echoSends ==
  /\ echo.pc = "send"
  /\ back' = back \cup {[sock |-> echo.client, n |-> echo.buf]}
  /\ echo' = [echo EXCEPT !.pc = "recv"]
  /\ UNCHANGED <<sender, out, wire, failed, errors, repeats>>

\* recvfrom() or sendto() fails: the socket is made anew
echoFails ==
  /\ echo.pc \in {"recv", "send"}
  /\ Error(FALSE)
  /\ echo' = [echo EXCEPT !.pc = "init"]
  /\ UNCHANGED <<sender, out, back, wire, failed, repeats>>

Lose ==
  /\ \/ \E d \in out : out' = out \ {d} /\ UNCHANGED back
     \/ \E d \in back : back' = back \ {d} /\ UNCHANGED out
  /\ UNCHANGED <<sender, echo, wire, failed, errors, repeats>>

-----------------------------------------------------------------------------

Connect(t) ==
  \/ initConnection(t) \/ netdial(t) \/ socketFails(t)
  \/ connect(t) \/ connectFails(t) \/ storeConn(t) \/ setAddress(t)

do_send == selectFails \/ selectTimeout \/ selectReady \/ sendtoFails \/ sendto
do_receive == recvfrom \/ recvFails \/ recvReturns

Next ==
  \/ \E t \in Threads : Connect(t)
  \/ parseArguments \/ main \/ do_send \/ do_receive \/ sigalrmHandler
  \/ echoParses \/ echoInit \/ echoReceives \/ echoSends \/ echoFails \/ Lose

\* every thread that can run runs, the alarm goes off, and a socket that is
\* writable again and again is written
Fairness ==
  /\ \A t \in Threads : WF_vars(Connect(t))
  /\ WF_vars(main) /\ WF_vars(do_send) /\ WF_vars(do_receive)
  /\ WF_vars(sigalrmHandler) /\ SF_vars(selectReady)

Spec == Init /\ [][Next]_vars /\ Fairness

-----------------------------------------------------------------------------
(* Properties.                                                             *)

\* The state has the types of the code's variables.
TypeOK ==
  /\ toSend \in ToSends \cup {-1} /\ waiting \in BOOLEAN /\ dotted \in BOOLEAN
  /\ pc \in [Threads -> {"none", "parse", "init", "dial", "connect", "store", "address",
                         "start", "join", "select", "sendto", "recv", "blocked", "done"}]
  /\ attempt \in [Threads -> 1..MAX_ATTEMPT] /\ dials \in [Threads -> 1..MAX_ATTEMPT]
  /\ dialled \in [Threads -> Fds \cup {Closed}] /\ connfd \in Fds \cup {Closed}
  /\ table \in [Fds -> Sockets \cup {Stdin, Closed}] /\ made \in 0..MaxSockets
  /\ serverInfo \in {"zero", "server"} /\ sock \in Sockets \cup {Stdin}
  /\ sent \in 0..MaxSent /\ received \in Nat /\ alarm \in BOOLEAN
  /\ exited \in {"no", "fatal", "return", "alarm"}
  /\ echo \in [pc : {"parse", "init", "recv", "send", "dead"}, attempt : 1..MAX_ATTEMPT,
               client : Sockets \cup {Stdin}, buf : 0..MaxSent]
  /\ out \cup back \cup wire \subseteq [sock : Sockets, n : 1..MaxSent]

\* do_receive counts echoes, not numbers.  However often the sender changes its
\* socket, every echo goes to the socket its datagram came from, and what is
\* counted and still under way never exceeds what went out, plus what the
\* network repeated: with none repeated, received = toSend means that toSend
\* packets came back.  The receiver has no other client here.
EchoesCounted ==
  /\ out \cup back \subseteq wire
  /\ received + Cardinality(back) + Cardinality(out) + (IF echo.pc = "send" THEN 1 ELSE 0)
       <= Cardinality(wire) + repeats

\* do_send stops at packet -n, and goes past it in one case only: the sendto()
\* of that very packet failed, and `continue' skipped the test.
StopsAtCount ==
  /\ pc["sender"] = "done" => sent = toSend
  /\ toSend >= 1 /\ sent > toSend => toSend \in failed

\* doingInit excludes nobody, yet whenever no thread is inside
\* initConnection(), connfd is an open socket and serverInfo the server's
\* address, whatever way the two threads' calls overlapped.
ConnectionRestored ==
  /\ pc["main"] = "join" /\ exited = "no"
  /\ \A t \in Threads : ~Dials(t) /\ pc[t] \notin {"init", "address"}
  => IsOpen(connfd) /\ table[connfd] # Stdin /\ serverInfo = "server"

\* Unless the calls of the two threads overlapped, re-initialisation leaves no
\* socket behind: what is open is connfd or on its way into it.
OneSocket ==
  dotted /\ ~overlap /\ pc["main"] = "join" =>
    \A f \in Fds : IsOpen(f) =>
      f = connfd \/ \E t \in Threads : pc[t] \in {"connect", "store"} /\ f = dialled[t]

\* A recvfrom() that blocks is not woken when its descriptor is closed.  The
\* receiver listens to the socket in use unless do_send made a new one, which
\* it does after a failed sendto() only.
ReceiverListens ==
  exited = "no" /\ pc["receiver"] = "blocked" /\ failed = {}
    => IsOpen(connfd) /\ sock = table[connfd]

\* The sender ends once all echoes are counted, or under -t once all packets
\* are sent, unless the sendto() of the last packet failed.
Finishes ==
  received = toSend \/ (waiting /\ toSend >= 1)
    ~> exited # "no" \/ toSend \in failed
=============================================================================
