-------------------------- MODULE UdpTesterProofs --------------------------
(***************************************************************************)
(* The datagram tester, for any number of packets, sockets, attempts,      *)
(* failures and repeats.                                                   *)
(*                                                                         *)
(* The part that needs an argument is the connection (Connection below).   *)
(* Two threads run initConnection() at once, and one may close the         *)
(* descriptor the other has just been given, because connfd still holds    *)
(* the number of a closed descriptor and netdial() hands that number out   *)
(* again.  What saves them is that netdial() takes the lowest free number: *)
(* the thread that closed the other's new socket is given the same number, *)
(* so that what either stores is open.  A thread whose connect() fails     *)
(* closes the number it was given, also if it is the other's by then, and  *)
(* is the next to be given it.                                             *)
(***************************************************************************)
EXTENDS UdpTester, FiniteSetTheorems, WellFoundedInduction, TLAPS

Connecting == {"init", "dial", "connect", "store", "address"}

\* main sets up the connection alone, and then only waits for the others
Phase ==
  /\ pc["main"] \in Connecting \cup {"parse", "start", "join"}
  /\ pc["main"] # "join" => pc["sender"] = "none" /\ pc["receiver"] = "none"
  /\ pc["main"] = "join" => /\ pc["sender"] \in Connecting \cup {"select", "sendto", "done"}
                            /\ pc["receiver"] \in Connecting \cup {"recv", "blocked", "done"}

\* until main has closed descriptor 0, it is standard input and connfd
Start ==
  IF pc["main"] \in {"parse", "init"}
  THEN connfd = 0 /\ made = 0 /\ table = [f \in Fds |-> IF f = 0 THEN Stdin ELSE Closed]
  ELSE \A f \in Fds : table[f] # Stdin

\* there is always a free descriptor for a new socket
Room == \A f \in Fds : IsOpen(f) => f <= made

Dialling(t) == pc[t] = "dial" \/ (pc[t] \in {"connect", "store"} /\ dialled[t] = Closed)
Holds(t) == pc[t] \in {"connect", "store"} /\ dialled[t] # Closed
Failed(t) == pc[t] = "store" /\ dialled[t] = Closed
Full(f) == \A g \in Fds : g < f => IsOpen(g)

\* a descriptor in a thread's hands is open, or is the one the other gets
Held ==
  \A t \in Threads : Holds(t) =>
    \/ IsOpen(dialled[t])
    \/ Full(dialled[t]) /\ \E u \in Threads \ {t} : Dialling(u)
HeldOld ==
  \A t \in Threads : Holds(t) /\ dialled[t] = connfd
    => Full(connfd) \/ \E u \in Threads : Failed(u)
HeldTwice ==
  \A t, u \in Threads : t # u /\ Holds(t) /\ Holds(u) /\ dialled[t] = dialled[u]
    => Full(dialled[t])

\* connfd is open, or a thread will store one that is
Stored ==
  pc["main"] \in {"address", "start", "join"} =>
    IsOpen(connfd) \/ \E t \in Threads : pc[t] \in {"dial", "connect", "store"}
Addressed ==
  pc["main"] \in {"start", "join"} =>
    serverInfo = "server" \/ \E t \in Threads : pc[t] \in {"dial", "connect", "store", "address"}

Connection == Start /\ Room /\ Held /\ HeldOld /\ HeldTwice /\ Stored /\ Addressed

\* while the calls have not overlapped, one thread at a time has a socket
Single ==
  dotted /\ ~overlap =>
    /\ \A t, u \in Threads :
         t # u => ~(pc[t] \in {"dial", "connect", "store"} /\ pc[u] \in {"dial", "connect", "store"})
    /\ \A t \in Threads : Dialling(t) => \A f \in Fds : ~IsOpen(f)
    /\ \A t \in Threads : Holds(t) => \A f \in Fds : IsOpen(f) => f = dialled[t]
    /\ (\A t \in Threads : pc[t] \notin {"dial", "connect", "store"}) =>
         \A f \in Fds : IsOpen(f) => f = connfd

\* do_send leaves the connection alone until a sendto() fails
Quiet == failed = {} => pc["sender"] \notin Connecting

\* every datagram has a number of its own, and an echo under way is one of them
Numbered ==
  /\ IsFiniteSet(wire) /\ repeats \in Nat
  /\ \A d \in wire : d.n <= sent /\ (pc["sender"] = "sendto" => d.n < sent)
  /\ pc["sender"] = "sendto" => sent >= 1
  /\ pc["main"] # "join" => sent = 0
  /\ echo.pc = "send" => [sock |-> echo.client, n |-> echo.buf] \in wire

\* the loop of do_send is past packet -n only if its sendto() failed
Passed ==
  /\ pc["main"] = "parse" => toSend = -1
  /\ toSend >= 1 /\ sent = toSend /\ pc["sender"] \notin {"sendto", "done"} => toSend \in failed

Inv ==
  /\ TypeOK /\ Phase /\ Connection /\ Single /\ Quiet /\ Numbered /\ Passed
  /\ EchoesCounted /\ StopsAtCount /\ ReceiverListens

-----------------------------------------------------------------------------

\* what the assumption says of each constant
LEMMA Constants ==
  /\ MAX_ATTEMPT \in Nat /\ MAX_ATTEMPT >= 1
  /\ \A n \in ToSends : n \in Nat /\ n >= 1
  /\ MaxSent \in Nat /\ MaxSockets \in Nat /\ MaxErrors \in Nat /\ MaxRepeats \in Nat
  /\ Fds \subseteq Nat /\ Closed \notin Fds /\ Stdin # Closed /\ Stdin \in Fds
  BY UdpAssumption DEF Fds, Closed, Stdin

(* A set of naturals has a least element.                                  *)
LEMMA LeastIs ==
  ASSUME NEW S \in SUBSET Nat, S # {}
  PROVE  \E x \in S : \A y \in S : x <= y
  <1>1. PICK x \in S : \A y \in S : ~(<<y, x>> \in OpToRel(<, Nat))
    BY Zenon, NatLessThanWellFounded, WFMin
  <1>2. OpToRel(<, Nat) = {p \in Nat \X Nat : p[1] < p[2]}
    BY Zenon DEF OpToRel
  <1>3. \A y \in S : x <= y
    <2> SUFFICES ASSUME NEW y \in S, y < x PROVE FALSE
      OBVIOUS
    <2>1. <<y, x>> \in {p \in Nat \X Nat : p[1] < p[2]}
      BY Zenon
    <2> QED
      BY Zenon, <1>1, <1>2, <2>1
  <1> QED
    BY Zenon, <1>3

\* netdial() finds a free descriptor, and all below it are open.
LEMMA LowestIs ==
  ASSUME TypeOK, Room, made < MaxSockets
  PROVE  Lowest \in Fds /\ ~IsOpen(Lowest) /\ Full(Lowest) /\ Lowest <= made + 1
  <1> DEFINE S == {f \in Fds : ~IsOpen(f)}
  <1>1. made \in Nat /\ made + 1 \in Fds
    BY Constants DEF TypeOK, Fds
  <1>2. made + 1 \in S
    BY <1>1 DEF Room
  <1>3. PICK x \in S : \A y \in S : x <= y
    BY Zenon, <1>2, Constants, LeastIs
  <1>4. \A g \in Fds : g < x => IsOpen(g)
    BY <1>3, Constants
  <1>5. Lowest \in Fds /\ ~IsOpen(Lowest) /\ \A g \in Fds : g < Lowest => IsOpen(g)
    BY Zenon, <1>4 DEF Lowest
  <1>6. ~(made + 1 < Lowest)
    BY Zenon, <1>1, <1>2, <1>5
  <1> QED
    BY <1>1, <1>5, <1>6, Constants DEF Full

(* The program starts with standard input open and connfd 0.               *)
LEMMA InitInv == Init => Inv
  <1> SUFFICES ASSUME Init PROVE Inv
    BY Zenon
  <1>1. pc["main"] = "parse" /\ pc["sender"] = "none" /\ pc["receiver"] = "none"
    BY Zenon DEF Init, Threads
  <1>2. \A f \in Fds : IsOpen(f) => f = 0
    BY Zenon DEF Init, IsOpen
  <1>3. TypeOK
    <2>1. pc \in [Threads -> {"none", "parse"}]
      BY Zenon DEF Init
    <2>2. table \in [Fds -> {Stdin, Closed}] /\ connfd \in Fds
      BY Zenon, Constants DEF Init, Stdin
    <2>3. /\ attempt \in [Threads -> 1..MAX_ATTEMPT] /\ dials \in [Threads -> 1..MAX_ATTEMPT]
          /\ dialled \in [Threads -> Fds \cup {Closed}]
      BY Constants DEF Init
    <2>4. echo \in [pc : {"parse", "init", "recv", "send", "dead"}, attempt : 1..MAX_ATTEMPT,
                    client : Sockets \cup {Stdin}, buf : 0..MaxSent]
      BY Constants DEF Init
    <2>5. 0 \in 0..MaxSockets /\ 0 \in 0..MaxSent /\ 0 \in Nat
      BY Constants
    <2> QED
      BY Zenon, <2>1, <2>2, <2>3, <2>4, <2>5 DEF Init, TypeOK
  <1>4. \A t \in Threads : ~Dialling(t) /\ ~Holds(t) /\ pc[t] \notin {"dial", "connect", "store"}
    BY Zenon DEF Init, Dialling, Holds
  <1>5. Phase /\ Connection
    BY <1>1, <1>2, <1>4 DEF Init, Phase, Connection, Start, Room, Held, HeldOld, HeldTwice,
      Stored, Addressed
  <1>6. Single /\ Quiet
    BY Zenon, <1>1 DEF Init, Single, Quiet, Connecting
  <1>7. Numbered /\ Passed /\ StopsAtCount /\ ReceiverListens
    BY <1>1, FS_EmptySet DEF Init, Numbered, Passed, StopsAtCount, ReceiverListens
  <1>8. EchoesCounted
    BY FS_EmptySet DEF Init, EchoesCounted
  <1> QED
    BY Zenon, <1>3, <1>5, <1>6, <1>7, <1>8 DEF Inv
-----------------------------------------------------------------------------
(* What a step leaves alone.                                               *)

\* Steps outside initConnection() do not disturb the connection.
LEMMA SameConnection ==
  ASSUME Inv, UNCHANGED <<connfd, table, made, dialled, dotted, overlap>>,
         serverInfo' \in {serverInfo, "server"}, pc'["main"] = pc["main"],
         \A t \in Threads : \A l \in {"dial", "connect", "store", "address"} : pc'[t] = l <=> pc[t] = l
  PROVE  Connection' /\ Single'
  <1>1. \A f : IsOpen(f)' <=> IsOpen(f)
    BY Zenon DEF IsOpen
  <1>2. \A f : Full(f)' <=> Full(f)
    BY Zenon, <1>1 DEF Full
  <1>3. \A t \in Threads : /\ Dialling(t)' <=> Dialling(t)
                           /\ Holds(t)' <=> Holds(t)
                           /\ Failed(t)' <=> Failed(t)
    BY Zenon DEF Dialling, Holds, Failed
  <1>4. Start' /\ Room'
    BY Zenon, <1>1 DEF Inv, Connection, Start, Room
  <1>5. Held' /\ HeldOld' /\ HeldTwice'
    BY Zenon, <1>1, <1>2, <1>3 DEF Inv, Connection, Held, HeldOld, HeldTwice
  <1>6. Stored' /\ Addressed'
    BY Zenon, <1>1 DEF Inv, Connection, Stored, Addressed
  <1>7. Single'
    BY Zenon, <1>1, <1>3 DEF Inv, Single
  <1> QED
    BY Zenon, <1>4, <1>5, <1>6, <1>7 DEF Connection

\* Steps that send and receive nothing do not disturb the counts.
LEMMA SameCounts ==
  ASSUME Inv, UNCHANGED <<out, back, wire, received, echo, repeats, sent>>,
         pc'["sender"] = "sendto" => pc["sender"] = "sendto",
         pc'["main"] # "join" => pc["main"] # "join"
  PROVE  Numbered' /\ EchoesCounted'
  BY Zenon DEF Inv, Numbered, EchoesCounted

\* Steps of others do not disturb the loop of do_send.
LEMMA SameLoop ==
  ASSUME Inv, UNCHANGED <<toSend, sent>>, failed \subseteq failed',
         pc'["sender"] = "done" => pc["sender"] = "done",
         pc["sender"] = "sendto" => pc'["sender"] = "sendto" \/ sent \in failed',
         pc["sender"] = "done" => pc'["sender"] = "done",
         pc'["main"] = "parse" => pc["main"] = "parse"
  PROVE  Passed' /\ StopsAtCount'
  BY Zenon DEF Inv, Passed, StopsAtCount

\* A receiver that blocks hears what it heard.
LEMMA SameListening ==
  ASSUME Inv, UNCHANGED <<connfd, table, sock>>, failed \subseteq failed',
         exited' = "no" => exited = "no",
         pc'["receiver"] = "blocked" => pc["receiver"] = "blocked"
  PROVE  ReceiverListens'
  BY Zenon DEF Inv, ReceiverListens, IsOpen

\* do_send enters initConnection() after a failure only.
LEMMA SameQuiet ==
  ASSUME Inv, failed \subseteq failed',
         pc'["sender"] \in Connecting => pc["sender"] \in Connecting \/ failed' # {}
  PROVE  Quiet'
  BY Zenon DEF Inv, Quiet

\* a step of one thread
LEMMA Turn ==
  ASSUME TypeOK, NEW t \in Threads, NEW l, Goto(t, l)
  PROVE  pc' = [u \in Threads |-> IF u = t THEN l ELSE pc[u]]
  BY Zenon DEF TypeOK, Goto

-----------------------------------------------------------------------------
(* The network and the receiver program.                                   *)

\* Steps that the sender program has no part in.
Elsewhere == UNCHANGED <<options, thread, conn, sent, received, alarm, failed>>

(* A step that leaves the threads and the descriptors alone.               *)
LEMMA ElsewhereInv ==
  ASSUME Inv, Elsewhere, exited' = "no" => exited = "no", TypeOK', Numbered', EchoesCounted'
  PROVE  Inv'
  <1>1. /\ UNCHANGED <<pc, connfd, table, made, dialled, dotted, overlap, serverInfo, toSend,
                       sent, failed, sock>>
    BY Zenon DEF Elsewhere, options, thread, conn
  <1>2. Connection' /\ Single'
    BY Zenon, <1>1, SameConnection
  <1>3. Passed' /\ StopsAtCount'
    BY Zenon, <1>1, SameLoop
  <1>4. ReceiverListens' /\ Quiet'
    BY Zenon, <1>1, SameListening, SameQuiet
  <1>5. Phase'
    BY Zenon, <1>1 DEF Inv, Phase
  <1> QED
    BY Zenon, <1>2, <1>3, <1>4, <1>5 DEF Inv

(* sigalrmHandler ends the program.                                        *)
LEMMA AlarmInv ==
  ASSUME Inv, sigalrmHandler
  PROVE  Inv'
  <1>1. Elsewhere /\ exited' = "alarm" /\ exited = "no"
        /\ UNCHANGED <<pc, out, back, wire, received, echo, repeats, sent>>
    BY Zenon DEF sigalrmHandler, Elsewhere, net, thread
  <1>2. Numbered' /\ EchoesCounted'
    BY Zenon, <1>1, SameCounts
  <1>3. TypeOK'
    BY <1>1 DEF Inv, TypeOK, Elsewhere, options, thread, conn
  <1> QED
    BY Zenon, <1>1, <1>2, <1>3, ElsewhereInv

\* what is left of a set of datagrams, and what was taken
LEMMA TakenIs ==
  ASSUME NEW all, IsFiniteSet(all), NEW d \in all, NEW rest, Taken(d, all, rest),
         repeats \in Nat
  PROVE  /\ rest \subseteq all /\ IsFiniteSet(rest) /\ Cardinality(rest) \in Nat
         /\ Cardinality(all) \in Nat /\ repeats' \in Nat
         /\ Cardinality(rest) + 1 + repeats <= Cardinality(all) + repeats'
  <1>1. Cardinality(all) \in Nat
    BY Zenon, FS_CardinalityType
  <1>2. CASE rest = all \ {d} /\ UNCHANGED repeats
    <2>1. IsFiniteSet(rest) /\ Cardinality(rest) = Cardinality(all) - 1
      BY Zenon, <1>2, FS_RemoveElement
    <2>2. Cardinality(rest) \in Nat
      BY Zenon, <2>1, FS_CardinalityType
    <2> QED
      BY <1>1, <1>2, <2>1, <2>2
  <1>3. CASE rest = all /\ repeats' = repeats + 1
    BY <1>1, <1>3
  <1> QED
    BY Zenon, <1>2, <1>3 DEF Taken

(* The network loses a datagram or an echo.                                *)
LEMMA LoseInv ==
  ASSUME Inv, Lose
  PROVE  Inv'
  <1>1. Elsewhere /\ UNCHANGED <<exited, pc, wire, received, echo, repeats, sent>>
    BY Zenon DEF Lose, Elsewhere, sender, count, options, thread, conn
  <1>2. /\ out' \subseteq out /\ back' \subseteq back
    BY Zenon DEF Lose
  <1>3. TypeOK'
    BY <1>1, <1>2 DEF Inv, TypeOK, Elsewhere, options, thread, conn
  <1>4. Numbered'
    BY Zenon, <1>1 DEF Inv, Numbered
  <1>5. EchoesCounted'
    <2>1. IsFiniteSet(out) /\ IsFiniteSet(back)
      BY Zenon, FS_Subset DEF Inv, Numbered, EchoesCounted
    <2>2. /\ Cardinality(out') <= Cardinality(out) /\ Cardinality(back') <= Cardinality(back)
          /\ IsFiniteSet(out') /\ IsFiniteSet(back')
      BY Zenon, <1>2, <2>1, FS_Subset
    <2>3. /\ Cardinality(out) \in Nat /\ Cardinality(back) \in Nat /\ Cardinality(wire) \in Nat
          /\ Cardinality(out') \in Nat /\ Cardinality(back') \in Nat
      BY Zenon, <2>1, <2>2, FS_CardinalityType DEF Inv, Numbered
    <2>4. received \in Nat /\ repeats \in Nat
      BY Zenon DEF Inv, TypeOK, Numbered
    <2> QED
      BY <1>1, <1>2, <2>2, <2>3, <2>4 DEF Inv, EchoesCounted
  <1> QED
    BY Zenon, <1>1, <1>3, <1>4, <1>5, ElsewhereInv

(* What an update of the echo program gives.                               *)
LEMMA EchoIs ==
  ASSUME NEW P, NEW A, NEW C, NEW B, NEW e \in [pc : P, attempt : A, client : C, buf : B],
         NEW l \in P, NEW a \in A, NEW c \in C, NEW n \in B
  PROVE  /\ LET u == [e EXCEPT !.pc = l, !.attempt = a, !.client = c]
            IN u \in [pc : P, attempt : A, client : C, buf : B] /\ u.pc = l
         /\ LET u == [e EXCEPT !.pc = l, !.client = c, !.buf = n]
            IN /\ u \in [pc : P, attempt : A, client : C, buf : B]
               /\ u.pc = l /\ u.client = c /\ u.buf = n
  BY Zenon

\* The receiver program outside its two system calls.
LEMMA EchoFrameInv ==
  ASSUME Inv, echoParses \/ echoInit \/ echoFails
  PROVE  Inv'
  <1>1. Elsewhere /\ UNCHANGED <<exited, pc, out, back, wire, received, repeats, sent>>
    BY Zenon DEF echoParses, echoInit, echoFails, Elsewhere, sender, count, options, thread, conn
  <1>2. /\ echo' \in [pc : {"parse", "init", "recv", "send", "dead"}, attempt : 1..MAX_ATTEMPT,
                      client : Sockets \cup {Stdin}, buf : 0..MaxSent]
        /\ echo'.pc # "send"
    <2> USE DEF Inv, TypeOK
    <2>1. CASE echoParses
      BY Zenon, <2>1 DEF echoParses
    <2>2. CASE echoInit
      <3>1. CASE echo' = [echo EXCEPT !.pc = "recv", !.attempt = 1, !.client = Stdin]
        <4>1. 1 \in 1..MAX_ATTEMPT /\ echo.buf \in 0..MaxSent
          BY Constants
        <4> QED
          BY Zenon, <3>1, <4>1, EchoIs
      <3>2. CASE echo' = [echo EXCEPT !.pc = "dead"]
        BY Zenon, <3>2
      <3>3. CASE MayRetry(echo.attempt) /\ echo' = [echo EXCEPT !.attempt = @ + 1]
        BY <2>2, <3>3, Constants DEF MayRetry, echoInit
      <3> QED
        BY Zenon, <2>2, <3>1, <3>2, <3>3 DEF echoInit
    <2>3. CASE echoFails
      BY Zenon, <2>3 DEF echoFails
    <2> QED
      BY Zenon, <2>1, <2>2, <2>3
  <1>3. TypeOK'
    BY <1>1, <1>2 DEF Inv, TypeOK, Elsewhere, options, thread, conn
  <1>4. Numbered'
    BY Zenon, <1>1, <1>2 DEF Inv, Numbered
  <1>5. EchoesCounted'
    <2>1. IsFiniteSet(out) /\ IsFiniteSet(back)
      BY Zenon, FS_Subset DEF Inv, Numbered, EchoesCounted
    <2>2. /\ Cardinality(out) \in Nat /\ Cardinality(back) \in Nat /\ Cardinality(wire) \in Nat
      BY Zenon, <2>1, FS_CardinalityType DEF Inv, Numbered
    <2>3. received \in Nat /\ repeats \in Nat
      BY Zenon DEF Inv, TypeOK, Numbered
    <2> QED
      BY <1>1, <1>2, <2>2, <2>3 DEF Inv, EchoesCounted
  <1> QED
    BY Zenon, <1>1, <1>3, <1>4, <1>5, ElsewhereInv

\* A datagram the receiver program has taken is counted as the one it holds.
LEMMA EchoReceivesInv ==
  ASSUME Inv, echoReceives
  PROVE  Inv'
  <1>1. Elsewhere /\ UNCHANGED <<exited, pc, back, wire, received, sent>>
    BY Zenon DEF echoReceives, Elsewhere, sender, count, options, thread, conn
  <1>2. PICK d \in out : /\ Taken(d, out, out')
                         /\ echo' = [echo EXCEPT !.pc = "send", !.client = d.sock, !.buf = d.n]
    BY Zenon DEF echoReceives, Source
  <1>3. d \in [sock : Sockets, n : 1..MaxSent] /\ d \in wire
    BY Zenon DEF Inv, TypeOK, EchoesCounted
  <1>4. IsFiniteSet(out) /\ IsFiniteSet(back) /\ repeats \in Nat /\ received \in Nat
    BY Zenon, FS_Subset DEF Inv, TypeOK, Numbered, EchoesCounted
  <1>5. /\ out' \subseteq out /\ IsFiniteSet(out') /\ Cardinality(out') \in Nat
        /\ Cardinality(out) \in Nat /\ repeats' \in Nat
        /\ Cardinality(out') + 1 + repeats <= Cardinality(out) + repeats'
    BY Zenon, <1>2, <1>4, TakenIs
  <1>6. /\ echo' \in [pc : {"parse", "init", "recv", "send", "dead"}, attempt : 1..MAX_ATTEMPT,
                      client : Sockets \cup {Stdin}, buf : 0..MaxSent]
        /\ echo'.pc = "send" /\ echo'.client = d.sock /\ echo'.buf = d.n
    <2>1. d.sock \in Sockets \cup {Stdin} /\ d.n \in 0..MaxSent /\ echo.attempt \in 1..MAX_ATTEMPT
      BY <1>3, Constants DEF Inv, TypeOK
    <2> QED
      BY Zenon, <1>2, <2>1, EchoIs DEF Inv, TypeOK
  <1>7. TypeOK'
    BY <1>1, <1>5, <1>6 DEF Inv, TypeOK, Elsewhere, options, thread, conn
  <1>8. Numbered'
    <2>1. [sock |-> d.sock, n |-> d.n] = d
      BY Zenon, <1>3
    <2> QED
      BY Zenon, <1>1, <1>3, <1>5, <1>6, <2>1 DEF Inv, Numbered
  <1>9. EchoesCounted'
    <2>1. Cardinality(back) \in Nat /\ Cardinality(wire) \in Nat
      BY Zenon, <1>4, FS_CardinalityType DEF Inv, Numbered
    <2>2. echo.pc = "recv"
      BY Zenon DEF echoReceives
    <2> QED
      BY <1>1, <1>4, <1>5, <1>6, <2>1, <2>2 DEF Inv, EchoesCounted
  <1> QED
    BY Zenon, <1>1, <1>7, <1>8, <1>9, ElsewhereInv

\* An echo goes to the socket its datagram came from.
LEMMA EchoSendsInv ==
  ASSUME Inv, echoSends
  PROVE  Inv'
  <1> DEFINE d == [sock |-> echo.client, n |-> echo.buf]
  <1>1. Elsewhere /\ UNCHANGED <<exited, pc, out, wire, received, repeats, sent>>
    BY Zenon DEF echoSends, Elsewhere, sender, count, options, thread, conn
  <1>2. back' = back \cup {d} /\ echo' = [echo EXCEPT !.pc = "recv"] /\ echo.pc = "send"
    BY Zenon DEF echoSends
  <1>3. d \in wire
    BY Zenon, <1>2 DEF Inv, Numbered
  <1> HIDE DEF d
  <1>4. IsFiniteSet(out) /\ IsFiniteSet(back) /\ repeats \in Nat /\ received \in Nat
    BY Zenon, FS_Subset DEF Inv, TypeOK, Numbered, EchoesCounted
  <1>5. /\ echo' \in [pc : {"parse", "init", "recv", "send", "dead"}, attempt : 1..MAX_ATTEMPT,
                      client : Sockets \cup {Stdin}, buf : 0..MaxSent]
        /\ echo'.pc = "recv"
    BY Zenon, <1>2 DEF Inv, TypeOK
  <1>6. /\ IsFiniteSet(back') /\ Cardinality(back') <= Cardinality(back) + 1
        /\ Cardinality(back) \in Nat /\ Cardinality(back') \in Nat
    <2>1. /\ IsFiniteSet(back')
          /\ Cardinality(back') = IF d \in back THEN Cardinality(back) ELSE Cardinality(back) + 1
      BY Zenon, <1>2, <1>4, FS_AddElement
    <2>2. Cardinality(back) \in Nat /\ Cardinality(back') \in Nat
      BY Zenon, <1>4, <2>1, FS_CardinalityType
    <2> QED
      BY <2>1, <2>2
  <1>7. TypeOK'
    BY <1>1, <1>2, <1>3, <1>5 DEF Inv, TypeOK, Elsewhere, options, thread, conn
  <1>8. Numbered'
    BY Zenon, <1>1, <1>5 DEF Inv, Numbered
  <1>9. EchoesCounted'
    <2>1. Cardinality(out) \in Nat /\ Cardinality(wire) \in Nat
      BY Zenon, <1>4, FS_CardinalityType DEF Inv, Numbered
    <2> QED
      BY <1>1, <1>2, <1>3, <1>4, <1>5, <1>6, <2>1 DEF Inv, EchoesCounted
  <1> QED
    BY Zenon, <1>1, <1>7, <1>8, <1>9, ElsewhereInv
-----------------------------------------------------------------------------
(* do_send and do_receive.                                                 *)

\* where a thread may be
Labels == {"none", "parse", "init", "dial", "connect", "store", "address", "start", "join",
           "select", "sendto", "recv", "blocked", "done"}

\* ++attempt stays in its range, and the thread goes on or the program ends.
LEMMA FailureIs ==
  ASSUME TypeOK, NEW t \in Threads, NEW l \in Labels, Failure(t, l)
  PROVE  /\ attempt' \in [Threads -> 1..MAX_ATTEMPT]
         /\ pc' \in [Threads -> Labels]
         /\ \A u \in Threads \ {t} : pc'[u] = pc[u]
         /\ pc'[t] \in {l, pc[t]}
         /\ exited' \in {"fatal", exited}
         /\ exited' = "no" => exited = "no" /\ pc'[t] = l
  <1>1. CASE MayRetry(attempt[t])
    <2>1. attempt' \in [Threads -> 1..MAX_ATTEMPT]
      BY <1>1, Constants DEF Failure, MayRetry, TypeOK
    <2>2. Goto(t, l) /\ exited' = exited
      BY Zenon, <1>1 DEF Failure
    <2>3. pc' = [u \in Threads |-> IF u = t THEN l ELSE pc[u]]
      BY Zenon, <2>2, Turn
    <2> QED
      BY Zenon, <2>1, <2>2, <2>3 DEF TypeOK, Labels
  <1>2. CASE ~MayRetry(attempt[t])
    BY Zenon, <1>2 DEF Failure, Fatal, TypeOK, Labels
  <1> QED
    BY Zenon, <1>1, <1>2

(* select() fails: the sender connects again, or gives up.                 *)
LEMMA SelectFailsInv ==
  ASSUME Inv, selectFails
  PROVE  Inv'
  <1>1. /\ exited = "no" /\ pc["sender"] = "select"
        /\ UNCHANGED <<options, dials, dialled, sock, conn, sent, received, alarm, echo, out,
                       back, wire, failed, repeats>>
    BY Zenon DEF selectFails, At
  <1>2. /\ attempt' \in [Threads -> 1..MAX_ATTEMPT] /\ pc' \in [Threads -> Labels]
        /\ \A u \in Threads : pc'[u] = pc[u]
        /\ exited' \in {"fatal", "no"}
    BY Zenon, <1>1, FailureIs DEF selectFails, Inv, Threads, Labels
  <1>3. \A u \in {"main", "sender", "receiver"} : pc'[u] = pc[u]
    BY Zenon, <1>2 DEF Threads
  <1>4. TypeOK'
    BY <1>1, <1>2 DEF Inv, TypeOK, Labels, options, conn
  <1>5. Phase'
    BY Zenon, <1>3 DEF Inv, Phase
  <1>6. Connection' /\ Single'
    BY Zenon, <1>1, <1>2, <1>3, SameConnection DEF options, conn
  <1>7. Numbered' /\ EchoesCounted'
    BY Zenon, <1>1, <1>3, SameCounts
  <1>8. Passed' /\ StopsAtCount'
    BY Zenon, <1>1, <1>3, SameLoop DEF options
  <1>9. ReceiverListens' /\ Quiet'
    BY Zenon, <1>1, <1>2, <1>3, SameListening, SameQuiet DEF conn
  <1> QED
    BY Zenon, <1>4, <1>5, <1>6, <1>7, <1>8, <1>9 DEF Inv

\* The end of an iteration: the loop is left at packet -n and nowhere else.
LEMMA RoundIs ==
  ASSUME TypeOK, EndOfRound
  PROVE  /\ attempt' \in [Threads -> 1..MAX_ATTEMPT] /\ alarm' \in BOOLEAN
         /\ pc' \in [Threads -> Labels]
         /\ pc'["main"] = pc["main"] /\ pc'["receiver"] = pc["receiver"]
         /\ pc'["sender"] = IF sent = toSend THEN "done" ELSE "select"
  <1>1. attempt' \in [Threads -> 1..MAX_ATTEMPT] /\ alarm' \in BOOLEAN
    BY Constants DEF TypeOK, EndOfRound, Alarm
  <1>2. Goto("sender", IF sent = toSend THEN "done" ELSE "select")
    BY Zenon DEF EndOfRound, IsLast
  <1>3. pc' = [u \in Threads |-> IF u = "sender" THEN IF sent = toSend THEN "done" ELSE "select"
                                 ELSE pc[u]]
    BY <1>2, Turn DEF Threads
  <1> QED
    BY Zenon, <1>1, <1>3 DEF TypeOK, Labels, Threads

(* select() times out: the round ends, or the last attempt is fatal.       *)
LEMMA SelectTimeoutInv ==
  ASSUME Inv, selectTimeout
  PROVE  Inv'
  <1>1. /\ exited = "no" /\ pc["sender"] = "select"
        /\ UNCHANGED <<options, dials, dialled, sock, conn, sent, received, net>>
    BY Zenon DEF selectTimeout, At
  <1>2. /\ attempt' \in [Threads -> 1..MAX_ATTEMPT] /\ alarm' \in BOOLEAN
        /\ pc' \in [Threads -> Labels]
        /\ pc'["main"] = pc["main"] /\ pc'["receiver"] = pc["receiver"]
        /\ pc'["sender"] = "select" \/ (pc'["sender"] = "done" /\ sent = toSend)
        /\ exited' \in {"fatal", "no"}
    <2>1. CASE EndOfRound /\ UNCHANGED exited
      BY Zenon, <1>1, <2>1, RoundIs DEF Inv
    <2>2. CASE Fatal("sender") /\ UNCHANGED <<attempt, alarm>>
      BY Zenon, <1>1, <2>2 DEF Fatal, Inv, TypeOK, Labels
    <2> QED
      BY Zenon, <2>1, <2>2 DEF selectTimeout
  <1>3. TypeOK'
    BY <1>1, <1>2 DEF Inv, TypeOK, Labels, options, conn, net
  <1>4. Phase'
    BY Zenon, <1>1, <1>2 DEF Inv, Phase, Connecting
  <1>5. Connection' /\ Single'
    <2>1. \A t \in Threads : \A l \in {"dial", "connect", "store", "address"} : pc'[t] = l <=> pc[t] = l
      BY Zenon, <1>1, <1>2 DEF Threads
    <2> QED
      BY Zenon, <1>1, <1>2, <2>1, SameConnection DEF options, conn
  <1>6. Numbered' /\ EchoesCounted'
    BY Zenon, <1>1, <1>2, SameCounts DEF net
  <1>7. Passed' /\ StopsAtCount'
    BY Zenon, <1>1, <1>2 DEF Inv, Passed, StopsAtCount, options, net
  <1>8. ReceiverListens' /\ Quiet'
    BY Zenon, <1>1, <1>2, SameListening, SameQuiet DEF conn, net, Connecting
  <1> QED
    BY Zenon, <1>3, <1>4, <1>5, <1>6, <1>7, <1>8 DEF Inv

\* A new packet has a new number.
LEMMA SelectReadyInv ==
  ASSUME Inv, selectReady
  PROVE  Inv'
  <1>1. /\ exited = "no" /\ pc["sender"] = "select" /\ sent < MaxSent /\ sent' = sent + 1
        /\ Goto("sender", "sendto")
        /\ UNCHANGED <<options, attempt, dials, dialled, sock, conn, received, alarm, exited,
                       net>>
    BY Zenon DEF selectReady, At
  <1>2. pc' = [u \in Threads |-> IF u = "sender" THEN "sendto" ELSE pc[u]]
    BY Zenon, <1>1, Turn DEF Inv, Threads
  <1>3. /\ pc' \in [Threads -> Labels] /\ pc'["sender"] = "sendto"
        /\ pc'["main"] = pc["main"] /\ pc'["receiver"] = pc["receiver"]
    BY Zenon, <1>2 DEF Inv, TypeOK, Labels, Threads
  <1>4. sent \in Nat /\ sent' \in 0..MaxSent
    BY <1>1, Constants DEF Inv, TypeOK
  <1>5. TypeOK'
    BY <1>1, <1>3, <1>4 DEF Inv, TypeOK, Labels, options, conn, net
  <1>6. Phase'
    BY Zenon, <1>1, <1>3 DEF Inv, Phase, Connecting
  <1>7. Connection' /\ Single'
    <2>1. \A t \in Threads : \A l \in {"dial", "connect", "store", "address"} : pc'[t] = l <=> pc[t] = l
      BY Zenon, <1>1, <1>3 DEF Threads
    <2> QED
      BY Zenon, <1>1, <1>3, <2>1, SameConnection DEF options, conn
  <1>8. Numbered'
    <2>1. \A d \in wire : d.n \in Nat /\ d.n <= sent
      BY Constants DEF Inv, TypeOK, Numbered
    <2>2. pc["main"] = "join"
      BY Zenon, <1>1 DEF Inv, Phase
    <2> QED
      BY <1>1, <1>3, <1>4, <2>1, <2>2 DEF Inv, Numbered, net
  <1>9. EchoesCounted'
    BY Zenon, <1>1 DEF Inv, EchoesCounted, net
  <1>10. Passed' /\ StopsAtCount'
    <2>1. toSend \in Int
      BY Constants DEF Inv, TypeOK
    <2>2. pc'["main"] # "parse"
      BY Zenon, <1>1, <1>3 DEF Inv, Phase
    <2> QED
      BY <1>1, <1>3, <1>4, <2>1, <2>2 DEF Inv, Passed, StopsAtCount, options, net
  <1>11. ReceiverListens' /\ Quiet'
    BY Zenon, <1>1, <1>3, SameListening, SameQuiet DEF conn, net, Connecting
  <1> QED
    BY Zenon, <1>5, <1>6, <1>7, <1>8, <1>9, <1>10, <1>11 DEF Inv

(* sendto() fails: the packet counts, and the test of -n is skipped.       *)
LEMMA SendtoFailsInv ==
  ASSUME Inv, sendtoFails
  PROVE  Inv'
  <1>1. /\ exited = "no" /\ pc["sender"] = "sendto" /\ failed' = failed \cup {sent}
        /\ UNCHANGED <<options, dials, dialled, sock, conn, sent, received, alarm, echo, out,
                       back, wire, repeats>>
    BY Zenon DEF sendtoFails, At
  <1>2. /\ attempt' \in [Threads -> 1..MAX_ATTEMPT] /\ pc' \in [Threads -> Labels]
        /\ pc'["main"] = pc["main"] /\ pc'["receiver"] = pc["receiver"]
        /\ pc'["sender"] \in {"init", "sendto"}
        /\ exited' \in {"fatal", "no"}
    BY Zenon, <1>1, FailureIs DEF sendtoFails, Inv, Threads, Labels
  <1>3. TypeOK'
    BY <1>1, <1>2 DEF Inv, TypeOK, Labels, options, conn
  <1>4. Phase'
    BY Zenon, <1>1, <1>2 DEF Inv, Phase, Connecting
  <1>5. Connection' /\ Single'
    <2>1. \A t \in Threads : \A l \in {"dial", "connect", "store", "address"} : pc'[t] = l <=> pc[t] = l
      BY Zenon, <1>1, <1>2 DEF Threads
    <2> QED
      BY Zenon, <1>1, <1>2, <2>1, SameConnection DEF options, conn
  <1>6. Numbered' /\ EchoesCounted'
    BY Zenon, <1>1, <1>2, SameCounts
  <1>7. Passed' /\ StopsAtCount'
    BY Zenon, <1>1, <1>2, SameLoop DEF options
  <1>8. ReceiverListens' /\ Quiet'
    BY Zenon, <1>1, <1>2, SameListening, SameQuiet DEF conn
  <1> QED
    BY Zenon, <1>3, <1>4, <1>5, <1>6, <1>7, <1>8 DEF Inv

\* A datagram that goes out is a new one.
LEMMA SendtoInv ==
  ASSUME Inv, sendto
  PROVE  Inv'
  <1> DEFINE d == [sock |-> table[connfd], n |-> sent]
  <1>1. /\ exited = "no" /\ pc["sender"] = "sendto" /\ IsOpen(connfd)
        /\ out' \in {out, out \cup {d}} /\ wire' = wire \cup {d}
        /\ UNCHANGED <<options, dials, dialled, sock, conn, sent, received, exited, echo,
                       back, failed, errors, repeats>>
    BY Zenon DEF sendto, At
  <1>2. /\ attempt' \in [Threads -> 1..MAX_ATTEMPT] /\ alarm' \in BOOLEAN
        /\ pc' \in [Threads -> Labels]
        /\ pc'["main"] = pc["main"] /\ pc'["receiver"] = pc["receiver"]
        /\ pc'["sender"] = IF sent = toSend THEN "done" ELSE "select"
    BY Zenon, RoundIs DEF sendto, Inv
  <1>3. pc["main"] = "join"
    BY Zenon, <1>1 DEF Inv, Phase
  <1>4. d \in [sock : Sockets, n : 1..MaxSent]
    <2>1. table[connfd] \in Sockets
      BY Zenon, <1>1, <1>3 DEF Inv, TypeOK, Connection, Start, IsOpen
    <2>2. sent \in 1..MaxSent
      BY <1>1, Constants DEF Inv, TypeOK, Numbered
    <2> QED
      BY Zenon, <2>1, <2>2
  <1>5. d \notin wire
    <2>1. d.n = sent /\ sent \in Nat
      BY Constants DEF Inv, TypeOK
    <2> HIDE DEF d
    <2>2. \A e \in wire : e.n < sent
      BY Zenon, <1>1 DEF Inv, Numbered
    <2> QED
      BY <2>1, <2>2
  <1>6. d.n = sent
    BY Zenon
  <1> HIDE DEF d
  <1>7. TypeOK'
    BY <1>1, <1>2, <1>4 DEF Inv, TypeOK, Labels, options, conn
  <1>8. Phase'
    BY Zenon, <1>2, <1>3 DEF Inv, Phase
  <1>9. Connection' /\ Single'
    <2>1. \A t \in Threads : \A l \in {"dial", "connect", "store", "address"} : pc'[t] = l <=> pc[t] = l
      BY Zenon, <1>1, <1>2 DEF Threads
    <2> QED
      BY Zenon, <1>1, <1>2, <2>1, SameConnection DEF options, conn
  <1>10. /\ IsFiniteSet(out) /\ IsFiniteSet(wire) /\ IsFiniteSet(back)
         /\ out \subseteq wire /\ back \subseteq wire
    BY Zenon, FS_Subset DEF Inv, Numbered, EchoesCounted
  <1>11. /\ IsFiniteSet(wire') /\ Cardinality(wire') = Cardinality(wire) + 1
         /\ Cardinality(out') <= Cardinality(out) + 1 /\ Cardinality(out') \in Nat
         /\ Cardinality(wire) \in Nat /\ Cardinality(out) \in Nat /\ Cardinality(back) \in Nat
    <2>1. /\ IsFiniteSet(wire \cup {d}) /\ Cardinality(wire \cup {d}) = Cardinality(wire) + 1
      BY Zenon, <1>5, <1>10, FS_AddElement
    <2>2. /\ IsFiniteSet(out \cup {d}) /\ Cardinality(out \cup {d}) = Cardinality(out) + 1
      BY Zenon, <1>5, <1>10, FS_AddElement
    <2>3. /\ Cardinality(wire) \in Nat /\ Cardinality(out) \in Nat /\ Cardinality(back) \in Nat
      BY Zenon, <1>10, FS_CardinalityType
    <2>4. CASE out' = out
      BY <1>1, <2>1, <2>3, <2>4
    <2>5. CASE out' = out \cup {d}
      BY <1>1, <2>1, <2>2, <2>3, <2>5
    <2> QED
      BY Zenon, <1>1, <2>4, <2>5
  <1>12. Numbered'
    <2>1. \A e \in wire : e.n <= sent
      BY Zenon DEF Inv, Numbered
    <2>2. sent \in Nat
      BY Constants DEF Inv, TypeOK
    <2> QED
      BY <1>1, <1>2, <1>3, <1>6, <1>11, <2>1, <2>2 DEF Inv, Numbered
  <1>13. EchoesCounted'
    <2>1. received \in Nat /\ repeats \in Nat
      BY Zenon DEF Inv, TypeOK, Numbered
    <2> QED
      BY <1>1, <1>10, <1>11, <2>1 DEF Inv, EchoesCounted
  <1>14. Passed' /\ StopsAtCount'
    BY Zenon, <1>1, <1>2, <1>3 DEF Inv, Passed, StopsAtCount, options
  <1>15. ReceiverListens' /\ Quiet'
    BY Zenon, <1>1, <1>2, SameListening, SameQuiet DEF conn, Connecting
  <1> QED
    BY Zenon, <1>7, <1>8, <1>9, <1>12, <1>13, <1>14, <1>15 DEF Inv

(* The receiver is done, or calls recvfrom() on the socket of connfd.      *)
LEMMA RecvfromInv ==
  ASSUME Inv, recvfrom
  PROVE  Inv'
  <1>1. /\ exited = "no" /\ pc["receiver"] = "recv"
        /\ UNCHANGED <<options, attempt, dials, dialled, conn, count, net>>
    BY Zenon DEF recvfrom, At
  <1>2. \/ Goto("receiver", "done") /\ UNCHANGED sock
        \/ IsOpen(connfd) /\ sock' = table[connfd] /\ Goto("receiver", "blocked")
    BY Zenon DEF recvfrom
  <1>3. PICK l \in {"done", "blocked"} : Goto("receiver", l)
    BY Zenon, <1>2
  <1>4. pc' = [u \in Threads |-> IF u = "receiver" THEN l ELSE pc[u]]
    BY Zenon, <1>3, Turn DEF Inv, Threads
  <1>5. /\ pc' \in [Threads -> Labels] /\ pc'["receiver"] = l
        /\ pc'["main"] = pc["main"] /\ pc'["sender"] = pc["sender"]
    BY Zenon, <1>4 DEF Inv, TypeOK, Labels, Threads
  <1>6. pc["main"] = "join"
    BY Zenon, <1>1 DEF Inv, Phase
  <1>7. sock' \in Sockets \cup {Stdin}
    BY Zenon, <1>2 DEF Inv, TypeOK, IsOpen
  <1>8. TypeOK'
    BY <1>1, <1>5, <1>7 DEF Inv, TypeOK, Labels, options, conn, count, net
  <1>9. Phase'
    BY Zenon, <1>5, <1>6 DEF Inv, Phase
  <1>10. Connection' /\ Single'
    <2>1. \A t \in Threads : \A k \in {"dial", "connect", "store", "address"} : pc'[t] = k <=> pc[t] = k
      BY Zenon, <1>1, <1>5 DEF Threads
    <2> QED
      BY Zenon, <1>1, <1>5, <2>1, SameConnection DEF options, conn
  <1>11. Numbered' /\ EchoesCounted'
    BY Zenon, <1>1, <1>5, SameCounts DEF count, net
  <1>12. Passed' /\ StopsAtCount' /\ Quiet'
    BY Zenon, <1>1, <1>5, SameLoop, SameQuiet DEF options, count, net
  <1>13. ReceiverListens'
    <2>1. "done" # "blocked"
      BY Zenon
    <2> QED
      BY Zenon, <1>1, <1>2, <1>4, <2>1 DEF ReceiverListens, IsOpen, conn, Goto, Inv, TypeOK, Threads
  <1> QED
    BY Zenon, <1>8, <1>9, <1>10, <1>11, <1>12, <1>13 DEF Inv

(* recvfrom() fails: the receiver connects again, or gives up.             *)
LEMMA RecvFailsInv ==
  ASSUME Inv, recvFails
  PROVE  Inv'
  <1>1. /\ exited = "no" /\ pc["receiver"] \in {"recv", "blocked"}
        /\ UNCHANGED <<options, dials, dialled, sock, conn, sent, received, alarm, echo, out,
                       back, wire, failed, repeats>>
    BY Zenon DEF recvFails, At, NoPacket
  <1>2. /\ attempt' \in [Threads -> 1..MAX_ATTEMPT] /\ pc' \in [Threads -> Labels]
        /\ pc'["main"] = pc["main"] /\ pc'["sender"] = pc["sender"]
        /\ pc'["receiver"] \in {"init", pc["receiver"]}
        /\ exited' \in {"fatal", "no"}
    BY Zenon, <1>1, FailureIs DEF recvFails, Inv, Threads, Labels
  <1>3. TypeOK'
    BY <1>1, <1>2 DEF Inv, TypeOK, Labels, options, conn
  <1>4. Phase'
    BY Zenon, <1>1, <1>2 DEF Inv, Phase, Connecting
  <1>5. Connection' /\ Single'
    <2>1. \A t \in Threads : \A l \in {"dial", "connect", "store", "address"} : pc'[t] = l <=> pc[t] = l
      BY Zenon, <1>1, <1>2 DEF Threads
    <2> QED
      BY Zenon, <1>1, <1>2, <2>1, SameConnection DEF options, conn
  <1>6. Numbered' /\ EchoesCounted'
    BY Zenon, <1>1, <1>2, SameCounts
  <1>7. Passed' /\ StopsAtCount'
    BY Zenon, <1>1, <1>2, SameLoop DEF options
  <1>8. ReceiverListens' /\ Quiet'
    BY Zenon, <1>1, <1>2, SameListening, SameQuiet DEF conn
  <1> QED
    BY Zenon, <1>3, <1>4, <1>5, <1>6, <1>7, <1>8 DEF Inv

\* An echo is counted as it leaves the network.
LEMMA RecvReturnsInv ==
  ASSUME Inv, recvReturns
  PROVE  Inv'
  <1>1. /\ exited = "no" /\ pc["receiver"] = "blocked" /\ received' = received + 1
        /\ serverInfo' = "server" /\ attempt' = [attempt EXCEPT !["receiver"] = 1]
        /\ Goto("receiver", "recv")
        /\ UNCHANGED <<options, dials, dialled, sock, connfd, table, made, overlap, sent,
                       alarm, exited, echo, out, wire, failed, errors>>
    BY Zenon DEF recvReturns, At
  <1>2. PICK d \in back : Taken(d, back, back')
    BY Zenon DEF recvReturns
  <1>3. pc' = [u \in Threads |-> IF u = "receiver" THEN "recv" ELSE pc[u]]
    BY Zenon, <1>1, Turn DEF Inv, Threads
  <1>4. /\ pc' \in [Threads -> Labels] /\ pc'["receiver"] = "recv"
        /\ pc'["main"] = pc["main"] /\ pc'["sender"] = pc["sender"]
    BY Zenon, <1>3 DEF Inv, TypeOK, Labels, Threads
  <1>5. attempt' \in [Threads -> 1..MAX_ATTEMPT]
    <2>1. 1 \in 1..MAX_ATTEMPT
      BY Constants
    <2>2. attempt \in [Threads -> 1..MAX_ATTEMPT]
      BY Zenon DEF Inv, TypeOK
    <2> QED
      BY Zenon, <1>1, <2>1, <2>2
  <1>6. IsFiniteSet(out) /\ IsFiniteSet(back) /\ repeats \in Nat /\ received \in Nat
    BY Zenon, FS_Subset DEF Inv, TypeOK, Numbered, EchoesCounted
  <1>7. /\ back' \subseteq back /\ IsFiniteSet(back') /\ Cardinality(back') \in Nat
        /\ Cardinality(back) \in Nat /\ repeats' \in Nat
        /\ Cardinality(back') + 1 + repeats <= Cardinality(back) + repeats'
    BY Zenon, <1>2, <1>6, TakenIs
  <1>8. TypeOK'
    BY <1>1, <1>4, <1>5, <1>6, <1>7 DEF Inv, TypeOK, Labels, options
  <1>9. Phase'
    BY Zenon, <1>1, <1>4 DEF Inv, Phase
  <1>10. Connection' /\ Single'
    <2>1. \A t \in Threads : \A l \in {"dial", "connect", "store", "address"} : pc'[t] = l <=> pc[t] = l
      BY Zenon, <1>1, <1>4 DEF Threads
    <2> QED
      BY Zenon, <1>1, <1>4, <2>1, SameConnection DEF options
  <1>11. Numbered'
    BY Zenon, <1>1, <1>4, <1>7 DEF Inv, Numbered
  <1>12. EchoesCounted'
    <2>1. Cardinality(out) \in Nat /\ Cardinality(wire) \in Nat
      BY Zenon, <1>6, FS_CardinalityType DEF Inv, Numbered
    <2> QED
      BY <1>1, <1>6, <1>7, <2>1 DEF Inv, EchoesCounted
  <1>13. Passed' /\ StopsAtCount' /\ Quiet'
    BY Zenon, <1>1, <1>4, SameLoop, SameQuiet DEF options
  <1>14. ReceiverListens'
    BY Zenon, <1>4 DEF ReceiverListens
  <1> QED
    BY Zenon, <1>8, <1>9, <1>10, <1>11, <1>12, <1>13, <1>14 DEF Inv
-----------------------------------------------------------------------------
(* main and its arguments.                                                 *)

(* main() starts the threads and waits for them.                           *)
LEMMA MainInv ==
  ASSUME Inv, main
  PROVE  Inv'
  <1>1. UNCHANGED <<options, attempt, dials, dialled, sock, conn, sent, received, alarm, net>>
    BY Zenon DEF main
  <1>2. CASE pc["main"] = "join" /\ exited' = "return" /\ UNCHANGED pc
    <2>1. TypeOK'
      BY <1>1, <1>2 DEF Inv, TypeOK, options, conn, net
    <2>2. Numbered' /\ EchoesCounted'
      BY Zenon, <1>1, <1>2, SameCounts DEF net
    <2>3. Elsewhere
      BY Zenon, <1>1, <1>2 DEF Elsewhere, thread, net
    <2> QED
      BY Zenon, <1>2, <2>1, <2>2, <2>3, ElsewhereInv
  <1>3. CASE /\ exited = "no" /\ pc["main"] = "start" /\ UNCHANGED exited
             /\ pc' = [main |-> "join", sender |-> "select", receiver |-> "recv"]
    <2>1. /\ pc' \in [Threads -> Labels] /\ pc'["main"] = "join"
          /\ pc'["sender"] = "select" /\ pc'["receiver"] = "recv"
      BY <1>3 DEF Threads, Labels
    <2>2. pc["sender"] = "none" /\ pc["receiver"] = "none"
      BY Zenon, <1>3 DEF Inv, Phase
    <2>3. TypeOK'
      BY <1>1, <1>3, <2>1 DEF Inv, TypeOK, Labels, options, conn, net
    <2>4. Phase' /\ Quiet' /\ ReceiverListens'
      BY Zenon, <2>1 DEF Phase, Quiet, ReceiverListens, Connecting
    <2>5. \A t \in Threads : /\ pc[t] \notin {"dial", "connect", "store", "address"}
                             /\ pc'[t] \notin {"dial", "connect", "store", "address"}
      BY Zenon, <1>3, <2>1, <2>2 DEF Threads
    <2>6. \A f : IsOpen(f)' <=> IsOpen(f)
      BY Zenon, <1>1 DEF IsOpen, conn
    <2>7. \A t \in Threads : ~Holds(t)' /\ ~Dialling(t)'
      BY Zenon, <2>5 DEF Holds, Dialling
    <2>8. Connection'
      BY Zenon, <1>1, <1>3, <2>1, <2>5, <2>6, <2>7 DEF conn, Inv, Connection, Start, Room, Held,
        HeldOld, HeldTwice, Stored, Addressed
    <2>9. Single'
      BY Zenon, <1>1, <2>5, <2>6, <2>7 DEF Inv, Single, conn, options
    <2>10. Numbered' /\ EchoesCounted'
      BY Zenon, <1>1, <1>3, <2>1, SameCounts DEF net
    <2>11. Passed' /\ StopsAtCount'
      BY Zenon, <1>1, <2>1, <2>2, SameLoop DEF options, net
    <2> QED
      BY Zenon, <2>3, <2>4, <2>8, <2>9, <2>10, <2>11 DEF Inv
  <1> QED
    BY Zenon, <1>2, <1>3 DEF main, At

(* parseArguments() sets the options.                                      *)
LEMMA ParseInv ==
  ASSUME Inv, parseArguments
  PROVE  Inv'
  <1>1. /\ exited = "no" /\ pc["main"] = "parse"
        /\ UNCHANGED <<attempt, dials, dialled, sock, conn, sent, received, alarm, net>>
    BY Zenon DEF parseArguments, At
  <1>2. CASE Fatal("main") /\ UNCHANGED options
    <2>1. Elsewhere /\ UNCHANGED pc /\ exited' = "fatal"
      BY Zenon, <1>1, <1>2 DEF Elsewhere, Fatal, thread, net
    <2>2. TypeOK'
      BY <1>1, <1>2, <2>1 DEF Inv, TypeOK, options, conn, net
    <2>3. Numbered' /\ EchoesCounted'
      BY Zenon, <1>1, <2>1, SameCounts DEF net
    <2> QED
      BY Zenon, <1>1, <2>1, <2>2, <2>3, ElsewhereInv
  <1>3. CASE /\ toSend' \in ToSends \cup {-1} /\ waiting' \in BOOLEAN /\ dotted' \in BOOLEAN
             /\ Goto("main", "init") /\ UNCHANGED exited
    <2>1. pc' = [u \in Threads |-> IF u = "main" THEN "init" ELSE pc[u]]
      BY Zenon, <1>3, Turn DEF Inv, Threads
    <2>2. /\ pc' \in [Threads -> Labels] /\ pc'["main"] = "init"
          /\ pc'["sender"] = "none" /\ pc'["receiver"] = "none"
      BY Zenon, <1>1, <2>1 DEF Inv, TypeOK, Phase, Labels, Threads
    <2>3. TypeOK'
      BY <1>1, <1>3, <2>2 DEF Inv, TypeOK, Labels, conn, net
    <2>4. Phase' /\ Quiet' /\ ReceiverListens'
      BY Zenon, <2>2 DEF Phase, Quiet, ReceiverListens, Connecting
    <2>5. \A t \in Threads : pc'[t] \notin {"dial", "connect", "store", "address"}
      BY Zenon, <2>2 DEF Threads
    <2>6. \A f : IsOpen(f)' <=> IsOpen(f)
      BY Zenon, <1>1 DEF IsOpen, conn
    <2>7. \A t \in Threads : ~Holds(t)' /\ ~Dialling(t)'
      BY Zenon, <2>5 DEF Holds, Dialling
    <2>8. Connection'
      BY Zenon, <1>1, <2>2, <2>5, <2>6, <2>7 DEF conn, Inv, Connection, Start, Room, Held,
        HeldOld, HeldTwice, Stored, Addressed
    <2>9. \A f \in Fds : IsOpen(f) => f = connfd
      BY Zenon, <1>1 DEF Inv, Connection, Start, IsOpen
    <2>10. Single'
      BY Zenon, <1>1, <2>5, <2>6, <2>7, <2>9 DEF Single, conn
    <2>11. Numbered' /\ EchoesCounted'
      BY Zenon, <1>1, <2>2, SameCounts DEF net
    <2>12. sent = 0 /\ toSend' \in Int /\ toSend' # 0
      BY <1>1, <1>3, Constants DEF Inv, Numbered
    <2>13. Passed' /\ StopsAtCount'
      BY <1>1, <2>2, <2>12 DEF Passed, StopsAtCount
    <2> QED
      BY Zenon, <2>3, <2>4, <2>8, <2>10, <2>11, <2>13 DEF Inv
  <1> QED
    BY Zenon, <1>2, <1>3 DEF parseArguments

-----------------------------------------------------------------------------
(* initConnection().                                                       *)

\* At most two threads are inside it.
LEMMA AtMostTwo ==
  ASSUME Phase, NEW t \in Threads, NEW u \in Threads, NEW v \in Threads,
         t # u, u # v, t # v
  PROVE  ~(pc[t] \in Connecting /\ pc[u] \in Connecting /\ pc[v] \in Connecting)
  BY Zenon DEF Phase, Threads, Connecting

\* Where a thread goes on after it.
LEMMA ResumeIs ==
  ASSUME NEW t \in Threads
  PROVE  Resume(t) \in {"start", "select", "recv"}
  BY DEF Resume, Threads

\* The types, when what initConnection() writes has its own.
LEMMA InsideTypes ==
  ASSUME TypeOK, pc' \in [Threads -> Labels], dials' \in [Threads -> 1..MAX_ATTEMPT],
         dialled' \in [Threads -> Fds \cup {Closed}], connfd' \in Fds \cup {Closed},
         table' \in [Fds -> Sockets \cup {Stdin, Closed}], made' \in 0..MaxSockets,
         serverInfo' \in {"zero", "server"}, exited' \in {"no", "fatal", "return", "alarm"},
         UNCHANGED <<options, attempt, sock, sent, received, alarm, echo, out, back, wire>>
  PROVE  TypeOK'
  BY DEF TypeOK, Labels, options

\* What a step inside it does not touch.
LEMMA InsideInv ==
  ASSUME Inv, NEW t \in Threads, pc[t] \in Connecting,
         NEW l \in Connecting \cup {Resume(t)},
         pc' = [u \in Threads |-> IF u = t THEN l ELSE pc[u]],
         UNCHANGED <<options, attempt, sock, sent, received, alarm, echo, out, back, wire,
                     failed, repeats>>,
         exited' = "no" => exited = "no"
  PROVE  /\ Phase' /\ Quiet' /\ Numbered' /\ EchoesCounted' /\ Passed' /\ StopsAtCount'
         /\ ReceiverListens' /\ pc' \in [Threads -> Labels]
  <1>1. Resume(t) \in {"start", "select", "recv"}
    BY Zenon, ResumeIs
  <1>2. pc' \in [Threads -> Labels]
    BY Zenon, <1>1 DEF Inv, TypeOK, Labels, Connecting
  <1>3. /\ pc'["main"] = IF t = "main" THEN l ELSE pc["main"]
        /\ pc'["sender"] = IF t = "sender" THEN l ELSE pc["sender"]
        /\ pc'["receiver"] = IF t = "receiver" THEN l ELSE pc["receiver"]
    BY Zenon DEF Threads
  <1>4. /\ Resume("main") = "start" /\ Resume("sender") = "select" /\ Resume("receiver") = "recv"
    BY Zenon DEF Resume
  <1>5. t \in {"main", "sender", "receiver"}
    BY Zenon DEF Threads
  <1>6. Phase'
    BY <1>3, <1>4, <1>5 DEF Inv, Phase, Connecting
  <1>7. Numbered' /\ EchoesCounted'
    BY Zenon, <1>1, <1>3, <1>4, <1>5, SameCounts DEF Connecting
  <1>8. Passed' /\ StopsAtCount'
    BY Zenon, <1>1, <1>3, <1>4, <1>5, SameLoop DEF Connecting, options
  <1>9. Quiet'
    BY Zenon, <1>3, <1>5, SameQuiet
  <1>10. ReceiverListens'
    <2>1. pc'["receiver"] = "blocked" => pc["receiver"] = "blocked" /\ t # "receiver"
      BY Zenon, <1>1, <1>3 DEF Connecting
    <2>2. pc["receiver"] = "blocked" => t = "sender" \/ t = "receiver"
      BY Zenon, <1>5 DEF Inv, Phase, Connecting
    <2>3. t = "sender" => failed # {}
      BY Zenon DEF Inv, Quiet
    <2> QED
      BY Zenon, <2>1, <2>2, <2>3 DEF ReceiverListens
  <1> QED
    BY Zenon, <1>2, <1>6, <1>7, <1>8, <1>9, <1>10
\* A thread closes connfd.  If the other holds that very descriptor, all below
\* it are open, and this thread will be given it.
LEMMA InitConnectionInv ==
  ASSUME Inv, NEW t \in Threads, initConnection(t)
  PROVE  Inv'
  <1>1. /\ exited = "no" /\ pc[t] = "init" /\ serverInfo' = "zero" /\ table' = close(connfd)
        /\ overlap' = (overlap \/ \E u \in Threads \ {t} : pc[u] \in {"dial", "connect", "store"})
        /\ Goto(t, "dial")
        /\ UNCHANGED <<options, attempt, dials, dialled, sock, connfd, made, count, net>>
    BY Zenon DEF initConnection, At, Dials
  <1>2. pc' = [u \in Threads |-> IF u = t THEN "dial" ELSE pc[u]]
    BY Zenon, <1>1, Turn DEF Inv
  <1>3. /\ Phase' /\ Quiet' /\ Numbered' /\ EchoesCounted' /\ Passed' /\ StopsAtCount'
        /\ ReceiverListens' /\ pc' \in [Threads -> Labels]
    BY Zenon, <1>1, <1>2, InsideInv DEF Connecting, count, net
  <1>4. /\ table' \in [Fds -> Sockets \cup {Stdin, Closed}]
        /\ \A f \in Fds : table'[f] = IF f = connfd THEN Closed ELSE table[f]
    BY Zenon, <1>1 DEF Inv, TypeOK, close, IsOpen
  <1>5. \A f \in Fds : IsOpen(f)' <=> IsOpen(f) /\ f # connfd
    BY Zenon, <1>4 DEF IsOpen
  <1>6. TypeOK'
    BY <1>1, <1>3, <1>4 DEF Inv, TypeOK, Labels, options, count, net
  <1>7. \A u \in Threads \ {t} : (Holds(u)' <=> Holds(u)) /\ (Dialling(u)' <=> Dialling(u))
    BY Zenon, <1>1, <1>2 DEF Holds, Dialling
  <1>8. ~Holds(t)' /\ Dialling(t)' /\ ~Holds(t) /\ ~Dialling(t)
    BY Zenon, <1>1, <1>2 DEF Holds, Dialling
  <1>9. \A u \in Threads : Holds(u) \/ Dialling(u) => pc[u] \in Connecting
    BY Zenon DEF Holds, Dialling, Connecting
  <1>10. pc[t] \in Connecting
    BY Zenon, <1>1 DEF Connecting
  <1>11. \A u \in Threads : Holds(u) => ~\E v \in Threads : Failed(v)
    <2> SUFFICES ASSUME NEW u \in Threads, NEW v \in Threads, Holds(u), Failed(v)
                 PROVE  FALSE
      BY Zenon
    <2>1. u # v /\ u # t /\ v # t /\ pc[u] \in Connecting /\ pc[v] \in Connecting
      BY Zenon, <1>1, <1>9 DEF Holds, Failed, Connecting
    <2> QED
      BY Zenon, <1>10, <2>1, AtMostTwo DEF Inv
  <1>12. Start'
    <2>1. CASE t = "main"
      <3>1. pc'["main"] = "dial"
        BY Zenon, <1>2, <2>1 DEF Threads
      <3>2. \A f \in Fds : table'[f] # Stdin
        BY Zenon, <1>1, <1>4, <2>1, Constants DEF Inv, Connection, Start
      <3> QED
        BY Zenon, <3>1, <3>2 DEF Start
    <2>2. CASE t # "main"
      <3>1. pc["main"] = "join" /\ pc'["main"] = "join"
        BY Zenon, <1>1, <1>2, <2>2 DEF Inv, Phase, Threads
      <3> QED
        BY Zenon, <1>4, <3>1, Constants DEF Inv, Connection, Start
    <2> QED
      BY Zenon, <2>1, <2>2
  <1>13. Room'
    BY Zenon, <1>1, <1>5 DEF Inv, Connection, Room
  <1>14. Held'
    <2> SUFFICES ASSUME NEW u \in Threads, Holds(u)'
                 PROVE  \/ IsOpen(dialled[u])'
                        \/ Full(dialled[u])' /\ \E v \in Threads \ {u} : Dialling(v)'
      BY Zenon DEF Held
    <2>1. u # t /\ Holds(u) /\ dialled'[u] = dialled[u]
      BY Zenon, <1>1, <1>7, <1>8
    <2>2. dialled[u] \in Fds
      BY Zenon, <2>1 DEF Inv, TypeOK, Holds
    <2>3. CASE IsOpen(dialled[u]) /\ dialled[u] # connfd
      BY Zenon, <1>5, <2>1, <2>2, <2>3
    <2>4. CASE dialled[u] = connfd
      <3>1. Full(connfd)
        BY Zenon, <1>11, <2>1, <2>4 DEF Inv, Connection, HeldOld
      <3>2. Full(dialled[u])'
        <4>1. dialled[u]' = connfd /\ connfd \in Nat
          BY Zenon, <2>1, <2>2, <2>4, Constants
        <4>2. \A g \in Fds : g < connfd => g # connfd /\ IsOpen(g)
          BY <3>1, <4>1, Constants DEF Full
        <4>3. \A g \in Fds : g < connfd => IsOpen(g)'
          BY Zenon, <1>5, <4>2
        <4> QED
          BY Zenon, <4>1, <4>3 DEF Full
      <3> QED
        BY Zenon, <1>1, <1>8, <2>1, <3>2 DEF Full
    <2>5. CASE ~IsOpen(dialled[u])
      <3>1. PICK v \in Threads \ {u} : Dialling(v)
        BY Zenon, <2>1, <2>5 DEF Inv, Connection, Held
      <3>2. v # t
        BY Zenon, <1>8, <3>1
      <3> QED
        BY Zenon, <1>9, <1>10, <2>1, <3>1, <3>2, AtMostTwo DEF Inv
    <2> QED
      BY Zenon, <2>3, <2>4, <2>5
  <1>15. HeldOld'
    <2> SUFFICES ASSUME NEW u \in Threads, Holds(u)', dialled'[u] = connfd'
                 PROVE  Full(connfd)'
      BY Zenon DEF HeldOld, Full
    <2>1. Holds(u) /\ dialled[u] = connfd
      BY Zenon, <1>1, <1>7, <1>8
    <2>2. Full(connfd) /\ connfd \in Fds
      BY Zenon, <1>11, <2>1 DEF Inv, TypeOK, Connection, HeldOld, Holds
    <2> QED
      BY <1>1, <1>5, <2>2, Constants DEF Full
  <1>16. HeldTwice'
    <2> SUFFICES ASSUME NEW u \in Threads, NEW v \in Threads, u # v, Holds(u)', Holds(v)'
                 PROVE  FALSE
      BY Zenon DEF HeldTwice
    <2>1. u # t /\ v # t /\ Holds(u) /\ Holds(v)
      BY Zenon, <1>7, <1>8
    <2> QED
      BY Zenon, <1>9, <1>10, <2>1, AtMostTwo DEF Inv
  <1>17. pc'[t] = "dial"
    BY Zenon, <1>2
  <1>18. Stored' /\ Addressed'
    BY Zenon, <1>17 DEF Stored, Addressed
  <1>19. Single'
    <2> SUFFICES ASSUME dotted', ~overlap'
                 PROVE  Single'
      BY Zenon DEF Single
    <2>1. dotted /\ ~overlap /\ \A u \in Threads \ {t} : pc[u] \notin {"dial", "connect", "store"}
      BY Zenon, <1>1 DEF options
    <2>2. \A u \in Threads \ {t} : pc'[u] \notin {"dial", "connect", "store"} /\ ~Holds(u)'
      BY Zenon, <1>2, <2>1 DEF Holds
    <2>3. \A f \in Fds : IsOpen(f) => f = connfd
      BY Zenon, <1>1, <2>1 DEF Inv, Single
    <2>4. \A f \in Fds : ~IsOpen(f)'
      BY Zenon, <1>5, <2>3
    <2> QED
      BY Zenon, <1>8, <1>17, <2>2, <2>4 DEF Single
  <1> QED
    BY Zenon, <1>3, <1>6, <1>12, <1>13, <1>14, <1>15, <1>16, <1>18, <1>19 DEF Inv, Connection

\* The lowest free descriptor: the one another thread holds and lost, if any.
LEMMA NetdialInv ==
  ASSUME Inv, NEW t \in Threads, netdial(t)
  PROVE  Inv'
  <1> DEFINE f0 == Lowest
  <1>1. /\ exited = "no" /\ pc[t] = "dial" /\ made < MaxSockets /\ made' = made + 1
        /\ table' = [table EXCEPT ![f0] = made'] /\ dialled' = [dialled EXCEPT ![t] = f0]
        /\ Goto(t, "connect")
        /\ UNCHANGED <<options, attempt, dials, sock, connfd, serverInfo, overlap, count, net>>
    BY Zenon DEF netdial, At
  <1>2. f0 \in Fds /\ ~IsOpen(f0) /\ Full(f0) /\ f0 <= made + 1
    BY Zenon, <1>1, LowestIs DEF Inv, Connection
  <1> HIDE DEF f0
  <1>3. pc' = [u \in Threads |-> IF u = t THEN "connect" ELSE pc[u]]
    BY Zenon, <1>1, Turn DEF Inv
  <1>4. /\ Phase' /\ Quiet' /\ Numbered' /\ EchoesCounted' /\ Passed' /\ StopsAtCount'
        /\ ReceiverListens' /\ pc' \in [Threads -> Labels]
    BY Zenon, <1>1, <1>3, InsideInv DEF Connecting, count, net
  <1>5. made' \in Sockets /\ made' \in 0..MaxSockets /\ made \in Nat
    BY <1>1, Constants DEF Inv, TypeOK, Sockets
  <1>6. /\ table' \in [Fds -> Sockets \cup {Stdin, Closed}]
        /\ \A f \in Fds : table'[f] = IF f = f0 THEN made' ELSE table[f]
    BY Zenon, <1>1, <1>2, <1>5 DEF Inv, TypeOK
  <1>7. made' # Closed /\ made' # Stdin
    BY <1>5 DEF Sockets, Closed, Stdin
  <1>8. \A f \in Fds : IsOpen(f)' <=> IsOpen(f) \/ f = f0
    BY Zenon, <1>6, <1>7 DEF IsOpen
  <1>9. /\ dialled' \in [Threads -> Fds \cup {Closed}]
        /\ \A u \in Threads : dialled'[u] = IF u = t THEN f0 ELSE dialled[u]
    BY Zenon, <1>1, <1>2 DEF Inv, TypeOK
  <1>10. TypeOK'
    <2>1. /\ UNCHANGED <<options, attempt, sock, sent, received, alarm, echo, out, back, wire>>
          /\ UNCHANGED <<dials, connfd, serverInfo, exited>>
      BY Zenon, <1>1 DEF count, net
    <2>2. /\ dials' \in [Threads -> 1..MAX_ATTEMPT] /\ connfd' \in Fds \cup {Closed}
          /\ serverInfo' \in {"zero", "server"} /\ exited' \in {"no", "fatal", "return", "alarm"}
      BY Zenon, <2>1 DEF Inv, TypeOK
    <2> QED
      BY Zenon, <1>4, <1>5, <1>6, <1>9, <2>1, <2>2, InsideTypes DEF Inv
  <1>11. \A u \in Threads \ {t} : (Holds(u)' <=> Holds(u)) /\ (Dialling(u)' <=> Dialling(u))
    BY Zenon, <1>3, <1>9 DEF Holds, Dialling
  <1>12. Holds(t)' /\ ~Dialling(t)' /\ ~Holds(t) /\ Dialling(t)
    BY Zenon, <1>1, <1>2, <1>3, <1>9, Constants DEF Holds, Dialling
  <1>13. \A f : Full(f) => Full(f)'
    BY Zenon, <1>8 DEF Full
  <1>14. Start'
    <2>1. pc["main"] \notin {"parse", "init"} /\ pc'["main"] \notin {"parse", "init"}
      BY Zenon, <1>1, <1>3 DEF Inv, Phase, Threads
    <2> QED
      BY Zenon, <1>6, <1>7, <2>1 DEF Inv, Connection, Start
  <1>15. Room'
    BY <1>1, <1>2, <1>5, <1>8, Constants DEF Inv, Connection, Room
  <1>16. Held'
    <2> SUFFICES ASSUME NEW u \in Threads, Holds(u)'
                 PROVE  IsOpen(dialled[u])'
      BY Zenon DEF Held
    <2>1. CASE u = t
      BY Zenon, <1>2, <1>8, <1>9, <2>1
    <2>2. CASE u # t
      <3>1. Holds(u) /\ dialled'[u] = dialled[u]
        BY Zenon, <1>9, <1>11, <2>2
      <3>2. dialled[u] \in Fds
        BY Zenon, <3>1 DEF Inv, TypeOK, Holds
      <3>3. CASE IsOpen(dialled[u])
        BY Zenon, <1>8, <3>1, <3>2, <3>3
      <3>4. CASE ~IsOpen(dialled[u])
        <4>1. Full(dialled[u])
          BY Zenon, <3>1, <3>4 DEF Inv, Connection, Held
        <4>2. ~(dialled[u] < f0) /\ ~(f0 < dialled[u])
          BY Zenon, <1>2, <3>2, <3>4, <4>1 DEF Full
        <4>3. dialled[u] = f0
          BY <1>2, <3>2, <4>2, Constants DEF Fds
        <4> QED
          BY Zenon, <1>8, <3>1, <3>2, <4>3
      <3> QED
        BY Zenon, <3>3, <3>4
    <2> QED
      BY Zenon, <2>1, <2>2
  <1>17. HeldOld'
    <2> SUFFICES ASSUME NEW u \in Threads, Holds(u)', dialled'[u] = connfd'
                 PROVE  Full(connfd)' \/ \E v \in Threads : Failed(v)'
      BY Zenon DEF HeldOld, Full
    <2>1. CASE u = t
      <3>1. connfd = f0
        BY Zenon, <1>1, <1>9, <2>1
      <3> QED
        BY Zenon, <1>1, <1>2, <1>13, <3>1 DEF Full
    <2>2. CASE u # t
      <3>1. Holds(u) /\ dialled[u] = connfd
        BY Zenon, <1>1, <1>9, <1>11, <2>2
      <3>2. CASE Full(connfd)
        BY Zenon, <1>1, <1>8, <3>2 DEF Full
      <3>3. CASE \E v \in Threads : Failed(v)
        <4>1. PICK v \in Threads : Failed(v)
          BY Zenon, <3>3
        <4>2. Failed(v)'
          BY Zenon, <1>1, <1>3, <1>9, <4>1 DEF Failed
        <4> QED
          BY Zenon, <4>2
      <3> QED
        BY Zenon, <3>1, <3>2, <3>3 DEF Inv, Connection, HeldOld
    <2> QED
      BY Zenon, <2>1, <2>2
  <1>18. HeldTwice'
    <2> SUFFICES ASSUME NEW u \in Threads, NEW v \in Threads, u # v, Holds(u)', Holds(v)',
                        dialled'[u] = dialled'[v]
                 PROVE  \A g \in Fds : g < dialled'[u] => IsOpen(g)'
      BY Zenon DEF HeldTwice, Full
    <2>1. CASE u = t \/ v = t
      <3>1. dialled'[u] = f0
        BY Zenon, <1>9, <2>1
      <3> QED
        BY Zenon, <1>2, <1>8, <3>1 DEF Full
    <2>2. CASE u # t /\ v # t
      <3>1. Holds(u) /\ Holds(v) /\ dialled[u] = dialled[v] /\ dialled'[u] = dialled[u]
        BY Zenon, <1>9, <1>11, <2>2
      <3>2. Full(dialled[u])
        BY Zenon, <3>1 DEF Inv, Connection, HeldTwice
      <3> QED
        BY Zenon, <1>8, <3>1, <3>2 DEF Full
    <2> QED
      BY Zenon, <2>1, <2>2
  <1>19. pc'[t] = "connect"
    BY Zenon, <1>3
  <1>20. Stored' /\ Addressed'
    BY Zenon, <1>19 DEF Stored, Addressed
  <1>21. Single'
    <2> SUFFICES ASSUME dotted', ~overlap'
                 PROVE  Single'
      BY Zenon DEF Single
    <2>1. dotted /\ ~overlap
      BY Zenon, <1>1 DEF options
    <2>2. \A u \in Threads \ {t} : pc[u] \notin {"dial", "connect", "store"}
      BY Zenon, <1>1, <2>1 DEF Inv, Single
    <2>3. \A u \in Threads \ {t} : /\ pc'[u] \notin {"dial", "connect", "store"}
                                   /\ ~Holds(u)' /\ ~Dialling(u)'
      BY Zenon, <1>3, <2>2 DEF Holds, Dialling
    <2>4. \A f \in Fds : ~IsOpen(f)
      BY Zenon, <1>12, <2>1 DEF Inv, Single
    <2>5. \A f \in Fds : IsOpen(f)' => f = dialled'[t]
      BY Zenon, <1>8, <1>9, <2>4
    <2> QED
      BY Zenon, <1>12, <1>19, <2>3, <2>5 DEF Single
  <1> QED
    BY Zenon, <1>4, <1>10, <1>14, <1>15, <1>16, <1>17, <1>18, <1>20, <1>21 DEF Inv, Connection

\* A step that opens and closes nothing: socket() failed, and the thread still
\* has no descriptor; or connect() succeeded, and it keeps the one it has.
LEMMA SameSocketsInv ==
  ASSUME Inv, NEW t \in Threads, exited = "no", Goto(t, "store"),
         \/ pc[t] = "dial" /\ dialled' = [dialled EXCEPT ![t] = Closed]
         \/ pc[t] = "connect" /\ dialled[t] # Closed /\ dialled' = dialled,
         UNCHANGED <<options, attempt, dials, sock, conn, count, echo, out, back, wire,
                     failed, repeats>>
  PROVE  Inv'
  <1>1. pc[t] \in {"dial", "connect"}
    OBVIOUS
  <1>2. pc' = [u \in Threads |-> IF u = t THEN "store" ELSE pc[u]]
    BY Zenon, Turn DEF Inv
  <1>3. /\ Phase' /\ Quiet' /\ Numbered' /\ EchoesCounted' /\ Passed' /\ StopsAtCount'
        /\ ReceiverListens' /\ pc' \in [Threads -> Labels]
    BY Zenon, <1>1, <1>2, InsideInv DEF Connecting, count
  <1>4. /\ dialled' \in [Threads -> Fds \cup {Closed}]
        /\ \A u \in Threads : dialled'[u] = IF u = t /\ pc[t] = "dial" THEN Closed ELSE dialled[u]
    BY Zenon DEF Inv, TypeOK
  <1>5. TypeOK'
    <2>1. /\ UNCHANGED <<options, attempt, sock, sent, received, alarm, echo, out, back, wire>>
          /\ UNCHANGED <<dials, connfd, serverInfo, table, made, exited>>
      BY Zenon, <1>1 DEF count, conn
    <2>2. /\ dials' \in [Threads -> 1..MAX_ATTEMPT] /\ connfd' \in Fds \cup {Closed}
          /\ serverInfo' \in {"zero", "server"} /\ exited' \in {"no", "fatal", "return", "alarm"}
          /\ table' \in [Fds -> Sockets \cup {Stdin, Closed}] /\ made' \in 0..MaxSockets
      BY Zenon, <2>1 DEF Inv, TypeOK
    <2> QED
      BY Zenon, <1>3, <1>4, <2>1, <2>2, InsideTypes DEF Inv
  <1>6. /\ connfd' = connfd /\ table' = table /\ made' = made /\ overlap' = overlap
        /\ serverInfo' = serverInfo /\ dotted' = dotted
    BY Zenon, <1>1 DEF conn, options
  <1>7. \A f : IsOpen(f)' <=> IsOpen(f)
    BY Zenon, <1>6 DEF IsOpen
  <1>8. \A u \in Threads : /\ Holds(u)' <=> Holds(u)
                           /\ Dialling(u)' <=> Dialling(u)
                           /\ Holds(u) => dialled'[u] = dialled[u]
                           /\ Failed(u) => Failed(u)'
    BY Zenon, <1>2, <1>4 DEF Holds, Dialling, Failed
  <1>9. \A f : Full(f)' <=> Full(f)
    BY Zenon, <1>7 DEF Full
  <1>10. Start'
    <2>1. pc["main"] \notin {"parse", "init"} /\ pc'["main"] \notin {"parse", "init"}
      BY Zenon, <1>1, <1>2 DEF Inv, Phase, Threads
    <2> QED
      BY Zenon, <1>6, <2>1 DEF Inv, Connection, Start
  <1>11. Room'
    BY Zenon, <1>6, <1>7 DEF Inv, Connection, Room
  <1>12. Held'
    <2> SUFFICES ASSUME NEW u \in Threads, Holds(u)'
                 PROVE  \/ IsOpen(dialled[u])'
                        \/ Full(dialled[u])' /\ \E v \in Threads \ {u} : Dialling(v)'
      BY Zenon DEF Held
    <2>1. Holds(u) /\ dialled'[u] = dialled[u]
      BY Zenon, <1>8
    <2> QED
      BY Zenon, <1>6, <1>7, <1>8, <2>1 DEF Inv, Connection, Held, IsOpen, Full
  <1>13. HeldOld' /\ HeldTwice'
    BY Zenon, <1>6, <1>7, <1>8 DEF Inv, Connection, HeldOld, HeldTwice, Full
  <1>14. pc'[t] = "store"
    BY Zenon, <1>2
  <1>15. Stored' /\ Addressed'
    BY Zenon, <1>14 DEF Stored, Addressed
  <1>16. Single'
    <2>1. \A u \in Threads : pc'[u] \in {"dial", "connect", "store"} <=> pc[u] \in {"dial", "connect", "store"}
      BY Zenon, <1>1, <1>2
    <2> QED
      BY Zenon, <1>6, <1>7, <1>8, <2>1 DEF Inv, Single
  <1> QED
    BY Zenon, <1>3, <1>5, <1>10, <1>11, <1>12, <1>13, <1>15, <1>16 DEF Inv, Connection

(* socket() fails.                                                         *)
LEMMA SocketFailsInv ==
  ASSUME Inv, NEW t \in Threads, socketFails(t)
  PROVE  Inv'
  BY Zenon, SameSocketsInv DEF socketFails, At

(* connect() succeeds on a descriptor that is open.                        *)
LEMMA ConnectInv ==
  ASSUME Inv, NEW t \in Threads, connect(t)
  PROVE  Inv'
  <1>1. dialled[t] # Closed
    BY Zenon, Constants DEF connect, IsOpen
  <1> QED
    BY Zenon, <1>1, SameSocketsInv DEF connect, At, net

\* A thread gives up the descriptor in its hands.  If the other holds the same,
\* all below it are open, and the next socket() of this thread returns it.
LEMMA ConnectFailsInv ==
  ASSUME Inv, NEW t \in Threads, connectFails(t)
  PROVE  Inv'
  <1> DEFINE f0 == dialled[t]
  <1>1. /\ exited = "no" /\ pc[t] = "connect" /\ table' = close(f0)
        /\ dialled' = [dialled EXCEPT ![t] = Closed] /\ Goto(t, "store")
        /\ UNCHANGED <<options, attempt, dials, sock, connfd, serverInfo, made, overlap, count,
                       echo, out, back, wire, failed, repeats>>
    BY Zenon DEF connectFails, At
  <1> HIDE DEF f0
  <1>2. pc' = [u \in Threads |-> IF u = t THEN "store" ELSE pc[u]]
    BY Zenon, <1>1, Turn DEF Inv
  <1>3. /\ Phase' /\ Quiet' /\ Numbered' /\ EchoesCounted' /\ Passed' /\ StopsAtCount'
        /\ ReceiverListens' /\ pc' \in [Threads -> Labels]
    BY Zenon, <1>1, <1>2, InsideInv DEF Connecting, count
  <1>4. /\ table' \in [Fds -> Sockets \cup {Stdin, Closed}]
        /\ \A f \in Fds : table'[f] = IF f = f0 THEN Closed ELSE table[f]
    BY Zenon, <1>1 DEF Inv, TypeOK, close, IsOpen
  <1>5. \A f \in Fds : IsOpen(f)' <=> IsOpen(f) /\ f # f0
    BY Zenon, <1>4 DEF IsOpen
  <1>6. /\ dialled' \in [Threads -> Fds \cup {Closed}] /\ dialled'[t] = Closed
        /\ \A u \in Threads \ {t} : dialled'[u] = dialled[u]
    BY Zenon, <1>1 DEF Inv, TypeOK
  <1>7. TypeOK'
    <2>1. /\ UNCHANGED <<options, attempt, sock, sent, received, alarm, echo, out, back, wire>>
          /\ UNCHANGED <<dials, connfd, serverInfo, made, exited>>
      BY Zenon, <1>1 DEF count
    <2>2. /\ dials' \in [Threads -> 1..MAX_ATTEMPT] /\ connfd' \in Fds \cup {Closed}
          /\ serverInfo' \in {"zero", "server"} /\ exited' \in {"no", "fatal", "return", "alarm"}
          /\ made' \in 0..MaxSockets
      BY Zenon, <2>1 DEF Inv, TypeOK
    <2> QED
      BY Zenon, <1>3, <1>4, <1>6, <2>1, <2>2, InsideTypes DEF Inv
  <1>8. \A u \in Threads \ {t} : (Holds(u)' <=> Holds(u)) /\ (Dialling(u)' <=> Dialling(u))
    BY Zenon, <1>2, <1>6 DEF Holds, Dialling
  <1>9. ~Holds(t)' /\ Dialling(t)' /\ Failed(t)' /\ pc'[t] = "store"
    BY Zenon, <1>2, <1>6 DEF Holds, Dialling, Failed
  <1>10. pc[t] \in Connecting /\ \A u \in Threads : Holds(u) \/ Dialling(u) => pc[u] \in Connecting
    BY Zenon, <1>1 DEF Holds, Dialling, Connecting
  <1>11. Start'
    <2>1. pc["main"] \notin {"parse", "init"} /\ pc'["main"] \notin {"parse", "init"}
      BY Zenon, <1>1, <1>2 DEF Inv, Phase, Threads
    <2> QED
      BY Zenon, <1>4, <2>1, Constants DEF Inv, Connection, Start
  <1>12. Room'
    BY Zenon, <1>1, <1>5 DEF Inv, Connection, Room
  <1>13. Held'
    <2> SUFFICES ASSUME NEW u \in Threads, Holds(u)'
                 PROVE  \/ IsOpen(dialled[u])'
                        \/ Full(dialled[u])' /\ \E v \in Threads \ {u} : Dialling(v)'
      BY Zenon DEF Held
    <2>1. u # t /\ Holds(u) /\ dialled'[u] = dialled[u]
      BY Zenon, <1>6, <1>8, <1>9
    <2>2. dialled[u] \in Fds
      BY Zenon, <2>1 DEF Inv, TypeOK, Holds
    <2>3. CASE IsOpen(dialled[u]) /\ dialled[u] # f0
      BY Zenon, <1>5, <2>1, <2>2, <2>3
    <2>4. CASE dialled[u] = f0
      <3>1. Holds(t)
        BY Zenon, <1>1, <2>2, <2>4, Constants DEF Holds, f0
      <3>2. Full(f0)
        BY Zenon, <2>1, <2>4, <3>1 DEF Inv, Connection, HeldTwice, f0
      <3>3. \A g \in Fds : g < f0 => g # f0 /\ IsOpen(g)
        BY <2>2, <2>4, <3>2, Constants DEF Full
      <3>4. \A g \in Fds : g < dialled'[u] => IsOpen(g)'
        BY Zenon, <1>5, <2>1, <2>4, <3>3
      <3> QED
        BY Zenon, <1>9, <2>1, <3>4 DEF Full
    <2>5. CASE ~IsOpen(dialled[u])
      <3>1. CASE Dialling(t)
        <4>1. f0 = Closed
          BY Zenon, <1>1, <3>1 DEF Dialling, f0
        <4>2. \A f \in Fds : IsOpen(f)' <=> IsOpen(f)
          BY Zenon, <1>5, <4>1, Constants
        <4>3. Full(dialled[u])
          BY Zenon, <2>1, <2>5 DEF Inv, Connection, Held
        <4>4. \A g \in Fds : g < dialled'[u] => IsOpen(g)'
          BY Zenon, <2>1, <4>2, <4>3 DEF Full
        <4> QED
          BY Zenon, <1>9, <2>1, <4>4 DEF Full
      <3>2. CASE ~Dialling(t)
        <4>1. PICK v \in Threads \ {u} : Dialling(v)
          BY Zenon, <2>1, <2>5 DEF Inv, Connection, Held
        <4> QED
          BY Zenon, <1>10, <2>1, <3>2, <4>1, AtMostTwo DEF Inv
      <3> QED
        BY Zenon, <3>1, <3>2
    <2> QED
      BY Zenon, <2>3, <2>4, <2>5
  <1>14. HeldOld'
    BY Zenon, <1>9 DEF HeldOld
  <1>15. HeldTwice'
    <2> SUFFICES ASSUME NEW u \in Threads, NEW v \in Threads, u # v, Holds(u)', Holds(v)'
                 PROVE  FALSE
      BY Zenon DEF HeldTwice
    <2>1. u # t /\ v # t /\ Holds(u) /\ Holds(v)
      BY Zenon, <1>8, <1>9
    <2> QED
      BY Zenon, <1>10, <2>1, AtMostTwo DEF Inv
  <1>16. Stored' /\ Addressed'
    BY Zenon, <1>9 DEF Stored, Addressed
  <1>17. Single'
    <2> SUFFICES ASSUME dotted', ~overlap'
                 PROVE  Single'
      BY Zenon DEF Single
    <2>1. dotted /\ ~overlap
      BY Zenon, <1>1 DEF options
    <2>2. \A u \in Threads \ {t} : pc[u] \notin {"dial", "connect", "store"}
      BY Zenon, <1>1, <2>1 DEF Inv, Single
    <2>3. \A u \in Threads \ {t} : /\ pc'[u] \notin {"dial", "connect", "store"}
                                   /\ ~Holds(u)' /\ ~Dialling(u)'
      BY Zenon, <1>2, <2>2 DEF Holds, Dialling
    <2>4. \A f \in Fds : IsOpen(f) => f = f0
      BY Zenon, <1>1, <2>1 DEF Inv, Single, Holds, Dialling, f0
    <2>5. \A f \in Fds : ~IsOpen(f)'
      BY Zenon, <1>5, <2>4
    <2> QED
      BY Zenon, <1>9, <2>3, <2>5 DEF Single
  <1> QED
    BY Zenon, <1>3, <1>7, <1>11, <1>12, <1>13, <1>14, <1>15, <1>16, <1>17 DEF Inv, Connection

\* The attempt loops: back to netdial(), or the process ends where it is.
LEMMA NextAttemptIs ==
  ASSUME Inv, NEW t \in Threads, NextAttempt(t)
  PROVE  /\ \/ pc' = [u \in Threads |-> IF u = t THEN "dial" ELSE pc[u]]
            \/ pc' = [u \in Threads |-> IF u = t THEN pc[t] ELSE pc[u]]
         /\ dials' \in [Threads -> 1..MAX_ATTEMPT]
         /\ exited' \in {exited, "fatal"}
  <1>1. CASE MayRetry(dials[t])
    <2>1. Goto(t, "dial") /\ dials' = [dials EXCEPT ![t] = @ + 1] /\ UNCHANGED exited
      BY Zenon, <1>1 DEF NextAttempt
    <2>2. dials[t] + 1 \in 1..MAX_ATTEMPT
      BY <1>1, Constants DEF MayRetry, Inv, TypeOK
    <2> QED
      BY <2>1, <2>2, Turn DEF Inv, TypeOK
  <1>2. CASE ~MayRetry(dials[t])
    <2>1. exited' = "fatal" /\ pc' = pc /\ dials' = dials
      BY Zenon, <1>2 DEF NextAttempt, Fatal
    <2> QED
      BY Zenon, <2>1 DEF Inv, TypeOK
  <1> QED
    BY Zenon, <1>1, <1>2
\* connfd becomes the descriptor in hand, which Held says is open or soon is.
LEMMA StoreConnInv ==
  ASSUME Inv, NEW t \in Threads, storeConn(t)
  PROVE  Inv'
  <1>1. /\ exited = "no" /\ pc[t] = "store" /\ connfd' = dialled[t]
        /\ UNCHANGED <<options, attempt, dialled, sock, serverInfo, table, made, overlap,
                       sent, received, alarm, net>>
    BY Zenon DEF storeConn, At
  <1>2. PICK l \in {"dial", "connect", "store", "address"} :
          /\ pc' = [u \in Threads |-> IF u = t THEN l ELSE pc[u]]
          /\ dialled[t] = Closed <=> l \in {"dial", "connect", "store"}
          /\ dials' \in [Threads -> 1..MAX_ATTEMPT] /\ exited' \in {exited, "fatal"}
    <2>1. CASE dialled[t] = Closed
      <3>1. NextAttempt(t)
        BY Zenon, <2>1 DEF storeConn
      <3> QED
        BY Zenon, <1>1, <2>1, <3>1, NextAttemptIs
    <2>2. CASE dialled[t] # Closed
      <3>1. Goto(t, "address") /\ UNCHANGED <<dials, exited>>
        BY Zenon, <2>2 DEF storeConn
      <3> QED
        BY <2>2, <3>1, Turn DEF Inv, TypeOK
    <2> QED
      BY Zenon, <2>1, <2>2
  <1>3. /\ Phase' /\ Quiet' /\ Numbered' /\ EchoesCounted' /\ Passed' /\ StopsAtCount'
        /\ ReceiverListens' /\ pc' \in [Threads -> Labels]
    BY Zenon, <1>1, <1>2, InsideInv DEF Connecting, net
  <1>4. TypeOK'
    <2>1. UNCHANGED <<options, attempt, sock, sent, received, alarm, echo, out, back, wire>>
      BY Zenon, <1>1 DEF net
    <2>2. /\ dialled' \in [Threads -> Fds \cup {Closed}] /\ connfd' \in Fds \cup {Closed}
          /\ table' \in [Fds -> Sockets \cup {Stdin, Closed}] /\ made' \in 0..MaxSockets
          /\ serverInfo' \in {"zero", "server"} /\ exited' \in {"no", "fatal", "return", "alarm"}
      BY Zenon, <1>1, <1>2 DEF Inv, TypeOK
    <2> QED
      BY Zenon, <1>2, <1>3, <2>1, <2>2, InsideTypes DEF Inv
  <1>5. \A f : IsOpen(f)' <=> IsOpen(f)
    BY Zenon, <1>1 DEF IsOpen
  <1>6. \A u \in Threads : /\ Dialling(u)' <=> Dialling(u)
                           /\ Holds(u)' <=> Holds(u) /\ u # t
                           /\ dialled'[u] = dialled[u]
    BY Zenon, <1>1, <1>2 DEF Holds, Dialling
  <1>7. Holds(t) <=> dialled[t] # Closed
    BY Zenon, <1>1 DEF Holds
  <1>8. Start'
    <2>1. pc["main"] \notin {"parse", "init"} /\ pc'["main"] \notin {"parse", "init"}
      BY Zenon, <1>1, <1>2 DEF Inv, Phase, Threads
    <2> QED
      BY Zenon, <1>1, <2>1 DEF Inv, Connection, Start
  <1>9. Room'
    BY Zenon, <1>1, <1>5 DEF Inv, Connection, Room
  <1>10. Held'
    BY Zenon, <1>1, <1>5, <1>6 DEF Inv, Connection, Held, Full, IsOpen
  <1>11. HeldOld'
    <2> SUFFICES ASSUME NEW u \in Threads, Holds(u)', dialled'[u] = connfd'
                 PROVE  Full(connfd)'
      BY Zenon DEF HeldOld, Full
    <2>1. u # t /\ Holds(u) /\ dialled[u] = dialled[t]
      BY Zenon, <1>1, <1>6
    <2>2. Holds(t)
      BY Zenon, <1>7, <2>1 DEF Holds
    <2>3. Full(dialled[t])
      BY Zenon, <2>1, <2>2 DEF Inv, Connection, HeldTwice
    <2> QED
      BY Zenon, <1>1, <1>5, <2>3 DEF Full
  <1>12. HeldTwice'
    BY Zenon, <1>1, <1>5, <1>6 DEF Inv, Connection, HeldTwice, Full, IsOpen
  <1>13. pc'[t] = l
    BY Zenon, <1>2
  <1>14. Stored'
    <2>1. CASE dialled[t] = Closed
      <3>1. pc'[t] \in {"dial", "connect", "store"}
        BY Zenon, <1>2, <1>13, <2>1
      <3> QED
        BY Zenon, <3>1 DEF Stored
    <2>2. CASE dialled[t] # Closed
      <3>1. IsOpen(connfd)' \/ \E u \in Threads : Dialling(u)
        BY Zenon, <1>1, <1>7, <2>2 DEF Inv, Connection, Held, IsOpen
      <3>2. IsOpen(connfd)' \/ \E u \in Threads : pc'[u] \in {"dial", "connect", "store"}
        BY Zenon, <1>6, <3>1 DEF Dialling
      <3> QED
        BY Zenon, <3>2 DEF Stored
    <2> QED
      BY Zenon, <2>1, <2>2
  <1>15. Addressed'
    BY Zenon, <1>13 DEF Addressed
  <1>16. Single'
    <2> SUFFICES ASSUME dotted', ~overlap'
                 PROVE  Single'
      BY Zenon DEF Single
    <2>1. dotted /\ ~overlap
      BY Zenon, <1>1 DEF options
    <2>2. \A u \in Threads \ {t} : /\ pc[u] \notin {"dial", "connect", "store"}
                                   /\ pc'[u] \notin {"dial", "connect", "store"}
      BY Zenon, <1>1, <1>2, <2>1 DEF Inv, Single
    <2>3. \A u \in Threads \ {t} : ~Holds(u)' /\ ~Dialling(u)'
      BY Zenon, <2>2 DEF Holds, Dialling
    <2>4. CASE dialled[t] = Closed
      <3>1. \A f \in Fds : ~IsOpen(f)
        BY Zenon, <1>1, <2>1, <2>4 DEF Inv, Single, Dialling
      <3>2. ~Holds(t)'
        BY Zenon, <1>6
      <3> QED
        BY Zenon, <1>5, <2>2, <2>3, <3>1, <3>2 DEF Single
    <2>5. CASE dialled[t] # Closed
      <3>1. \A f \in Fds : IsOpen(f) => f = connfd'
        BY Zenon, <1>1, <1>7, <2>1, <2>5 DEF Inv, Single
      <3>2. ~Holds(t)' /\ ~Dialling(t)'
        BY Zenon, <1>2, <1>13, <2>5 DEF Holds, Dialling
      <3> QED
        BY Zenon, <1>5, <2>2, <2>3, <3>1, <3>2 DEF Single
    <2> QED
      BY Zenon, <2>4, <2>5
  <1> QED
    BY Zenon, <1>3, <1>4, <1>8, <1>9, <1>10, <1>11, <1>12, <1>14, <1>15, <1>16 DEF Inv, Connection

\* inet_aton() succeeds, and initConnection() returns; or it is tried again.
LEMMA SetAddressInv ==
  ASSUME Inv, NEW t \in Threads, setAddress(t)
  PROVE  Inv'
  <1>1. /\ exited = "no" /\ pc[t] = "address"
        /\ UNCHANGED <<options, attempt, dialled, sock, connfd, table, made, overlap, sent,
                       received, alarm, net>>
    BY Zenon DEF setAddress, At
  <1>2. Resume(t) \in {"start", "select", "recv"}
    BY Zenon, ResumeIs
  <1>3. PICK l \in {"dial", "address", Resume(t)} :
          /\ pc' = [u \in Threads |-> IF u = t THEN l ELSE pc[u]]
          /\ IF dotted THEN l = Resume(t) /\ serverInfo' = "server"
                       ELSE l # Resume(t) /\ serverInfo' = serverInfo
          /\ dials' \in [Threads -> 1..MAX_ATTEMPT] /\ exited' \in {exited, "fatal"}
    <2>1. CASE dotted
      <3>1. /\ serverInfo' = "server" /\ Goto(t, Resume(t)) /\ exited' = exited
            /\ dials' = [dials EXCEPT ![t] = 1]
        BY Zenon, <2>1 DEF setAddress, LeaveInit
      <3>2. 1 \in 1..MAX_ATTEMPT
        BY Constants
      <3>3. dials' \in [Threads -> 1..MAX_ATTEMPT]
        BY Zenon, <3>1, <3>2 DEF Inv, TypeOK
      <3> QED
        BY <2>1, <3>1, <3>3, Turn DEF Inv, TypeOK
    <2>2. CASE ~dotted
      <3>1. NextAttempt(t) /\ UNCHANGED serverInfo
        BY Zenon, <2>2 DEF setAddress
      <3> QED
        BY Zenon, <1>1, <1>2, <2>2, <3>1, NextAttemptIs
    <2> QED
      BY Zenon, <2>1, <2>2
  <1>4. /\ Phase' /\ Quiet' /\ Numbered' /\ EchoesCounted' /\ Passed' /\ StopsAtCount'
        /\ ReceiverListens' /\ pc' \in [Threads -> Labels]
    <2>1. l \in Connecting \cup {Resume(t)} /\ pc[t] \in Connecting
      BY Zenon, <1>1 DEF Connecting
    <2> QED
      BY Zenon, <1>1, <1>3, <2>1, InsideInv DEF net
  <1>5. TypeOK'
    <2>1. serverInfo' \in {"zero", "server"} /\ exited' \in {"no", "fatal", "return", "alarm"}
      BY Zenon, <1>1, <1>3 DEF Inv, TypeOK
    <2>2. UNCHANGED <<options, attempt, sock, sent, received, alarm, echo, out, back, wire>>
      BY Zenon, <1>1 DEF net
    <2>3. /\ dialled' \in [Threads -> Fds \cup {Closed}] /\ connfd' \in Fds \cup {Closed}
          /\ table' \in [Fds -> Sockets \cup {Stdin, Closed}] /\ made' \in 0..MaxSockets
      BY Zenon, <1>1 DEF Inv, TypeOK
    <2> QED
      BY Zenon, <1>3, <1>4, <2>1, <2>2, <2>3, InsideTypes DEF Inv
  <1>6. \A f : IsOpen(f)' <=> IsOpen(f)
    BY Zenon, <1>1 DEF IsOpen
  <1>7. \A u \in Threads : /\ Dialling(u) => Dialling(u)'
                           /\ Holds(u)' <=> Holds(u)
                           /\ Failed(u) => Failed(u)'
                           /\ dialled'[u] = dialled[u]
    BY Zenon, <1>1, <1>2, <1>3 DEF Holds, Dialling, Failed
  <1>8. Start'
    <2>1. pc["main"] \notin {"parse", "init"} /\ pc'["main"] \notin {"parse", "init"}
      BY Zenon, <1>1, <1>2, <1>3 DEF Inv, Phase, Threads
    <2> QED
      BY Zenon, <1>1, <2>1 DEF Inv, Connection, Start
  <1>9. Room'
    BY Zenon, <1>1, <1>6 DEF Inv, Connection, Room
  <1>10. Held'
    BY Zenon, <1>1, <1>6, <1>7 DEF Inv, Connection, Held, Full, IsOpen
  <1>11. HeldOld' /\ HeldTwice'
    BY Zenon, <1>1, <1>6, <1>7 DEF Inv, Connection, HeldOld, HeldTwice, Full, IsOpen
  <1>12. \A u \in Threads : pc[u] \in {"dial", "connect", "store"} => pc'[u] \in {"dial", "connect", "store"}
    BY Zenon, <1>1, <1>3
  <1>13. pc'[t] = l
    BY Zenon, <1>3
  <1>14. Stored'
    <2>1. pc["main"] \in {"address", "start", "join"} \/ pc'["main"] = pc["main"]
      BY Zenon, <1>1, <1>3 DEF Threads
    <2>2. pc'["main"] \in {"address", "start", "join"} =>
            IsOpen(connfd) \/ \E u \in Threads : pc[u] \in {"dial", "connect", "store"}
      BY Zenon, <2>1 DEF Inv, Connection, Stored
    <2> QED
      BY Zenon, <1>1, <1>12, <2>2 DEF Stored, IsOpen
  <1>15. Addressed'
    <2>1. CASE dotted
      BY Zenon, <1>3, <2>1 DEF Addressed
    <2>2. CASE ~dotted
      BY Zenon, <1>3, <1>13, <2>2 DEF Addressed
    <2> QED
      BY Zenon, <2>1, <2>2
  <1>16. Single'
    <2> SUFFICES ASSUME dotted', ~overlap'
                 PROVE  Single'
      BY Zenon DEF Single
    <2>1. dotted /\ ~overlap
      BY Zenon, <1>1 DEF options
    <2>2. \A u \in Threads : /\ pc'[u] \in {"dial", "connect", "store"} <=> pc[u] \in {"dial", "connect", "store"}
                             /\ Dialling(u)' <=> Dialling(u)
      BY Zenon, <1>1, <1>2, <1>3, <2>1 DEF Dialling
    <2> QED
      BY Zenon, <1>1, <1>6, <1>7, <2>1, <2>2 DEF Inv, Single
  <1> QED
    BY <1>4, <1>5, <1>8, <1>9, <1>10, <1>11, <1>14, <1>15, <1>16 DEF Inv, Connection

(* A step that changes nothing.                                            *)
LEMMA StutterInv ==
  ASSUME Inv, UNCHANGED vars
  PROVE  Inv'
<1>1. TypeOK' /\ Phase'
  <2>1. TypeOK'
    <3>1. /\ toSend' = toSend /\ waiting' = waiting /\ dotted' = dotted /\ pc' = pc
          /\ attempt' = attempt /\ dials' = dials /\ dialled' = dialled /\ sock' = sock
          /\ connfd' = connfd /\ table' = table /\ made' = made /\ serverInfo' = serverInfo
          /\ sent' = sent /\ received' = received /\ alarm' = alarm /\ exited' = exited
          /\ echo' = echo /\ out' = out /\ back' = back /\ wire' = wire
      BY Zenon DEF vars, options, thread, conn, count, net
    <3>2. TypeOK
      BY Zenon DEF Inv
    <3> QED BY ONLY <3>1, <3>2 DEF TypeOK
  <2>2. Phase'
    BY Zenon DEF Inv, vars, thread, Phase
  <2> QED BY Zenon, <2>1, <2>2
<1>2. Connection' /\ Single'
  BY Zenon, SameConnection DEF Inv, vars, options, thread, conn
<1>3. Quiet' /\ Numbered' /\ Passed' /\ EchoesCounted' /\ StopsAtCount' /\ ReceiverListens'
  BY DEF Inv, vars, options, thread, conn, count, net, Quiet, Numbered, Passed, EchoesCounted,
         StopsAtCount, ReceiverListens, IsOpen
<1> QED
  BY Zenon, <1>1, <1>2, <1>3 DEF Inv

(* Every step keeps the invariant.                                         *)
LEMMA NextInv ==
  ASSUME Inv, [Next]_vars
  PROVE  Inv'
  <1>1. CASE \E t \in Threads : Connect(t)
    BY Zenon, <1>1, InitConnectionInv, NetdialInv, SocketFailsInv, ConnectInv,
       ConnectFailsInv, StoreConnInv, SetAddressInv DEF Connect
  <1>2. CASE parseArguments \/ main \/ sigalrmHandler
    BY Zenon, <1>2, ParseInv, MainInv, AlarmInv
  <1>3. CASE do_send
    BY Zenon, <1>3, SelectFailsInv, SelectTimeoutInv, SelectReadyInv, SendtoFailsInv, SendtoInv DEF do_send
  <1>4. CASE do_receive
    BY Zenon, <1>4, RecvfromInv, RecvFailsInv, RecvReturnsInv DEF do_receive
  <1>5. CASE echoParses \/ echoInit \/ echoReceives \/ echoSends \/ echoFails \/ Lose
    BY Zenon, <1>5, EchoFrameInv, EchoReceivesInv, EchoSendsInv, LoseInv
  <1>6. CASE UNCHANGED vars
    BY Zenon, <1>6, StutterInv
  <1> QED
    BY Zenon, <1>1, <1>2, <1>3, <1>4, <1>5, <1>6 DEF Next

-----------------------------------------------------------------------------
(* The theorems.                                                           *)

\* Inv is an invariant of the two programs of the datagram tester, whatever
\* the socket calls return and in whatever order the threads run.
THEOREM UdpInvariant == Spec => []Inv
  <1>1. Init => Inv
    BY Zenon, InitInv
  <1>2. Inv /\ [Next]_vars => Inv'
    BY Zenon, NextInv
  <1> QED
    BY <1>1, <1>2, PTL DEF Spec

\* The variables of udpsender.c and udpreceiver.c keep their types; the
\* attempt counters stay within MAX_ATTEMPT.
THEOREM UdpTypes == Spec => []TypeOK
  <1>1. Inv => TypeOK
    BY Zenon DEF Inv
  <1> QED
    BY <1>1, UdpInvariant, PTL

\* do_receive counts no more echoes than datagrams went out, plus the ones the
\* network repeated.
THEOREM UdpEchoes == Spec => []EchoesCounted
  <1>1. Inv => EchoesCounted
    BY Zenon DEF Inv
  <1> QED
    BY <1>1, UdpInvariant, PTL

\* do_send stops after packet -n, unless the sendto() of that packet failed.
THEOREM UdpStops == Spec => []StopsAtCount
  <1>1. Inv => StopsAtCount
    BY Zenon DEF Inv
  <1> QED
    BY <1>1, UdpInvariant, PTL

\* Whatever the overlap of the initConnection() calls of do_send and
\* do_receive, once both have returned connfd is an open socket and serverInfo
\* the server's address.
THEOREM UdpRestored == Spec => []ConnectionRestored
  <1>1. Inv => ConnectionRestored
    <2> SUFFICES ASSUME Inv, pc["main"] = "join",
                        \A t \in Threads : pc[t] \notin {"init", "dial", "connect", "store", "address"}
                 PROVE  IsOpen(connfd) /\ table[connfd] # Stdin /\ serverInfo = "server"
      BY Zenon DEF ConnectionRestored, Dials
    <2>1. IsOpen(connfd)
      BY Zenon DEF Inv, Connection, Stored
    <2>2. table[connfd] # Stdin
      BY Zenon, <2>1 DEF Inv, Connection, Start, IsOpen
    <2>3. serverInfo = "server"
      BY Zenon DEF Inv, Connection, Addressed
    <2> QED
      BY Zenon, <2>1, <2>2, <2>3
  <1> QED
    BY <1>1, UdpInvariant, PTL

\* initConnection() closes the socket it replaces: unless two calls overlapped,
\* what is open is connfd or is about to be stored there.
THEOREM UdpOneSocket == Spec => []OneSocket
  <1>1. Inv => OneSocket
    <2> SUFFICES ASSUME Inv, dotted, ~overlap, NEW f \in Fds, IsOpen(f)
                 PROVE  f = connfd \/ \E t \in Threads : pc[t] \in {"connect", "store"} /\ f = dialled[t]
      BY Zenon DEF OneSocket
    <2>1. CASE \A t \in Threads : pc[t] \notin {"dial", "connect", "store"}
      BY Zenon, <2>1 DEF Inv, Single
    <2>2. CASE \E t \in Threads : pc[t] \in {"dial", "connect", "store"}
      <3>1. PICK t \in Threads : pc[t] \in {"dial", "connect", "store"}
        BY Zenon, <2>2
      <3>2. ~Dialling(t)
        BY Zenon DEF Inv, Single
      <3> QED
        BY Zenon, <3>1, <3>2 DEF Inv, Single, Dialling, Holds
    <2> QED
      BY Zenon, <2>1, <2>2
  <1> QED
    BY <1>1, UdpInvariant, PTL

\* While no sendto() has failed, a recvfrom() that blocks in do_receive waits
\* on the socket connfd stands for.
THEOREM UdpListens == Spec => []ReceiverListens
  <1>1. Inv => ReceiverListens
    BY Zenon DEF Inv
  <1> QED
    BY <1>1, UdpInvariant, PTL
=============================================================================
