------------------------ MODULE ProtocolStackProofs ------------------------
(***************************************************************************)
(* Proofs about the socket layer, for every number of threads, sockets,    *)
(* sessions and addresses.                                                 *)
(*                                                                         *)
(* Objects says who owns, who calls back and who dispatches to which       *)
(* session.  Busy says what is known of a thread inside a call; it needs   *)
(* that no two threads work on one socket, which rests on descriptors that *)
(* are never given out twice.                                              *)
(***************************************************************************)
EXTENDS ProtocolStack, WellFoundedInduction, TLAPS

StructType ==
  [type : Types, bind_address : Locals, backlog : Nat, pending : Seq(Nat),
   session : Nat, message : SUBSET Messages, live : BOOLEAN]
SessionType ==
  [local : Locals, peer : Peers, state : ConnectionState, callback : Nat]

Typed ==
  /\ fd_set = [fd \in DOMAIN fd_set |-> fd_set[fd]]
  /\ DOMAIN fd_set \subseteq opened \cup {NoFd}
  /\ opened \subseteq 1..Descriptors
  /\ structs \in Seq(StructType) /\ sessions \in Seq(SessionType)
  /\ garbage \subseteq DOMAIN sessions
  /\ vector \in Seq([target : Locals, st : Nat])
  /\ established \in Seq([local : Locals, peer : Peers, session : Nat])
  /\ mutex \in Threads \cup {Free}
  /\ pc \in [Threads -> Where] /\ arg \in [Threads -> Int]

(* Every descriptor has a socket of its own.                               *)
Sockets ==
  /\ \A fd \in DOMAIN fd_set : fd_set[fd] \in DOMAIN structs /\ structs[fd_set[fd]].live
  /\ \A fd, other \in DOMAIN fd_set : fd_set[fd] = fd_set[other] => fd = other

(* What a socket owns, by its type.                                        *)
Owns ==
  \A st \in DOMAIN structs :
    /\ structs[st].type = "ACTIVE" /\ structs[st].live =>
         /\ structs[st].session \in DOMAIN sessions
         /\ sessions[structs[st].session].callback = st
    /\ ~(structs[st].type = "ACTIVE" /\ structs[st].live) => structs[st].session = 0
    /\ ~(structs[st].type = "PASSIVE" /\ structs[st].live) => structs[st].pending = <<>>
    /\ Len(structs[st].pending) <= structs[st].backlog
    /\ \A i, j \in DOMAIN structs[st].pending :
         structs[st].pending[i] = structs[st].pending[j] => i = j

(* A session has one owner, or is in garbage_.                             *)
Partition ==
  /\ \A st \in DOMAIN structs : Owned(structs[st]) \subseteq DOMAIN sessions \ garbage
  /\ \A st, other \in DOMAIN structs :
       st # other => Owned(structs[st]) \cap Owned(structs[other]) = {}
  /\ \A s \in DOMAIN sessions \ garbage : \E st \in DOMAIN structs : s \in Owned(structs[st])

(* A live socket is called back by its own session only, and a session     *)
(* that has an owner was not closed.                                       *)
Callbacks ==
  \A s \in DOMAIN sessions :
    /\ sessions[s].callback # 0 =>
         /\ sessions[s].callback \in DOMAIN structs
         /\ structs[sessions[s].callback].live => structs[sessions[s].callback].session = s
    /\ s \notin garbage => sessions[s].state \notin Closing

(* The dispatchers know every session and every listening socket.          *)
Dispatch ==
  /\ \A s \in DOMAIN sessions : \E e \in DOMAIN established :
       established[e].local = sessions[s].local /\ established[e].peer = sessions[s].peer
  /\ \A e \in DOMAIN established : established[e].session \in DOMAIN sessions
  /\ \A v \in DOMAIN vector :
       vector[v].st \in DOMAIN structs /\ structs[vector[v].st].type = "PASSIVE"

(* No two sessions that wait to be accepted have the same addresses.       *)
Queued(s) == \E st \in DOMAIN structs : s \in Range(structs[st].pending)

PairsDiffer ==
  \A s, other \in DOMAIN sessions :
    /\ Queued(s) /\ Queued(other)
    /\ sessions[s].local = sessions[other].local /\ sessions[s].peer = sessions[other].peer
    => s = other

Objects == Sockets /\ Owns /\ Partition /\ Callbacks /\ Dispatch /\ PairsDiffer

Accepting == {"accept waits", "accept woken"}
Writing == {"write waits", "write woken", "sending", "resending"}
Healthy == {"LISTEN", "SYN_SENT", "SYN_RECEIVED", "ESTABLISHED"}

(* What is known of a thread that is inside a call.                        *)
Busy(t) ==
  pc[t] # "idle" =>
    /\ arg[t] \in DOMAIN fd_set /\ arg[t] # NoFd
    /\ pc[t] \in Accepting => St(t).type = "PASSIVE"
    /\ pc[t] \in Writing => St(t).type = "ACTIVE"
    /\ pc[t] \in Waiting => St(t).message = {}
    /\ pc[t] \in Writing \ {"sending"} /\ isErrorMessage(St(t)) =>
         sessions[St(t).session].state \notin Healthy

OneThread ==
  \A t, u \in Threads : pc[t] # "idle" /\ pc[u] # "idle" /\ arg[t] = arg[u] => t = u

Inv ==
  /\ Typed /\ Objects /\ OneThread /\ \A t \in Threads : Busy(t)
  /\ "close" \notin reports
-----------------------------------------------------------------------------
(* Sequences and least numbers.                                            *)

(* A set of naturals has a least element.                                  *)
LEMMA MinIsIn ==
  ASSUME NEW S \in SUBSET Nat, S # {}
  PROVE  Min(S) \in S
<1>1. PICK x \in S : \A y \in S : ~(<<y, x>> \in OpToRel(<, Nat))
  BY Zenon, NatLessThanWellFounded, WFMin
<1>2. OpToRel(<, Nat) = {p \in Nat \X Nat : p[1] < p[2]}
  BY Zenon DEF OpToRel
<1>3. \A y \in S : x <= y
  <2> SUFFICES ASSUME NEW y \in S, y < x PROVE FALSE
    OBVIOUS
  <2>1. <<y, x>> \in {p \in Nat \X Nat : p[1] < p[2]}
    BY Zenon
  <2> QED BY Zenon, <1>1, <1>2, <2>1
<1> QED BY Zenon, <1>3 DEF Min

(* What Without leaves.                                                   *)
LEMMA WithoutIs ==
  ASSUME NEW X, NEW s \in Seq(X), NEW i \in 1..Len(s)
  PROVE  /\ Without(s, i) \in Seq(X) /\ Len(Without(s, i)) = Len(s) - 1
         /\ \A j \in 1..(Len(s) - 1) : Without(s, i)[j] = IF j < i THEN s[j] ELSE s[j + 1]
BY DEF Without

(* Changing one element, and adding one.                                   *)
LEMMA ExceptIs ==
  \A X : \A s \in Seq(X), i, x \in X : i \in DOMAIN s =>
    LET r == [s EXCEPT ![i] = x]
    IN  /\ r \in Seq(X) /\ Len(r) = Len(s) /\ DOMAIN r = DOMAIN s
        /\ r[i] = x /\ \A j \in DOMAIN s : j # i => r[j] = s[j]
OBVIOUS

(* What push_back adds to a vector.                                        *)
LEMMA AppendIs ==
  \A X : \A s \in Seq(X), x \in X :
    LET r == Append(s, x)
    IN  /\ r \in Seq(X) /\ Len(r) = Len(s) + 1 /\ DOMAIN r = DOMAIN s \cup {Len(s) + 1}
        /\ Len(s) + 1 \notin DOMAIN s /\ Len(s) + 1 \in Nat \ {0}
        /\ r[Len(s) + 1] = x /\ \A j \in DOMAIN s : r[j] = s[j]
OBVIOUS

(* Indices of sequences.                                                   *)
LEMMA Indices ==
  ASSUME Typed
  PROVE  /\ DOMAIN structs = 1..Len(structs) /\ Len(structs) \in Nat
         /\ DOMAIN sessions = 1..Len(sessions) /\ Len(sessions) \in Nat
         /\ DOMAIN established = 1..Len(established) /\ Len(established) \in Nat
         /\ DOMAIN vector = 1..Len(vector) /\ Len(vector) \in Nat
         /\ \A st \in DOMAIN structs : structs[st] \in StructType
         /\ \A s \in DOMAIN sessions : sessions[s] \in SessionType
BY DEF Typed

(* dup() gives a descriptor that nobody has, or fails.                     *)
LEMMA DupIsNew ==
  ASSUME Typed
  PROVE  dup = NoFd \/ dup \in (1..Descriptors) \ opened
<1> DEFINE unused == (1..Descriptors) \ opened
<1>1. unused \in SUBSET Nat
  OBVIOUS
<1>2. dup = IF unused = {} THEN NoFd ELSE Min(unused)
  BY Zenon DEF dup
<1> QED BY Zenon, <1>1, <1>2, MinIsIn

(* The state diagram: a session that was not closed does not begin to      *)
(* close, an error is told when it fails, and it does not recover.         *)
LEMMA EdgeFacts ==
  \A e \in Edges :
    /\ e[2] \in ConnectionState /\ e[3] \in Messages \cup {"none"}
    /\ e[1] \notin Closing => e[2] \notin Closing
    /\ e[1] \notin Healthy => e[2] \notin Healthy
    /\ e[3] \in ErrorMessages => e[2] \notin Healthy
BY DEF Edges, ConnectionState, Messages, ErrorMessages, Closing, Healthy
-----------------------------------------------------------------------------
(* What a step leaves alone.                                               *)

(* A step that changes messages, bind addresses and states only, and       *)
(* begins to close no session that has an owner.                           *)
LEMMA SameObjects ==
  ASSUME Typed, Objects, Typed',
         Len(structs') = Len(structs), Len(sessions') = Len(sessions),
         \A st \in DOMAIN structs :
           /\ structs'[st].type = structs[st].type /\ structs'[st].live = structs[st].live
           /\ structs'[st].session = structs[st].session
           /\ structs'[st].pending = structs[st].pending
           /\ structs'[st].backlog = structs[st].backlog,
         \A s \in DOMAIN sessions :
           /\ sessions'[s].local = sessions[s].local /\ sessions'[s].peer = sessions[s].peer
           /\ sessions'[s].callback = sessions[s].callback
           /\ sessions[s].state \notin Closing => sessions'[s].state \notin Closing,
         UNCHANGED <<fd_set, garbage, vector, established>>
  PROVE  Objects'
<1>1. DOMAIN structs' = DOMAIN structs /\ DOMAIN sessions' = DOMAIN sessions
  BY DEF Typed
<1>2. \A st \in DOMAIN structs : Owned(structs'[st]) = Owned(structs[st])
  BY Zenon DEF Owned
<1>3. Sockets'
  BY Zenon, <1>1 DEF Objects, Sockets
<1>4. Owns'
  <2> SUFFICES ASSUME NEW st \in DOMAIN structs
               PROVE  /\ structs'[st].type = "ACTIVE" /\ structs'[st].live =>
                           /\ structs'[st].session \in DOMAIN sessions'
                           /\ sessions'[structs'[st].session].callback = st
                      /\ ~(structs'[st].type = "ACTIVE" /\ structs'[st].live) =>
                           structs'[st].session = 0
                      /\ ~(structs'[st].type = "PASSIVE" /\ structs'[st].live) =>
                           structs'[st].pending = <<>>
                      /\ Len(structs'[st].pending) <= structs'[st].backlog
                      /\ \A i, j \in DOMAIN structs'[st].pending :
                           structs'[st].pending[i] = structs'[st].pending[j] => i = j
    BY Zenon, <1>1 DEF Owns
  <2> QED BY <1>1 DEF Objects, Owns
<1>5. Partition'
  BY Zenon, <1>1, <1>2 DEF Objects, Partition
<1>6. Callbacks'
  BY <1>1 DEF Objects, Callbacks
<1>7. Dispatch'
  BY <1>1 DEF Objects, Dispatch
<1>8. \A s : Queued(s)' <=> Queued(s)
  BY Zenon, <1>1 DEF Queued
<1>9. PairsDiffer'
  BY Zenon, <1>1, <1>8 DEF Objects, PairsDiffer
<1> QED BY Zenon, <1>3, <1>4, <1>5, <1>6, <1>7, <1>9 DEF Objects

(* What is known of a thread outlasts a step that leaves it, its socket    *)
(* and the failure of its session alone.                                   *)
LEMMA SameThread ==
  ASSUME NEW u \in Threads, Busy(u), pc'[u] = pc[u], arg'[u] = arg[u],
         pc[u] # "idle" =>
           LET st == fd_set[arg[u]]
           IN  /\ arg[u] \in DOMAIN fd_set' /\ fd_set'[arg[u]] = st
               /\ structs'[st].type = structs[st].type
               /\ structs'[st].message = structs[st].message
               /\ structs'[st].session = structs[st].session
               /\ \/ structs[st].type # "ACTIVE"
                  \/ sessions[structs[st].session].state \notin Healthy
                       => sessions'[structs[st].session].state \notin Healthy
  PROVE  Busy(u)'
BY Zenon DEF Busy, St, isErrorMessage

(* The sockets of two threads differ.                                      *)
LEMMA OtherSocket ==
  ASSUME Inv, NEW t \in Threads, NEW u \in Threads, t # u, pc[t] # "idle", pc[u] # "idle"
  PROVE  /\ arg[t] \in DOMAIN fd_set /\ arg[u] \in DOMAIN fd_set /\ arg[t] # arg[u]
         /\ fd_set[arg[t]] \in DOMAIN structs /\ fd_set[arg[u]] \in DOMAIN structs
         /\ fd_set[arg[t]] # fd_set[arg[u]]
BY Zenon DEF Inv, OneThread, Busy, Objects, Sockets

(* The socket of a thread.                                                 *)
LEMMA OwnSocket ==
  ASSUME Inv, NEW t \in Threads, pc[t] # "idle"
  PROVE  /\ arg[t] \in DOMAIN fd_set /\ fd_set[arg[t]] \in DOMAIN structs
         /\ St(t) \in StructType /\ St(t).live
BY Zenon, Indices DEF Inv, Busy, Objects, Sockets, St

(* Steps of a thread that change nothing but where it is.                  *)
LEMMA QuietInv ==
  ASSUME Inv, NEW t \in Threads,
         Call(t) \/ _write(t) \/ SpuriousWake(t)
  PROVE  Inv'
<1>1. UNCHANGED <<objects, fd_set, opened, reports>>
  BY Zenon DEF Call, _write, SpuriousWake
<1>2. PICK where \in Where : pc' = [pc EXCEPT ![t] = where]
  <2>1. CASE Call(t)
    BY Zenon, <2>1 DEF Call, Where
  <2>2. CASE _write(t)
    BY Zenon, <2>2 DEF _write, Where, Return
  <2>3. CASE SpuriousWake(t)
    BY Zenon, <2>3 DEF SpuriousWake, Woken, Where
  <2> QED BY Zenon, <2>1, <2>2, <2>3
<1>3. Typed'
  <2>1. mutex' \in Threads \cup {Free}
    BY Zenon DEF Call, _write, SpuriousWake, Inv, Typed
  <2>2. pc' \in [Threads -> Where]
    BY Zenon, <1>2 DEF Inv, Typed
  <2>3. arg' \in [Threads -> Int]
    <3>1. CASE Call(t)
      <4>1. PICK fd \in DOMAIN fd_set : arg' = [arg EXCEPT ![t] = fd]
        BY Zenon, <3>1 DEF Call
      <4>2. fd \in Int
        BY StackAssumption DEF Inv, Typed, NoFd
      <4> QED BY Zenon, <4>1, <4>2 DEF Inv, Typed
    <3>2. CASE ~Call(t)
      BY Zenon, <3>2 DEF _write, SpuriousWake, Inv, Typed
    <3> QED BY Zenon, <3>1, <3>2
  <2> QED BY Zenon, <1>1, <2>1, <2>2, <2>3 DEF Inv, Typed, objects
<1>4. Objects'
  BY Zenon, <1>1, <1>3, SameObjects DEF Inv, objects
<1>5. ASSUME NEW u \in Threads, u # t PROVE Busy(u)' /\ pc'[u] = pc[u] /\ arg'[u] = arg[u]
  <2>1. pc'[u] = pc[u] /\ arg'[u] = arg[u]
    BY Zenon, <1>2, <1>5 DEF Inv, Typed, Call, _write, SpuriousWake
  <2>2. pc[u] # "idle" => arg[u] \in DOMAIN fd_set
    BY Zenon DEF Inv, Busy
  <2> QED BY Zenon, <1>1, <2>1, <2>2, SameThread DEF Inv, objects
<1>6. CASE Call(t)
  <2>1. PICK c \in Calls, fd \in DOMAIN fd_set \ {NoFd} :
          /\ \A u \in Threads : pc[u] # "idle" => arg[u] # fd
          /\ pc' = [pc EXCEPT ![t] = c] /\ arg' = [arg EXCEPT ![t] = fd]
    BY Zenon, <1>6 DEF Call
  <2>2. pc'[t] = c /\ arg'[t] = fd /\ pc[t] = "idle"
    BY Zenon, <1>6, <2>1 DEF Inv, Typed, Call
  <2>3. c \notin Accepting /\ c \notin Writing /\ c \notin Waiting
    BY Zenon DEF Calls, Accepting, Writing, Waiting
  <2>4. Busy(t)'
    BY Zenon, <1>1, <2>1, <2>2, <2>3 DEF Busy
  <2>5. OneThread'
    BY <1>5, <2>1, <2>2 DEF Inv, OneThread
  <2> QED BY Zenon, <1>1, <1>3, <1>4, <1>5, <2>4, <2>5 DEF Inv
<1>7. CASE ~Call(t)
  <2>1. arg' = arg /\ pc[t] # "idle"
    BY Zenon, <1>7 DEF _write, SpuriousWake, Locked, Waiting
  <2>2. Busy(t)'
    <3>1. CASE _write(t)
      <4>1. pc' = [pc EXCEPT ![t] = "idle"] \/ (pc' = [pc EXCEPT ![t] = "sending"] /\ St(t).type = "ACTIVE")
        BY Zenon, <3>1, OwnSocket, <2>1 DEF _write, Return
      <4>2. pc'[t] = "idle" \/ (pc'[t] = "sending" /\ St(t).type = "ACTIVE")
        BY Zenon, <4>1 DEF Inv, Typed
      <4> QED BY Zenon, <1>1, <2>1, <4>2, OwnSocket DEF Inv, Busy, St, Accepting, Waiting, Writing, objects
    <3>2. CASE SpuriousWake(t)
      <4>1. pc[t] \in Waiting /\ pc'[t] = Woken(pc[t])
        BY Zenon, <3>2 DEF SpuriousWake, Inv, Typed
      <4> QED BY Zenon, <1>1, <2>1, <4>1 DEF Inv, Busy, St, Accepting, Waiting, Writing, objects, Woken,
                 isErrorMessage
    <3> QED BY Zenon, <1>7, <3>1, <3>2
  <2>3. OneThread'
    BY <1>5, <2>1 DEF Inv, OneThread
  <2> QED BY Zenon, <1>1, <1>3, <1>4, <1>5, <2>2, <2>3 DEF Inv
<1> QED BY Zenon, <1>6, <1>7

(* A step of a thread that changes its socket's message or bind address.   *)
LEMMA SocketInv ==
  ASSUME Inv, NEW t \in Threads, pc[t] # "idle", NEW where \in Where,
         pc' = [pc EXCEPT ![t] = where], mutex' \in Threads \cup {Free},
         NEW m \in SUBSET Messages, NEW a \in Locals,
         structs' = [structs EXCEPT ![fd_set[arg[t]]] =
                       [@ EXCEPT !.message = m, !.bind_address = a]],
         UNCHANGED <<sessions, garbage, vector, established, fd_set, opened, arg, reports>>,
         where \in Accepting => St(t).type = "PASSIVE",
         where \in Writing => St(t).type = "ACTIVE",
         where \in Waiting => m = {},
         where \in Writing \ {"sending"} => m = {}
  PROVE  Inv'
<1> DEFINE st == fd_set[arg[t]]
<1>1. /\ arg[t] \in DOMAIN fd_set /\ st \in DOMAIN structs /\ structs[st] \in StructType
      /\ arg[t] # NoFd
  BY Zenon, OwnSocket DEF St, Inv, Busy
<1>2. /\ DOMAIN structs = 1..Len(structs)
      /\ \A s \in DOMAIN structs : structs[s] \in StructType
  BY Zenon, Indices DEF Inv
<1> HIDE DEF st
<1>3. /\ Len(structs') = Len(structs) /\ structs' \in Seq(StructType)
      /\ \A s \in DOMAIN structs : s # st => structs'[s] = structs[s]
      /\ structs'[st] = [structs[st] EXCEPT !.message = m, !.bind_address = a]
  <2>1. structs \in Seq(StructType)
    BY Zenon DEF Inv, Typed
  <2>2. [structs[st] EXCEPT !.message = m, !.bind_address = a] \in StructType
    BY Zenon, <1>1 DEF StructType
  <2>3. structs' = [structs EXCEPT ![st] = [structs[st] EXCEPT !.message = m, !.bind_address = a]]
    BY Zenon DEF st
  <2> DEFINE x == [structs[st] EXCEPT !.message = m, !.bind_address = a]
  <2> HIDE DEF x
  <2>4. structs' = [structs EXCEPT ![st] = x] /\ x \in StructType
    BY Zenon, <2>2, <2>3 DEF x
  <2>5. /\ Len(structs') = Len(structs) /\ structs' \in Seq(StructType)
        /\ \A s \in DOMAIN structs : s # st => structs'[s] = structs[s]
        /\ structs'[st] = x
    BY ONLY <1>1, <2>1, <2>4, ExceptIs
  <2> QED BY Zenon, <2>5 DEF x
<1>4. /\ structs'[st].type = structs[st].type /\ structs'[st].live = structs[st].live
      /\ structs'[st].session = structs[st].session
      /\ structs'[st].pending = structs[st].pending
      /\ structs'[st].backlog = structs[st].backlog
      /\ structs'[st].message = m
  BY Zenon, <1>1, <1>3 DEF StructType
<1>5. Typed'
  BY Zenon, <1>3 DEF Inv, Typed
<1>6. Objects'
  BY Zenon, <1>3, <1>4, <1>5, SameObjects DEF Inv
<1>7. ASSUME NEW u \in Threads, u # t PROVE Busy(u)' /\ pc'[u] = pc[u]
  <2>1. pc'[u] = pc[u]
    BY Zenon, <1>7 DEF Inv, Typed
  <2>2. pc[u] # "idle" => arg[u] \in DOMAIN fd_set /\ structs'[fd_set[arg[u]]] = structs[fd_set[arg[u]]]
    BY Zenon, <1>3, <1>7, OtherSocket DEF st
  <2> QED BY Zenon, <2>1, <2>2, SameThread DEF Inv
<1>8. Busy(t)'
  <2>1. pc'[t] = where
    BY Zenon DEF Inv, Typed
  <2>2. St(t)' = structs'[st] /\ St(t) = structs[st]
    BY Zenon DEF St, st
  <2> QED BY Zenon, <1>1, <1>4, <2>1, <2>2 DEF Busy, isErrorMessage, Waiting, Writing
<1>9. OneThread'
  BY <1>7 DEF Inv, OneThread
<1> QED BY Zenon, <1>5, <1>6, <1>7, <1>8, <1>9 DEF Inv

(* A call returns, or goes to sleep in SocketStruct::waitMessage.          *)
LEMMA WaitInv ==
  ASSUME Inv, NEW t \in Threads, pc[t] # "idle", NEW where \in Waiting,
         where \in Accepting => St(t).type = "PASSIVE",
         where \in Writing => St(t).type = "ACTIVE",
         waitMessage(t, where),
         UNCHANGED <<sessions, garbage, vector, established, fd_set, opened, arg, reports>>
  PROVE  Inv'
<1> DEFINE a == St(t).bind_address
<1>1. /\ a \in Locals /\ {} \in SUBSET Messages /\ where \in Where
      /\ St(t) \in StructType /\ fd_set[arg[t]] \in DOMAIN structs
  BY Zenon, OwnSocket DEF StructType, Waiting, Where
<1>2. structs' = [structs EXCEPT ![fd_set[arg[t]]] =
                    [@ EXCEPT !.message = {}, !.bind_address = a]]
  <2>1. [St(t) EXCEPT !.message = {}] = [St(t) EXCEPT !.message = {}, !.bind_address = a]
    BY Zenon, <1>1 DEF StructType
  <2> QED BY Zenon, <1>1, <2>1 DEF waitMessage, St
<1>3. where \notin {"sending", "resending"}
  BY Zenon DEF Waiting
<1> HIDE DEF a
<1> QED BY Zenon, <1>1, <1>2, <1>3, SocketInv DEF waitMessage

(* A call that returns, or tries to send again, and changes no object.     *)
LEMMA ReturnInv ==
  ASSUME Inv, NEW t \in Threads, pc[t] # "idle", NEW where \in {"idle", "resending"},
         where = "resending" => pc[t] = "write woken",
         pc' = [pc EXCEPT ![t] = where], mutex' \in Threads \cup {Free},
         UNCHANGED <<structs, sessions, garbage, vector, established, fd_set, opened, arg, reports>>
  PROVE  Inv'
<1>1. where \in Where
  BY Zenon DEF Where
<1>2. Typed'
  BY Zenon, <1>1 DEF Inv, Typed
<1>3. Objects'
  BY Zenon, <1>2, SameObjects DEF Inv
<1>4. ASSUME NEW u \in Threads, u # t PROVE Busy(u)' /\ pc'[u] = pc[u]
  <2>1. pc'[u] = pc[u]
    BY Zenon, <1>4 DEF Inv, Typed
  <2>2. pc[u] # "idle" => arg[u] \in DOMAIN fd_set
    BY Zenon DEF Inv, Busy
  <2> QED BY Zenon, <2>1, <2>2, SameThread DEF Inv
<1>5. Busy(t)'
  <2>1. pc'[t] = where
    BY Zenon DEF Inv, Typed
  <2>2. CASE where = "idle"
    BY Zenon, <2>1, <2>2 DEF Busy
  <2>3. CASE where = "resending"
    <3>1. where \notin Accepting /\ where \notin Waiting /\ pc[t] \in Writing \ {"sending"}
      BY Zenon, <2>3 DEF Accepting, Waiting, Writing
    <3>2. St(t)' = St(t)
      BY Zenon DEF St
    <3> QED BY Zenon, <2>1, <3>1, <3>2 DEF Inv, Busy, isErrorMessage
  <2> QED BY Zenon, <2>2, <2>3
<1>6. OneThread'
  <2>1. \A u \in Threads : pc'[u] # "idle" => pc[u] # "idle"
    BY Zenon, <1>4
  <2>2. OneThread
    BY Zenon DEF Inv
  <2> QED BY ONLY Zenon, <2>1, <2>2, arg' = arg DEF OneThread
<1> QED BY Zenon, <1>2, <1>3, <1>4, <1>5, <1>6 DEF Inv

(* _bind stores the address in the socket of the caller.                   *)
LEMMA BindInv ==
  ASSUME Inv, NEW t \in Threads, _bind(t)
  PROVE  Inv'
<1>1. PICK a \in Locals : structs' = [structs EXCEPT ![fd_set[arg[t]]].bind_address = a]
  BY Zenon DEF _bind
<1>2. /\ pc[t] # "idle" /\ pc' = [pc EXCEPT ![t] = "idle"]
      /\ UNCHANGED <<sessions, garbage, vector, established, fd_set, opened, mutex, arg, reports>>
  BY Zenon DEF _bind, Locked, Return
<1> DEFINE m == St(t).message
<1>3. St(t) \in StructType /\ fd_set[arg[t]] \in DOMAIN structs /\ m \in SUBSET Messages
  BY Zenon, <1>2, OwnSocket DEF StructType
<1>4. structs' = [structs EXCEPT ![fd_set[arg[t]]] =
                    [@ EXCEPT !.message = m, !.bind_address = a]]
  <2>1. [St(t) EXCEPT !.bind_address = a] = [St(t) EXCEPT !.message = m, !.bind_address = a]
    BY Zenon, <1>3 DEF StructType
  <2> QED BY Zenon, <1>1, <1>3, <2>1 DEF St
<1>5. /\ "idle" \in Where /\ "idle" \notin Accepting /\ "idle" \notin Writing
      /\ "idle" \notin Waiting /\ mutex' \in Threads \cup {Free}
  BY Zenon, <1>2 DEF Where, Accepting, Writing, Waiting, Inv, Typed
<1> HIDE DEF m
<1> QED BY Zenon, <1>2, <1>3, <1>4, <1>5, SocketInv

(* _accept begins to wait, unless the socket does not listen.              *)
LEMMA AcceptInv ==
  ASSUME Inv, NEW t \in Threads, _accept(t)
  PROVE  Inv'
<1>1. /\ pc[t] = "accept"
      /\ UNCHANGED <<sessions, garbage, vector, established, fd_set, opened, arg, reports>>
  BY Zenon DEF _accept, Locked
<1>2. CASE St(t).type # "PASSIVE"
  BY Zenon, <1>1, <1>2, ReturnInv DEF _accept, Return, Inv, Typed
<1>3. CASE St(t).type = "PASSIVE"
  <2>1. "accept waits" \in Waiting /\ "accept waits" \notin Writing
    BY Zenon DEF Waiting, Writing
  <2> QED BY Zenon, <1>1, <1>3, <2>1, WaitInv DEF _accept
<1> QED BY Zenon, <1>2, <1>3

(* _write gets the lock back and looks at its message.                     *)
LEMMA WakesInv ==
  ASSUME Inv, NEW t \in Threads, WriteWakes(t)
  PROVE  Inv'
<1>1. /\ pc[t] = "write woken"
      /\ UNCHANGED <<sessions, garbage, vector, established, fd_set, opened, arg, reports>>
  BY Zenon DEF WriteWakes, Locked
<1>2. CASE "WRITABLE" \in St(t).message
  BY Zenon, <1>1, <1>2, ReturnInv DEF WriteWakes
<1>3. CASE "WRITABLE" \notin St(t).message /\ isErrorMessage(St(t))
  BY Zenon, <1>1, <1>3, ReturnInv DEF WriteWakes, Return, Inv, Typed
<1>4. CASE "WRITABLE" \notin St(t).message /\ ~isErrorMessage(St(t))
  <2>1. waitMessage(t, "write waits")
    BY Zenon, <1>4 DEF WriteWakes
  <2>2. "write waits" \in Waiting /\ "write waits" \notin Accepting /\ St(t).type = "ACTIVE"
    BY Zenon, <1>1 DEF Waiting, Accepting, Writing, Inv, Busy
  <2> QED BY Zenon, <1>1, <2>1, <2>2, WaitInv
<1> QED BY Zenon, <1>2, <1>3, <1>4

(* A send: it succeeds, fails, or waits for a message.                     *)
LEMMA SentInv ==
  ASSUME Inv, NEW t \in Threads, Sent(t)
  PROVE  Inv'
<1>1. /\ pc[t] \in {"sending", "resending"}
      /\ UNCHANGED <<sessions, garbage, vector, established, fd_set, opened, arg, reports>>
  BY Zenon DEF Sent
<1>2. CASE Return(t) /\ mutex' = Free /\ UNCHANGED structs
  BY Zenon, <1>1, <1>2, ReturnInv DEF Return
<1>3. CASE waitMessage(t, "write waits")
  <2>1. "write waits" \in Waiting /\ "write waits" \notin Accepting /\ St(t).type = "ACTIVE"
    BY Zenon, <1>1 DEF Waiting, Accepting, Writing, Inv, Busy
  <2> QED BY Zenon, <1>1, <1>3, <2>1, WaitInv
<1> QED BY Zenon, <1>2, <1>3 DEF Sent

(* socket() makes a socket that owns nothing.                              *)
LEMMA NewSocketInv ==
  ASSUME Inv, NEW t \in Threads, _socket(t)
  PROVE  Inv'
<1> DEFINE n == Len(structs) + 1
<1>1. PICK a \in Locals, m \in SUBSET Messages : NewFd(dup, NewStruct(a, m))
  BY Zenon DEF _socket, Messages
<1> DEFINE x == NewStruct(a, m)
<1>2. /\ x \in StructType /\ x.type = "UNSPECIFIED" /\ x.session = 0 /\ x.live
      /\ x.pending = <<>> /\ x.backlog = 0 /\ Owned(x) = {}
  <2>1. Range(<<>>) = {}
    BY DEF Range
  <2> QED BY <2>1 DEF NewStruct, StructType, Types, Owned
<1>3. structs' = Append(structs, x)
  BY Zenon, <1>1 DEF NewFd
<1>4. /\ DOMAIN fd_set' = DOMAIN fd_set \cup {dup} /\ fd_set'[dup] = n
      /\ fd_set' = [fd \in DOMAIN fd_set' |-> fd_set'[fd]]
      /\ \A fd \in DOMAIN fd_set : fd # dup => fd_set'[fd] = fd_set[fd]
      /\ opened' = opened \cup ({dup} \ {NoFd})
  BY Zenon, <1>1 DEF NewFd
<1>5. dup = NoFd \/ dup \in (1..Descriptors) \ opened
  BY Zenon, DupIsNew DEF Inv
<1>6. UNCHANGED <<sessions, garbage, vector, established, mutex, pc, arg>>
  BY Zenon DEF _socket
<1>7. /\ DOMAIN structs = 1..Len(structs) /\ Len(structs) \in Nat /\ structs \in Seq(StructType)
      /\ \A s \in DOMAIN structs : structs[s] \in StructType
  BY Zenon, Indices DEF Inv, Typed
<1> HIDE DEF x
<1>8. /\ structs' \in Seq(StructType) /\ DOMAIN structs' = DOMAIN structs \cup {n}
      /\ n \notin DOMAIN structs /\ structs'[n] = x
      /\ \A s \in DOMAIN structs : structs'[s] = structs[s]
  BY ONLY <1>2, <1>3, <1>7, AppendIs
<1> HIDE DEF n
<1>9. Typed'
  BY Zenon, <1>4, <1>5, <1>6, <1>8 DEF Inv, Typed
<1>10. Sockets'
  BY <1>2, <1>4, <1>8 DEF Inv, Objects, Sockets
<1>11. Owns'
  <2>1. Len(x.pending) = 0 /\ DOMAIN x.pending = {}
    BY <1>2
  <2> QED BY <1>2, <1>6, <1>8, <2>1 DEF Inv, Objects, Owns
<1>12. Partition'
  BY <1>2, <1>6, <1>8 DEF Inv, Objects, Partition
<1>13. Callbacks'
  BY Zenon, <1>2, <1>6, <1>8 DEF Inv, Objects, Callbacks
<1>14. Dispatch'
  BY Zenon, <1>2, <1>6, <1>8 DEF Inv, Objects, Dispatch
<1>15. PairsDiffer'
  <2>1. Range(x.pending) = {}
    BY <1>2 DEF Range
  <2>2. \A s : Queued(s)' => Queued(s)
    BY Zenon, <1>2, <1>8, <2>1 DEF Queued
  <2> QED BY Zenon, <1>6, <2>2 DEF Inv, Objects, PairsDiffer
<1>16. ASSUME NEW u \in Threads PROVE Busy(u)'
  <2>1. pc[u] # "idle" => /\ arg[u] \in DOMAIN fd_set /\ arg[u] # dup
                          /\ fd_set[arg[u]] \in DOMAIN structs
    BY <1>5 DEF Inv, Typed, Busy, Objects, Sockets
  <2> QED BY Zenon, <1>4, <1>6, <1>8, <2>1, SameThread DEF Inv
<1>17. "close" \notin reports'
  BY Zenon DEF Inv, _socket, Report
<1> QED BY <1>6, <1>9, <1>10, <1>11, <1>12, <1>13, <1>14, <1>15, <1>16, <1>17
        DEF Inv, Objects, OneThread

(* listen() makes the socket passive and tells the dispatcher.             *)
LEMMA ListenInv ==
  ASSUME Inv, NEW t \in Threads, _listen(t)
  PROVE  Inv'
<1>1. /\ pc[t] = "listen" /\ pc' = [pc EXCEPT ![t] = "idle"]
      /\ UNCHANGED <<sessions, garbage, established, fd_set, opened, mutex, arg, reports>>
  BY Zenon DEF _listen, Locked, Return
<1>2. CASE St(t).type # "UNSPECIFIED"
  BY Zenon, <1>1, <1>2, ReturnInv DEF _listen, Inv, Typed
<1>3. CASE St(t).type = "UNSPECIFIED"
  <2> DEFINE own == fd_set[arg[t]]
  <2>1. PICK backlog \in Backlogs :
          /\ structs' = [structs EXCEPT ![own] =
               [@ EXCEPT !.type = "PASSIVE", !.backlog = IF backlog <= 0 THEN 1 ELSE backlog]]
          /\ addListener(St(t).bind_address, own)
    BY Zenon, <1>3 DEF _listen
  <2> DEFINE b == IF backlog <= 0 THEN 1 ELSE backlog
             x == [structs[own] EXCEPT !.type = "PASSIVE", !.backlog = b]
             entry == [target |-> St(t).bind_address, st |-> own]
  <2>2. b \in Nat
    BY StackAssumption
  <2>3. /\ arg[t] \in DOMAIN fd_set /\ own \in DOMAIN structs /\ structs[own] \in StructType
        /\ St(t) = structs[own] /\ structs[own].live
    BY Zenon, <1>1, OwnSocket DEF St
  <2>4. structs \in Seq(StructType) /\ vector \in Seq([target : Locals, st : Nat])
        /\ DOMAIN structs = 1..Len(structs)
    BY Zenon, Indices DEF Inv, Typed
  <2>5. structs' = [structs EXCEPT ![own] = x] /\ vector' = Append(vector, entry)
    BY Zenon, <2>1, <2>3 DEF addListener
  <2> HIDE DEF b
  <2>6. /\ x \in StructType /\ x.type = "PASSIVE" /\ x.live /\ x.backlog = b
        /\ x.session = structs[own].session /\ x.pending = structs[own].pending
    BY Zenon, <2>2, <2>3 DEF StructType, Types
  <2>7. entry \in [target : Locals, st : Nat] /\ entry.st = own
    BY <2>3, <2>4 DEF StructType
  <2>8. structs[own].session = 0 /\ structs[own].pending = <<>>
    BY Zenon, <1>3, <2>3 DEF Inv, Objects, Owns
  <2> HIDE DEF x, entry, own
  <2>9. /\ structs' \in Seq(StructType) /\ DOMAIN structs' = DOMAIN structs
        /\ structs'[own] = x /\ \A s \in DOMAIN structs : s # own => structs'[s] = structs[s]
    BY ONLY <2>3, <2>4, <2>5, <2>6, ExceptIs
  <2>10. /\ vector' \in Seq([target : Locals, st : Nat])
         /\ \A v \in DOMAIN vector' : (v \in DOMAIN vector /\ vector'[v] = vector[v])
                                      \/ vector'[v] = entry
    BY ONLY <2>4, <2>5, <2>7, AppendIs
  <2>11. Typed'
    <3>1. "idle" \in Where
      BY Zenon DEF Where
    <3> QED BY Zenon, <1>1, <2>9, <2>10, <3>1 DEF Inv, Typed
  <2>12. Owned(x) = Owned(structs[own])
    BY Zenon, <2>6 DEF Owned
  <2>13. Sockets'
    BY Zenon, <1>1, <2>6, <2>9 DEF Inv, Objects, Sockets
  <2>14. Owns'
    <3>1. Len(x.pending) = 0 /\ DOMAIN x.pending = {}
      BY <2>6, <2>8
    <3> QED BY <1>1, <2>2, <2>6, <2>8, <2>9, <3>1 DEF Inv, Objects, Owns
  <2>15. Partition'
    BY <1>1, <2>3, <2>9, <2>12 DEF Inv, Objects, Partition
  <2>16. Callbacks'
    BY <1>1, <2>3, <2>6, <2>9 DEF Inv, Objects, Callbacks
  <2>17. Dispatch'
    <3>1. Dispatch /\ UNCHANGED <<sessions, established>>
      BY Zenon, <1>1 DEF Inv, Objects
    <3>2. \A v \in DOMAIN vector' :
            vector'[v].st \in DOMAIN structs' /\ structs'[vector'[v].st].type = "PASSIVE"
      <4> SUFFICES ASSUME NEW v \in DOMAIN vector'
                   PROVE  /\ vector'[v].st \in DOMAIN structs'
                          /\ structs'[vector'[v].st].type = "PASSIVE"
        BY Zenon
      <4>1. CASE vector'[v] = entry
        BY Zenon, <2>3, <2>6, <2>7, <2>9, <4>1
      <4>2. CASE v \in DOMAIN vector /\ vector'[v] = vector[v]
        <5>1. vector[v].st \in DOMAIN structs /\ structs[vector[v].st].type = "PASSIVE"
          BY Zenon, <3>1, <4>2 DEF Dispatch
        <5> QED BY Zenon, <2>6, <2>9, <4>2, <5>1
      <4> QED BY Zenon, <2>10, <4>1, <4>2
    <3> QED BY Zenon, <3>1, <3>2 DEF Dispatch
  <2>18. PairsDiffer'
    <3>1. \A s : Queued(s)' => Queued(s)
      BY Zenon, <2>3, <2>6, <2>9 DEF Queued
    <3> QED BY Zenon, <1>1, <3>1 DEF Inv, Objects, PairsDiffer
  <2>19. ASSUME NEW u \in Threads PROVE Busy(u)'
    <3>1. CASE u = t
      BY Zenon, <1>1, <3>1 DEF Inv, Typed, Busy
    <3>2. CASE u # t
      <4>1. pc'[u] = pc[u]
        BY Zenon, <1>1, <3>2 DEF Inv, Typed
      <4>2. pc[u] # "idle" => arg[u] \in DOMAIN fd_set /\ structs'[fd_set[arg[u]]] = structs[fd_set[arg[u]]]
        BY Zenon, <1>1, <2>9, <3>2, OtherSocket DEF own
      <4> QED BY Zenon, <1>1, <4>1, <4>2, SameThread DEF Inv
    <3> QED BY Zenon, <3>1, <3>2
  <2>20. OneThread'
    BY Zenon, <1>1 DEF Inv, Typed, OneThread
  <2> QED BY Zenon, <1>1, <2>11, <2>13, <2>14, <2>15, <2>16, <2>17, <2>18, <2>19, <2>20
          DEF Inv, Objects
<1> QED BY Zenon, <1>2, <1>3

(* connect() gives the socket a session that calls it back.                *)
LEMMA ConnectInv ==
  ASSUME Inv, NEW t \in Threads, _connect(t)
  PROVE  Inv'
<1>1. /\ pc[t] = "connect" /\ pc' = [pc EXCEPT ![t] = "idle"]
      /\ UNCHANGED <<garbage, vector, fd_set, opened, mutex, arg, reports>>
  BY Zenon DEF _connect, Locked, Return
<1>2. CASE St(t).type # "UNSPECIFIED"
  BY Zenon, <1>1, <1>2, ReturnInv DEF _connect, Inv, Typed
<1>3. CASE St(t).type = "UNSPECIFIED"
  <2> DEFINE own == fd_set[arg[t]]
             n == Len(sessions) + 1
             local == St(t).bind_address
  <2>1. PICK peer \in Peers :
          /\ structs' = [structs EXCEPT ![own] = [@ EXCEPT !.type = "ACTIVE", !.session = n]]
          /\ sessions' = Append(sessions, NewSession(local, peer, "SYN_SENT", own))
          /\ addSession(local, peer, n)
    BY Zenon, <1>3 DEF _connect
  <2> DEFINE x == [structs[own] EXCEPT !.type = "ACTIVE", !.session = n]
             new == NewSession(local, peer, "SYN_SENT", own)
             entry == [local |-> local, peer |-> peer, session |-> n]
  <2>2. /\ arg[t] \in DOMAIN fd_set /\ own \in DOMAIN structs /\ structs[own] \in StructType
        /\ St(t) = structs[own] /\ structs[own].live
    BY Zenon, <1>1, OwnSocket DEF St
  <2>3. /\ structs \in Seq(StructType) /\ DOMAIN structs = 1..Len(structs)
        /\ sessions \in Seq(SessionType) /\ DOMAIN sessions = 1..Len(sessions)
        /\ Len(sessions) \in Nat /\ n \in Nat /\ n # 0 /\ n \notin DOMAIN sessions
        /\ established \in Seq([local : Locals, peer : Peers, session : Nat])
    BY Indices DEF Inv, Typed
  <2>4. /\ structs' = [structs EXCEPT ![own] = x] /\ sessions' = Append(sessions, new)
        /\ established' = Append(established, entry)
    BY Zenon, <2>1, <2>2 DEF addSession
  <2>5. /\ x \in StructType /\ x.type = "ACTIVE" /\ x.live /\ x.session = n
        /\ x.backlog = structs[own].backlog /\ x.pending = structs[own].pending
    <3> HIDE DEF n, own
    <3> QED BY Zenon, <2>2, <2>3 DEF StructType, Types
  <2>6. /\ new \in SessionType /\ new.local = local /\ new.peer = peer
        /\ new.state = "SYN_SENT" /\ new.callback = own
    <3>1. local \in Locals /\ own \in Nat
      <4>1. local \in Locals
        BY Zenon, <2>2 DEF StructType
      <4>2. own \in Nat
        <5> HIDE DEF own
        <5> QED BY ONLY <2>2, <2>3
      <4> QED BY Zenon, <4>1, <4>2
    <3>2. "SYN_SENT" \in ConnectionState
      BY Zenon DEF ConnectionState
    <3> HIDE DEF local, own
    <3> QED BY Zenon, <3>1, <3>2 DEF NewSession, SessionType
  <2>7. /\ entry \in [local : Locals, peer : Peers, session : Nat]
        /\ entry.local = local /\ entry.peer = peer /\ entry.session = n
    BY Zenon, <2>2, <2>3 DEF StructType
  <2>8. structs[own].session = 0 /\ structs[own].pending = <<>>
    BY Zenon, <1>3, <2>2 DEF Inv, Objects, Owns
  <2> HIDE DEF x, new, entry, local, own
  <2>9. /\ structs' \in Seq(StructType) /\ DOMAIN structs' = DOMAIN structs
        /\ structs'[own] = x /\ \A s \in DOMAIN structs : s # own => structs'[s] = structs[s]
    BY ONLY <2>2, <2>3, <2>4, <2>5, ExceptIs
  <2>10. /\ sessions' \in Seq(SessionType) /\ DOMAIN sessions' = DOMAIN sessions \cup {n}
         /\ sessions'[n] = new /\ \A s \in DOMAIN sessions : sessions'[s] = sessions[s]
    BY ONLY <2>3, <2>4, <2>6, AppendIs
  <2> HIDE DEF n
  <2> DEFINE l == Len(established) + 1
  <2>11. /\ established' \in Seq([local : Locals, peer : Peers, session : Nat])
         /\ DOMAIN established' = DOMAIN established \cup {l}
         /\ established'[l] = entry /\ \A e \in DOMAIN established : established'[e] = established[e]
    <3> DEFINE T == [local : Locals, peer : Peers, session : Nat]
    <3>1. established \in Seq(T) /\ entry \in T
      BY Zenon, <2>3, <2>7
    <3> HIDE DEF T
    <3>2. /\ established' \in Seq(T) /\ DOMAIN established' = DOMAIN established \cup {l}
         /\ established'[l] = entry
         /\ \A e \in DOMAIN established : established'[e] = established[e]
      BY ONLY <2>4, <3>1, AppendIs
    <3> QED BY Zenon, <3>2 DEF T
  <2> HIDE DEF l
  <2>12. Typed'
    <3>1. "idle" \in Where
      BY Zenon DEF Where
    <3> QED BY Zenon, <1>1, <2>9, <2>10, <2>11, <3>1 DEF Inv, Typed
  <2>13. Owned(x) = {n} /\ Owned(structs[own]) = {}
    BY <2>3, <2>5, <2>8 DEF Owned, Range
  <2>14. Sockets'
    BY Zenon, <1>1, <2>5, <2>9 DEF Inv, Objects, Sockets
  <2>15. Owns'
    BY <1>1, <2>2, <2>5, <2>6, <2>8, <2>9, <2>10 DEF Inv, Objects, Owns
  <2>16. Partition'
    <3> DEFINE has(st) == Owned(structs[st])
               has1(st) == Owned(structs'[st])
    <3>1. has1(own) = {n} /\ has(own) = {} /\ \A s \in DOMAIN structs : s # own => has1(s) = has(s)
      BY Zenon, <2>9, <2>13
    <3>2. /\ \A s \in DOMAIN structs : has(s) \subseteq DOMAIN sessions \ garbage
          /\ \A s, other \in DOMAIN structs : s # other => has(s) \cap has(other) = {}
          /\ \A s \in DOMAIN sessions \ garbage : \E st \in DOMAIN structs : s \in has(st)
      BY Zenon DEF Inv, Objects, Partition
    <3>3. garbage \subseteq DOMAIN sessions
      BY Zenon DEF Inv, Typed
    <3> HIDE DEF has, has1
    <3>4. /\ \A s \in DOMAIN structs : has1(s) \subseteq DOMAIN sessions' \ garbage
          /\ \A s, other \in DOMAIN structs : s # other => has1(s) \cap has1(other) = {}
          /\ \A s \in DOMAIN sessions' \ garbage : \E st \in DOMAIN structs : s \in has1(st)
      <4>1. ASSUME NEW s \in DOMAIN structs PROVE has1(s) \subseteq DOMAIN sessions' \ garbage
        <5>1. n \in DOMAIN sessions' \ garbage /\ DOMAIN sessions \subseteq DOMAIN sessions'
          BY ONLY Zenon, <2>3, <2>10, <3>3
        <5>2. has1(s) \subseteq {n} \/ has1(s) = has(s)
          BY Zenon, <3>1
        <5>3. has(s) \subseteq DOMAIN sessions \ garbage
          BY Zenon, <3>2
        <5> QED BY ONLY <5>1, <5>2, <5>3
      <4>2. ASSUME NEW s \in DOMAIN structs, NEW other \in DOMAIN structs, s # other
            PROVE  has1(s) \cap has1(other) = {}
        <5>1. \A r \in DOMAIN structs : n \notin has(r)
          BY ONLY Zenon, <2>3, <3>2
        <5> QED BY ONLY <3>1, <3>2, <4>2, <5>1
      <4>3. ASSUME NEW s \in DOMAIN sessions' \ garbage
            PROVE  \E st \in DOMAIN structs : s \in has1(st)
        <5>1. CASE s = n
          BY Zenon, <2>2, <3>1, <5>1
        <5>2. CASE s \in DOMAIN sessions
          <6>1. PICK st \in DOMAIN structs : s \in has(st)
            BY ONLY Zenon, <3>2, <4>3, <5>2
          <6> QED BY Zenon, <3>1, <6>1
        <5> QED BY Zenon, <2>10, <5>1, <5>2
      <4> QED BY Zenon, <4>1, <4>2, <4>3
    <3> QED BY Zenon, <1>1, <2>9, <3>4 DEF Partition, has1
  <2>17. Callbacks'
    <3> SUFFICES ASSUME NEW s \in DOMAIN sessions'
                 PROVE  /\ sessions'[s].callback # 0 =>
                             /\ sessions'[s].callback \in DOMAIN structs'
                             /\ structs'[sessions'[s].callback].live =>
                                  structs'[sessions'[s].callback].session = s
                        /\ s \notin garbage' => sessions'[s].state \notin Closing
      BY Zenon DEF Callbacks
    <3>1. CASE s = n
      BY <2>2, <2>5, <2>6, <2>9, <2>10, <3>1 DEF Closing
    <3>2. CASE s \in DOMAIN sessions
      <4>1. sessions[s].callback # own
        BY <2>2, <2>3, <2>8, <3>2 DEF Inv, Objects, Callbacks
      <4> QED BY <1>1, <2>9, <2>10, <3>2, <4>1 DEF Inv, Objects, Callbacks
    <3> QED BY Zenon, <2>10, <3>1, <3>2
  <2>18. Dispatch'
    <3>1. ASSUME NEW s \in DOMAIN sessions'
          PROVE  \E e \in DOMAIN established' : /\ established'[e].local = sessions'[s].local
                                                /\ established'[e].peer = sessions'[s].peer
      <4>1. CASE s = n
        BY Zenon, <2>6, <2>7, <2>10, <2>11, <4>1
      <4>2. CASE s \in DOMAIN sessions
        BY <2>10, <2>11, <4>2 DEF Inv, Objects, Dispatch
      <4> QED BY Zenon, <2>10, <4>1, <4>2
    <3>2. \A e \in DOMAIN established' : established'[e].session \in DOMAIN sessions'
      BY Zenon, <2>7, <2>10, <2>11 DEF Inv, Objects, Dispatch
    <3>3. ASSUME NEW v \in DOMAIN vector
          PROVE  /\ vector[v].st \in DOMAIN structs'
                 /\ structs'[vector[v].st].type = "PASSIVE"
      <4>1. vector[v].st \in DOMAIN structs /\ structs[vector[v].st].type = "PASSIVE"
        BY Zenon DEF Inv, Objects, Dispatch
      <4> QED BY Zenon, <1>3, <2>2, <2>9, <4>1
    <3> QED BY Zenon, <1>1, <3>1, <3>2, <3>3 DEF Dispatch
  <2>19. PairsDiffer'
    <3>1. \A s : Queued(s)' => Queued(s)
      BY Zenon, <2>2, <2>5, <2>9 DEF Queued
    <3>2. \A s : Queued(s) => s \in DOMAIN sessions
      BY Zenon DEF Queued, Inv, Objects, Partition, Owned
    <3> QED BY Zenon, <2>10, <3>1, <3>2 DEF Inv, Objects, PairsDiffer
  <2>20. ASSUME NEW u \in Threads PROVE Busy(u)'
    <3>1. CASE u = t
      BY Zenon, <1>1, <3>1 DEF Inv, Typed, Busy
    <3>2. CASE u # t
      <4>1. pc'[u] = pc[u]
        BY Zenon, <1>1, <3>2 DEF Inv, Typed
      <4>2. pc[u] # "idle" =>
              LET st == fd_set[arg[u]]
              IN  /\ arg[u] \in DOMAIN fd_set /\ st \in DOMAIN structs /\ structs'[st] = structs[st]
                  /\ structs[st].live
        BY Zenon, <1>1, <2>9, <3>2, OtherSocket, OwnSocket DEF own, St
      <4>3. pc[u] # "idle" =>
              LET st == fd_set[arg[u]]
              IN  structs[st].type = "ACTIVE" =>
                    sessions'[structs[st].session] = sessions[structs[st].session]
        BY Zenon, <2>10, <4>2 DEF Inv, Objects, Owns
      <4> QED BY Zenon, <1>1, <4>1, <4>2, <4>3, SameThread DEF Inv
    <3> QED BY Zenon, <3>1, <3>2
  <2>21. OneThread'
    BY Zenon, <1>1 DEF Inv, Typed, OneThread
  <2> QED BY Zenon, <1>1, <2>12, <2>14, <2>15, <2>16, <2>17, <2>18, <2>19, <2>20, <2>21
          DEF Inv, Objects
<1> QED BY Zenon, <1>2, <1>3

(* close() closes what the socket owns, moves it to garbage_ and destroys  *)
(* the socket.                                                             *)
LEMMA CloseInv ==
  ASSUME Inv, NEW t \in Threads, _close(t)
  PROVE  Inv'
<1> DEFINE own == fd_set[arg[t]]
           set == Owned(structs[own])
           x == [structs[own] EXCEPT !.session = 0, !.pending = <<>>, !.live = FALSE]
<1>1. /\ pc[t] = "close" /\ pc' = [pc EXCEPT ![t] = "idle"]
      /\ UNCHANGED <<vector, established, opened, mutex, arg>>
      /\ garbage' = garbage \cup set
  BY Zenon DEF _close, Locked, Return, PushGarbage, St
<1>2. /\ arg[t] \in DOMAIN fd_set /\ own \in DOMAIN structs /\ structs[own] \in StructType
      /\ structs[own].live
  BY Zenon, <1>1, OwnSocket DEF St
<1>3. /\ structs \in Seq(StructType) /\ DOMAIN structs = 1..Len(structs)
      /\ sessions \in Seq(SessionType) /\ DOMAIN sessions = 1..Len(sessions)
      /\ Len(sessions) \in Nat
      /\ \A s \in DOMAIN sessions : sessions[s] \in SessionType
  BY Zenon, Indices DEF Inv, Typed
<1>4. structs' = [structs EXCEPT ![own] = x]
  BY Zenon, <1>2 DEF _close, removeStruct
<1>5. /\ x \in StructType /\ x.type = structs[own].type /\ x.backlog = structs[own].backlog
      /\ x.session = 0 /\ x.pending = <<>> /\ x.live = FALSE
  <2> HIDE DEF own
  <2>1. <<>> \in Seq(Nat) /\ 0 \in Nat
    OBVIOUS
  <2> DEFINE y == [structs[own] EXCEPT !.session = 0, !.live = FALSE]
  <2>2. /\ y \in StructType /\ y.type = structs[own].type /\ y.backlog = structs[own].backlog
        /\ y.session = 0 /\ y.live = FALSE
    BY Zenon, <1>2, <2>1 DEF StructType
  <2>3. x = [y EXCEPT !.pending = <<>>]
    BY Zenon, <1>2 DEF StructType
  <2> HIDE DEF x, y
  <2> QED BY Zenon, <2>1, <2>2, <2>3 DEF StructType
<1>6. Owned(x) = {} /\ Range(x.pending) = {}
  BY <1>5 DEF Owned, Range
<1>7. set \subseteq DOMAIN sessions \ garbage
  BY Zenon, <1>2 DEF Inv, Objects, Partition
<1>8. /\ sessions' = [s \in DOMAIN sessions |->
                        IF s \in set THEN [sessions[s] EXCEPT !.state = CloseState(@)]
                                     ELSE sessions[s]]
      /\ reports' = Report(\E s \in set : sessions[s].state \in Closing, "close")
  BY Zenon DEF _close, close, St
<1>9. /\ DOMAIN fd_set' = DOMAIN fd_set \ {arg[t]}
      /\ fd_set' = [fd \in DOMAIN fd_set' |-> fd_set'[fd]]
      /\ \A fd \in DOMAIN fd_set' : fd_set'[fd] = fd_set[fd]
  BY Zenon DEF _close, removeStruct, Restrict
<1> HIDE DEF x, set, own
<1>10. /\ structs' \in Seq(StructType) /\ DOMAIN structs' = DOMAIN structs
       /\ structs'[own] = x /\ \A s \in DOMAIN structs : s # own => structs'[s] = structs[s]
  BY ONLY <1>2, <1>3, <1>4, <1>5, ExceptIs
<1>11. DOMAIN sessions' = DOMAIN sessions
       /\ \A s \in DOMAIN sessions :
            /\ sessions'[s] \in SessionType
            /\ sessions'[s].local = sessions[s].local /\ sessions'[s].peer = sessions[s].peer
            /\ sessions'[s].callback = sessions[s].callback
            /\ s \notin set => sessions'[s] = sessions[s]
  <2>1. DOMAIN sessions' = DOMAIN sessions
    BY Zenon, <1>8
  <2>2. ASSUME NEW s \in DOMAIN sessions
        PROVE  /\ sessions'[s] \in SessionType
               /\ sessions'[s].local = sessions[s].local /\ sessions'[s].peer = sessions[s].peer
               /\ sessions'[s].callback = sessions[s].callback
               /\ s \notin set => sessions'[s] = sessions[s]
    <3>1. sessions[s] \in SessionType
      BY Zenon, <1>3
    <3>2. CASE s \notin set
      BY Zenon, <1>8, <3>1, <3>2
    <3>3. CASE s \in set
      <4>1. sessions'[s] = [sessions[s] EXCEPT !.state = CloseState(sessions[s].state)]
        BY Zenon, <1>8, <3>3
      <4>2. CloseState(sessions[s].state) \in ConnectionState
        BY Zenon, <3>1 DEF CloseState, SessionType, ConnectionState
      <4> QED BY Zenon, <3>1, <3>3, <4>1, <4>2 DEF SessionType
    <3> QED BY Zenon, <3>2, <3>3
  <2> QED BY Zenon, <2>1, <2>2
<1>12. sessions' \in Seq(SessionType)
  <2>1. sessions' \in [1..Len(sessions) -> SessionType]
    BY Zenon, <1>3, <1>8, <1>11
  <2> QED BY <1>3, <2>1
<1>13. reports' = reports
  <2>1. \A s \in set : sessions[s].state \notin Closing
    BY Zenon, <1>7 DEF Inv, Objects, Callbacks
  <2> QED BY Zenon, <1>8, <2>1 DEF Report
<1>14. Typed'
  <2>1. "idle" \in Where
    BY Zenon DEF Where
  <2> QED BY Zenon, <1>1, <1>7, <1>9, <1>10, <1>11, <1>12, <2>1 DEF Inv, Typed
<1>15. Sockets'
  <2>1. \A fd \in DOMAIN fd_set' : fd_set[fd] \in DOMAIN structs /\ fd_set[fd] # own
    BY Zenon, <1>2, <1>9 DEF Inv, Objects, Sockets, own
  <2> QED BY <1>9, <1>10, <2>1 DEF Inv, Objects, Sockets
<1>16. Owns'
  <2>1. Len(x.pending) = 0 /\ DOMAIN x.pending = {} /\ 0 <= x.backlog
    BY <1>5 DEF StructType
  <2> QED BY <1>5, <1>10, <1>11, <2>1 DEF Inv, Objects, Owns
<1>17. Partition'
  <2> DEFINE has(st) == Owned(structs[st])
             has1(st) == Owned(structs'[st])
  <2>1. has1(own) = {} /\ has(own) = set /\ \A s \in DOMAIN structs : s # own => has1(s) = has(s)
    BY Zenon, <1>6, <1>10 DEF set
  <2>2. /\ \A s \in DOMAIN structs : has(s) \subseteq DOMAIN sessions \ garbage
        /\ \A s, other \in DOMAIN structs : s # other => has(s) \cap has(other) = {}
        /\ \A s \in DOMAIN sessions \ garbage : \E st \in DOMAIN structs : s \in has(st)
    BY Zenon DEF Inv, Objects, Partition
  <2> HIDE DEF has, has1
  <2>3. ASSUME NEW s \in DOMAIN structs PROVE has1(s) \subseteq DOMAIN sessions' \ garbage'
    <3>1. CASE s = own
      BY Zenon, <2>1, <3>1
    <3>2. CASE s # own
      <4>1. has(s) \cap set = {} /\ has(s) \subseteq DOMAIN sessions \ garbage
        BY <1>2, <2>1, <2>2, <3>2
      <4> QED BY Zenon, <1>1, <1>11, <2>1, <3>2, <4>1
    <3> QED BY Zenon, <3>1, <3>2
  <2>4. \A s, other \in DOMAIN structs : s # other => has1(s) \cap has1(other) = {}
    BY ONLY Zenon, <2>1, <2>2
  <2>5. ASSUME NEW s \in DOMAIN sessions' \ garbage' PROVE \E st \in DOMAIN structs : s \in has1(st)
    <3>1. s \in DOMAIN sessions \ garbage /\ s \notin set
      BY Zenon, <1>1, <1>11
    <3>2. PICK st \in DOMAIN structs : s \in has(st)
      BY ONLY Zenon, <2>2, <3>1
    <3> QED BY Zenon, <2>1, <3>1, <3>2
  <2> QED BY Zenon, <1>10, <2>3, <2>4, <2>5 DEF Partition, has1
<1>18. Callbacks'
  BY <1>1, <1>5, <1>10, <1>11 DEF Inv, Objects, Callbacks
<1>19. Dispatch'
  <2>1. Dispatch
    BY Zenon DEF Inv, Objects
  <2>2. \A st \in DOMAIN structs : structs'[st].type = structs[st].type
    BY Zenon, <1>5, <1>10
  <2> QED BY <1>1, <1>10, <1>11, <2>1, <2>2 DEF Dispatch
<1>20. PairsDiffer'
  <2>1. \A s : Queued(s)' => Queued(s)
    BY Zenon, <1>6, <1>10 DEF Queued
  <2> QED BY <1>11, <2>1 DEF Inv, Objects, PairsDiffer
<1>21. ASSUME NEW u \in Threads PROVE Busy(u)'
  <2>1. CASE u = t
    BY Zenon, <1>1, <2>1 DEF Inv, Typed, Busy
  <2>2. CASE u # t
    <3>1. pc'[u] = pc[u]
      BY Zenon, <1>1, <2>2 DEF Inv, Typed
    <3>2. CASE pc[u] = "idle"
      BY <3>1, <3>2 DEF Busy
    <3>3. CASE pc[u] # "idle"
      <4> DEFINE st == fd_set[arg[u]]
      <4>1. /\ arg[u] \in DOMAIN fd_set' /\ st \in DOMAIN structs /\ st # own
            /\ structs[st].live
        BY <1>1, <1>9, <2>2, <3>3, OtherSocket, OwnSocket DEF own, St
      <4> HIDE DEF st
      <4>2. structs[st].type = "ACTIVE" =>
              structs[st].session \in Owned(structs[st]) /\ structs[st].session \in DOMAIN sessions
        BY <1>3, <4>1 DEF Owned, Inv, Objects, Owns
      <4>3. Owned(structs[st]) \cap set = {}
        BY Zenon, <1>2, <4>1 DEF Inv, Objects, Partition, set
      <4>4. structs[st].type = "ACTIVE" =>
              sessions'[structs[st].session] = sessions[structs[st].session]
        BY Zenon, <1>11, <4>2, <4>3
      <4> QED BY Zenon, <1>1, <1>9, <1>10, <3>1, <4>1, <4>4, SameThread DEF Inv, st
    <3> QED BY Zenon, <3>2, <3>3
  <2> QED BY Zenon, <2>1, <2>2
<1>22. OneThread'
  BY Zenon, <1>1 DEF Inv, Typed, OneThread
<1> QED BY Zenon, <1>13, <1>14, <1>15, <1>16, <1>17, <1>18, <1>19, <1>20, <1>21, <1>22
        DEF Inv, Objects

(* What is left of a queue without repetitions.                            *)
LEMMA RemoveFromSet ==
  ASSUME NEW X, NEW q \in Seq(X), NEW i \in DOMAIN q,
         \A j, k \in DOMAIN q : q[j] = q[k] => j = k
  PROVE  LET r == Without(q, i)
         IN  /\ r \in Seq(X) /\ Len(r) = Len(q) - 1 /\ Range(r) = Range(q) \ {q[i]}
             /\ \A j, k \in DOMAIN r : r[j] = r[k] => j = k
<1> DEFINE r == Without(q, i)
           old(j) == IF j < i THEN j ELSE j + 1
<1>1. q \in Seq(X) /\ DOMAIN q = 1..Len(q) /\ Len(q) \in Nat /\ i \in 1..Len(q)
  OBVIOUS
<1>2. /\ r \in Seq(X) /\ Len(r) = Len(q) - 1
      /\ \A j \in 1..(Len(q) - 1) : r[j] = IF j < i THEN q[j] ELSE q[j + 1]
  BY ONLY Zenon, <1>1, WithoutIs
<1> HIDE DEF r
<1>3. DOMAIN r = 1..(Len(q) - 1)
  BY <1>2
<1>4. \A j \in DOMAIN r : old(j) \in DOMAIN q /\ old(j) # i /\ r[j] = q[old(j)]
  <2> SUFFICES ASSUME NEW j \in DOMAIN r
               PROVE  old(j) \in DOMAIN q /\ old(j) # i /\ r[j] = q[old(j)]
    BY Zenon
  <2>1. old(j) \in DOMAIN q /\ old(j) # i
    BY ONLY <1>1, <1>3, j \in DOMAIN r
  <2>2. r[j] = IF j < i THEN q[j] ELSE q[j + 1]
    BY Zenon, <1>2, <1>3
  <2> QED BY Zenon, <2>1, <2>2
<1>5. \A k \in DOMAIN q : k # i => \E j \in DOMAIN r : old(j) = k
  <2> SUFFICES ASSUME NEW k \in DOMAIN q, k # i PROVE \E j \in DOMAIN r : old(j) = k
    BY Zenon
  <2>1. CASE k < i
    <3>1. k \in DOMAIN r /\ old(k) = k
      BY <1>1, <1>3, <2>1
    <3> QED BY Zenon, <3>1
  <2>2. CASE k > i
    <3>1. k - 1 \in DOMAIN r /\ old(k - 1) = k
      BY <1>1, <1>3, <2>2
    <3> QED BY Zenon, <3>1
  <2> QED BY <1>1, <2>1, <2>2
<1>6. \A j, k \in DOMAIN r : old(j) = old(k) => j = k
  BY <1>1, <1>3
<1> HIDE DEF old
<1>7. Range(r) = {r[j] : j \in DOMAIN r} /\ Range(q) = {q[j] : j \in DOMAIN q}
  BY Zenon DEF Range
<1>8. Range(r) = Range(q) \ {q[i]}
  <2>1. \A v \in Range(r) : v \in Range(q) \ {q[i]}
    BY <1>4, <1>7
  <2>2. \A v \in Range(q) \ {q[i]} : v \in Range(r)
    <3> SUFFICES ASSUME NEW k \in DOMAIN q, q[k] # q[i] PROVE q[k] \in Range(r)
      BY Zenon, <1>7
    <3>1. PICK j \in DOMAIN r : old(j) = k
      BY Zenon, <1>5
    <3> QED BY <1>4, <1>7, <3>1
  <2> QED BY Zenon, <2>1, <2>2
<1>9. \A j, k \in DOMAIN r : r[j] = r[k] => j = k
  BY Zenon, <1>4, <1>6
<1> QED BY Zenon, <1>2, <1>8, <1>9 DEF r

(* What accept() takes and leaves.                                         *)
LEMMA TakenIs ==
  ASSUME Inv, NEW own \in DOMAIN structs, NEW i \in DOMAIN structs[own].pending,
         structs[own].type = "PASSIVE", structs[own].live
  PROVE  LET s == structs[own].pending[i]
             x == [structs[own] EXCEPT !.pending = Without(@, i)]
         IN  /\ x \in StructType /\ x.type = structs[own].type /\ x.live = structs[own].live
             /\ x.session = structs[own].session /\ x.backlog = structs[own].backlog
             /\ x.message = structs[own].message
             /\ Owned(x) = Owned(structs[own]) \ {s}
             /\ Range(x.pending) \subseteq Range(structs[own].pending)
             /\ Len(x.pending) <= x.backlog
             /\ \A j, k \in DOMAIN x.pending : x.pending[j] = x.pending[k] => j = k
             /\ s \in Owned(structs[own]) /\ s \in DOMAIN sessions \ garbage
<1> DEFINE q == structs[own].pending
           s == q[i]
           r == Without(q, i)
           x == [structs[own] EXCEPT !.pending = r]
<1>1. structs[own] \in StructType
  BY Zenon, Indices DEF Inv
<1>2. q \in Seq(Nat) /\ structs[own].backlog \in Nat
  BY Zenon, <1>1 DEF StructType
<1>3. /\ Len(q) <= structs[own].backlog /\ structs[own].session = 0
      /\ \A j, k \in DOMAIN q : q[j] = q[k] => j = k
  BY Zenon DEF Inv, Objects, Owns
<1>4. /\ r \in Seq(Nat) /\ Len(r) = Len(q) - 1 /\ Range(r) = Range(q) \ {s}
      /\ \A j, k \in DOMAIN r : r[j] = r[k] => j = k
  BY <1>2, <1>3, RemoveFromSet
<1>5. s \in Range(q)
  BY Zenon DEF Range
<1>6. s \in Owned(structs[own])
  BY Zenon, <1>5 DEF Owned
<1>7. s \in DOMAIN sessions \ garbage
  BY Zenon, <1>6 DEF Inv, Objects, Partition
<1> HIDE DEF r
<1>8. /\ x \in StructType /\ x.type = structs[own].type /\ x.live = structs[own].live
      /\ x.session = structs[own].session /\ x.backlog = structs[own].backlog
      /\ x.message = structs[own].message /\ x.pending = r
  BY Zenon, <1>1, <1>4 DEF StructType
<1> HIDE DEF x
<1>9. Owned(x) = Owned(structs[own]) \ {s}
  <2>1. Owned(x) = Range(r) /\ Owned(structs[own]) = Range(q)
    BY Zenon, <1>3, <1>8 DEF Owned
  <2> QED BY Zenon, <1>4, <2>1
<1>10. Len(x.pending) <= x.backlog
  <2>1. Len(q) \in Nat
    BY <1>2
  <2> HIDE DEF q
  <2> QED BY <1>2, <1>3, <1>4, <1>8, <2>1
<1> QED BY Zenon, <1>4, <1>6, <1>7, <1>8, <1>9, <1>10 DEF x, r

(* accept() moves a session from the queue to a socket of its own.         *)
Takes(t, i) ==
  LET s == St(t).pending[i]
      new == Len(structs) + 1
  IN  /\ pc[t] = "accept woken" /\ dup # NoFd /\ i \in DOMAIN St(t).pending
      /\ structs' = Append([structs EXCEPT ![fd_set[arg[t]]].pending = Without(@, i)],
                           [NewStruct(St(t).bind_address, {}) EXCEPT
                              !.type = "ACTIVE", !.session = s])
      /\ fd_set' = [f \in DOMAIN fd_set \cup {dup} |-> IF f = dup THEN new ELSE fd_set[f]]
      /\ opened' = opened \cup {dup}
      /\ sessions' = [sessions EXCEPT ![s].callback = new]

(* accept() moves a session from the queue to a new socket.                *)
LEMMA TakeInv ==
  ASSUME Inv, NEW t \in Threads, pc[t] # "idle", NEW i, Takes(t, i),
         pc' = [pc EXCEPT ![t] = "idle"],
         UNCHANGED <<garbage, vector, established, mutex, arg, reports>>
  PROVE  Inv'
<1> DEFINE own == fd_set[arg[t]]
           n == Len(structs) + 1
           taken == structs[own].pending[i]
           x == [structs[own] EXCEPT !.pending = Without(@, i)]
           y == [NewStruct(structs[own].bind_address, {}) EXCEPT !.type = "ACTIVE", !.session = taken]
           z == [sessions[taken] EXCEPT !.callback = n]
           mid == [structs EXCEPT ![own] = x]
<1>1. /\ arg[t] \in DOMAIN fd_set /\ own \in DOMAIN structs /\ structs[own] \in StructType
      /\ structs[own].live /\ structs[own].type = "PASSIVE" /\ St(t) = structs[own]
      /\ i \in DOMAIN structs[own].pending
  BY Zenon, OwnSocket DEF St, Inv, Busy, Accepting, Takes
<1>2. /\ structs \in Seq(StructType) /\ DOMAIN structs = 1..Len(structs) /\ Len(structs) \in Nat
      /\ sessions \in Seq(SessionType) /\ DOMAIN sessions = 1..Len(sessions)
      /\ Len(sessions) \in Nat /\ n \in Nat /\ n # 0 /\ n \notin DOMAIN structs
      /\ \A s \in DOMAIN sessions : sessions[s] \in SessionType
  BY Indices DEF Inv, Typed
<1>3. /\ DOMAIN fd_set' = DOMAIN fd_set \cup {dup} /\ fd_set'[dup] = n
      /\ fd_set' = [fd \in DOMAIN fd_set' |-> fd_set'[fd]]
      /\ \A fd \in DOMAIN fd_set : fd # dup => fd_set'[fd] = fd_set[fd]
      /\ opened' = opened \cup {dup}
  BY Zenon DEF Takes
<1>4. dup \in (1..Descriptors) \ opened
  BY Zenon, DupIsNew DEF Inv, Takes
<1>5. /\ x \in StructType /\ x.type = structs[own].type /\ x.live = structs[own].live
      /\ x.session = structs[own].session /\ x.backlog = structs[own].backlog
      /\ x.message = structs[own].message
      /\ Owned(x) = Owned(structs[own]) \ {taken}
      /\ Range(x.pending) \subseteq Range(structs[own].pending)
      /\ Len(x.pending) <= x.backlog
      /\ \A j, k \in DOMAIN x.pending : x.pending[j] = x.pending[k] => j = k
      /\ taken \in Owned(structs[own]) /\ taken \in DOMAIN sessions \ garbage
  BY <1>1, TakenIs, Zenon
<1>6. structs' = Append(mid, y) /\ sessions' = [sessions EXCEPT ![taken] = z]
  BY Zenon, <1>1, <1>5 DEF Takes
<1>7. /\ y \in StructType /\ y.type = "ACTIVE" /\ y.live /\ y.session = taken
      /\ y.pending = <<>> /\ y.backlog = 0
  <2> HIDE DEF own, taken, x
  <2>1. structs[own].bind_address \in Locals
    BY Zenon, <1>1 DEF StructType
  <2>2. taken \in Nat /\ <<>> \in Seq(Nat)
    BY <1>2, <1>5
  <2> QED BY Zenon, <2>1, <2>2 DEF StructType, NewStruct, Types
<1>8. /\ z \in SessionType /\ z.local = sessions[taken].local /\ z.peer = sessions[taken].peer
      /\ z.state = sessions[taken].state /\ z.callback = n
  <2>1. sessions[taken] \in SessionType
    BY Zenon, <1>2, <1>5
  <2> HIDE DEF taken, n
  <2> QED BY Zenon, <1>2, <2>1 DEF SessionType
<1>9. Owned(y) = {taken} /\ Range(y.pending) = {} /\ Len(y.pending) = 0 /\ DOMAIN y.pending = {}
  <2> HIDE DEF x, y, own, taken
  <2>1. taken # 0
    BY <1>2, <1>5
  <2>2. Range(<<>>) = {}
    BY DEF Range
  <2> QED BY <1>7, <2>1, <2>2 DEF Owned
<1> HIDE DEF x, y, z, own, taken
<1>10. /\ mid \in Seq(StructType) /\ Len(mid) = Len(structs) /\ DOMAIN mid = DOMAIN structs
       /\ mid[own] = x /\ \A s \in DOMAIN structs : s # own => mid[s] = structs[s]
  BY ONLY <1>1, <1>2, <1>5, ExceptIs
<1> HIDE DEF mid
<1>11. /\ structs' \in Seq(StructType) /\ DOMAIN structs' = DOMAIN structs \cup {n}
       /\ structs'[n] = y /\ structs'[own] = x
       /\ \A s \in DOMAIN structs : s # own => structs'[s] = structs[s]
  <2>1. /\ structs' \in Seq(StructType) /\ DOMAIN structs' = DOMAIN mid \cup {Len(mid) + 1}
        /\ structs'[Len(mid) + 1] = y /\ \A s \in DOMAIN mid : structs'[s] = mid[s]
    BY ONLY <1>6, <1>7, <1>10, AppendIs
  <2> QED BY Zenon, <1>1, <1>10, <2>1
<1>12. /\ sessions' \in Seq(SessionType) /\ DOMAIN sessions' = DOMAIN sessions
       /\ sessions'[taken] = z /\ \A s \in DOMAIN sessions : s # taken => sessions'[s] = sessions[s]
  BY ONLY <1>2, <1>5, <1>6, <1>8, ExceptIs
<1> HIDE DEF n
<1>13. \A s \in DOMAIN sessions : /\ sessions'[s].local = sessions[s].local
                                  /\ sessions'[s].peer = sessions[s].peer
                                  /\ sessions'[s].state = sessions[s].state
  BY Zenon, <1>8, <1>12
<1>14. Typed'
  <2>1. "idle" \in Where
    BY Zenon DEF Where
  <2> QED BY Zenon, <1>3, <1>4, <1>11, <1>12, <2>1 DEF Inv, Typed
<1>15. Sockets'
  <2>1. \A st \in DOMAIN structs : structs[st].live => structs'[st].live
    BY Zenon, <1>1, <1>5, <1>11
  <2>2. Sockets
    BY Zenon DEF Inv, Objects
  <2>3. \A fd \in DOMAIN fd_set' : fd_set'[fd] \in DOMAIN structs' /\ structs'[fd_set'[fd]].live
    BY <1>3, <1>7, <1>11, <2>1, <2>2 DEF Sockets
  <2>4. \A fd, other \in DOMAIN fd_set' : fd_set'[fd] = fd_set'[other] => fd = other
    BY <1>2, <1>3, <2>2 DEF Sockets
  <2> QED BY Zenon, <2>3, <2>4 DEF Sockets
<1>16. Owns'
  <2> SUFFICES ASSUME NEW st \in DOMAIN structs'
               PROVE  /\ structs'[st].type = "ACTIVE" /\ structs'[st].live =>
                           /\ structs'[st].session \in DOMAIN sessions'
                           /\ sessions'[structs'[st].session].callback = st
                      /\ ~(structs'[st].type = "ACTIVE" /\ structs'[st].live) =>
                           structs'[st].session = 0
                      /\ ~(structs'[st].type = "PASSIVE" /\ structs'[st].live) =>
                           structs'[st].pending = <<>>
                      /\ Len(structs'[st].pending) <= structs'[st].backlog
                      /\ \A j, k \in DOMAIN structs'[st].pending :
                           structs'[st].pending[j] = structs'[st].pending[k] => j = k
    BY Zenon DEF Owns
  <2>1. CASE st = n
    BY <1>5, <1>7, <1>8, <1>9, <1>11, <1>12, <2>1
  <2>2. CASE st = own
    <3>1. structs[own].session = 0
      BY Zenon, <1>1 DEF Inv, Objects, Owns
    <3> QED BY Zenon, <1>1, <1>5, <1>11, <2>2, <3>1
  <2>3. CASE st \in DOMAIN structs /\ st # own
    <3>1. structs'[st] = structs[st]
      BY Zenon, <1>11, <2>3
    <3>2. ASSUME structs[st].type = "ACTIVE" /\ structs[st].live
          PROVE  structs[st].session \in DOMAIN sessions /\ structs[st].session # taken
      <4>1. structs[st].session \in DOMAIN sessions
        BY Zenon, <2>3, <3>2 DEF Inv, Objects, Owns
      <4>2. structs[st].session \in Owned(structs[st])
        BY <1>2, <4>1 DEF Owned
      <4>3. Owned(structs[st]) \cap Owned(structs[own]) = {}
        BY Zenon, <1>1, <2>3 DEF Inv, Objects, Partition
      <4> QED BY Zenon, <1>5, <4>1, <4>2, <4>3
    <3> QED BY <1>12, <2>3, <3>1, <3>2 DEF Inv, Objects, Owns
  <2> QED BY Zenon, <1>11, <2>1, <2>2, <2>3
<1>17. Partition'
  <2> DEFINE has(st) == Owned(structs[st])
             has1(st) == Owned(structs'[st])
  <2>1. /\ has1(own) = has(own) \ {taken} /\ has1(n) = {taken} /\ taken \in has(own)
        /\ \A s \in DOMAIN structs : s # own => has1(s) = has(s)
    BY Zenon, <1>5, <1>9, <1>11
  <2>2. /\ \A s \in DOMAIN structs : has(s) \subseteq DOMAIN sessions \ garbage
        /\ \A s, other \in DOMAIN structs : s # other => has(s) \cap has(other) = {}
        /\ \A s \in DOMAIN sessions \ garbage : \E st \in DOMAIN structs : s \in has(st)
    BY Zenon DEF Inv, Objects, Partition
  <2> HIDE DEF has, has1
  <2>3. \A s \in DOMAIN structs : has1(s) \subseteq has(s) /\ taken \notin has1(s)
    <3> SUFFICES ASSUME NEW s \in DOMAIN structs PROVE has1(s) \subseteq has(s) /\ taken \notin has1(s)
      BY Zenon
    <3>1. CASE s = own
      BY Zenon, <2>1, <3>1
    <3>2. CASE s # own
      <4>1. has(s) \cap has(own) = {} /\ has1(s) = has(s)
        BY Zenon, <1>1, <2>1, <2>2, <3>2
      <4> QED BY <2>1, <4>1
    <3> QED BY Zenon, <3>1, <3>2
  <2>4. ASSUME NEW s \in DOMAIN structs' PROVE has1(s) \subseteq DOMAIN sessions \ garbage
    <3>1. CASE s = n
      BY Zenon, <1>5, <2>1, <3>1
    <3>2. CASE s \in DOMAIN structs
      BY <2>2, <2>3, <3>2
    <3> QED BY <1>11, <3>1, <3>2
  <2>5. ASSUME NEW s \in DOMAIN structs', NEW other \in DOMAIN structs', s # other
        PROVE  has1(s) \cap has1(other) = {}
    <3>1. CASE s = n \/ other = n
      BY <1>11, <2>1, <2>3, <2>5, <3>1
    <3>2. CASE s \in DOMAIN structs /\ other \in DOMAIN structs
      <4>1. has(s) \cap has(other) = {} /\ has1(s) \subseteq has(s) /\ has1(other) \subseteq has(other)
        BY Zenon, <2>2, <2>3, <2>5, <3>2
      <4> QED BY Zenon, <4>1
    <3> QED BY Zenon, <1>11, <3>1, <3>2
  <2>6. ASSUME NEW s \in DOMAIN sessions \ garbage PROVE \E st \in DOMAIN structs' : s \in has1(st)
    <3>1. PICK st \in DOMAIN structs : s \in has(st)
      BY ONLY Zenon, <2>2, <2>6
    <3>2. CASE s = taken
      BY <1>11, <2>1, <3>2
    <3>3. CASE s # taken
      BY Zenon, <1>11, <2>1, <3>1, <3>3
    <3> QED BY <3>2, <3>3
  <2> QED BY Zenon, <1>12, <2>4, <2>5, <2>6 DEF Partition, has1
<1>18. Callbacks'
  <2> SUFFICES ASSUME NEW s \in DOMAIN sessions
               PROVE  /\ sessions'[s].callback # 0 =>
                           /\ sessions'[s].callback \in DOMAIN structs'
                           /\ structs'[sessions'[s].callback].live =>
                                structs'[sessions'[s].callback].session = s
                      /\ s \notin garbage => sessions'[s].state \notin Closing
    BY Zenon, <1>12 DEF Callbacks
  <2>1. s \notin garbage => sessions'[s].state \notin Closing
    BY <1>13 DEF Inv, Objects, Callbacks
  <2>2. CASE s = taken
    BY <1>7, <1>8, <1>11, <1>12, <2>1, <2>2
  <2>3. CASE s # taken
    <3>1. \A st \in DOMAIN structs :
            structs'[st].live = structs[st].live /\ structs'[st].session = structs[st].session
      BY Zenon, <1>5, <1>11
    <3>2. sessions'[s] = sessions[s] /\ DOMAIN structs \subseteq DOMAIN structs'
      BY <1>11, <1>12, <2>3
    <3> QED BY <2>1, <3>1, <3>2 DEF Inv, Objects, Callbacks
  <2> QED BY Zenon, <2>2, <2>3
<1>19. Dispatch'
  <2>1. Dispatch
    BY Zenon DEF Inv, Objects
  <2>2. DOMAIN structs \subseteq DOMAIN structs'
        /\ \A st \in DOMAIN structs : structs'[st].type = structs[st].type
    BY Zenon, <1>5, <1>11
  <2> QED BY <1>12, <1>13, <2>1, <2>2 DEF Dispatch
<1>20. PairsDiffer'
  <2>1. \A s : Queued(s)' => Queued(s)
    BY Zenon, <1>1, <1>5, <1>9, <1>11 DEF Queued
  <2> QED BY Zenon, <1>12, <1>13, <2>1 DEF Inv, Objects, PairsDiffer
<1>21. ASSUME NEW u \in Threads PROVE Busy(u)'
  <2>1. CASE u = t
    BY Zenon, <2>1 DEF Inv, Typed, Busy
  <2>2. CASE u # t
    <3>1. pc'[u] = pc[u]
      BY Zenon, <2>2 DEF Inv, Typed
    <3>2. CASE pc[u] = "idle"
      BY Zenon, <3>1, <3>2 DEF Busy
    <3>3. CASE pc[u] # "idle"
      <4> DEFINE st == fd_set[arg[u]]
      <4>1. /\ arg[u] \in DOMAIN fd_set /\ st \in DOMAIN structs /\ st # own /\ structs[st].live
        BY Zenon, <2>2, <3>3, OtherSocket, OwnSocket DEF own, St
      <4>2. arg[u] # dup
        BY Zenon, <1>4, <3>3 DEF Inv, Busy, Typed
      <4> HIDE DEF st
      <4>3. structs[st].type = "ACTIVE" => structs[st].session \in DOMAIN sessions
        BY Zenon, <4>1 DEF Inv, Objects, Owns
      <4> QED BY <1>3, <1>11, <1>13, <3>1, <4>1, <4>2, <4>3, SameThread DEF Inv, st
    <3> QED BY Zenon, <3>2, <3>3
  <2> QED BY Zenon, <2>1, <2>2
<1>22. OneThread'
  BY Zenon DEF Inv, Typed, OneThread
<1> QED BY Zenon, <1>14, <1>15, <1>16, <1>17, <1>18, <1>19, <1>20, <1>21, <1>22
        DEF Inv, Objects

(* accept() takes the first session that is ready, or waits.               *)
LEMMA AcceptPendingInv ==
  ASSUME Inv, NEW t \in Threads, AcceptPending(t)
  PROVE  Inv'
<1> DEFINE ready == {i \in DOMAIN St(t).pending :
                       sessions[St(t).pending[i]].state \notin {"LISTEN", "CLOSED"}}
<1>1. pc[t] = "accept woken" /\ UNCHANGED <<garbage, vector, established, arg, reports>>
  BY Zenon DEF AcceptPending, Locked
<1>2. St(t).type = "PASSIVE" /\ St(t) \in StructType
  BY Zenon, <1>1, OwnSocket DEF Inv, Busy, Accepting
<1>3. CASE ready = {} \/ dup = NoFd
  <2>1. waitMessage(t, "accept waits") /\ UNCHANGED <<sessions, fd_set, opened>>
    BY Zenon, <1>3 DEF AcceptPending
  <2>2. "accept waits" \in Waiting /\ "accept waits" \notin Writing
    BY Zenon DEF Waiting, Writing
  <2> QED BY Zenon, <1>1, <1>2, <2>1, <2>2, WaitInv
<1>4. CASE ~(ready = {} \/ dup = NoFd)
  <2> DEFINE i == Min(ready)
  <2>1. i \in ready
    <3>1. DOMAIN St(t).pending \subseteq Nat
      BY <1>2 DEF StructType
    <3> QED BY Zenon, <1>4, <3>1, MinIsIn
  <2>2. Takes(t, i) /\ pc[t] # "idle"
    BY <1>1, <1>4, <2>1, Zenon DEF AcceptPending, Takes
  <2>3. pc' = [pc EXCEPT ![t] = "idle"] /\ UNCHANGED mutex
    BY <1>4, Zenon DEF AcceptPending, Return
  <2> HIDE DEF i
  <2> HIDE DEF ready
  <2> QED BY <1>1, <1>4, <2>2, <2>3, TakeInv, Zenon
<1> QED BY Zenon, <1>3, <1>4
-----------------------------------------------------------------------------
(* The event loop.                                                         *)

(* Where a thread that waits goes on.                                      *)
LEMMA WokenIs ==
  \A w \in Waiting :
    /\ Woken(w) \in Where /\ Woken(w) \notin Waiting /\ Woken(w) # "idle" /\ w # "idle"
    /\ Woken(w) # "sending" /\ w # "sending"
    /\ Woken(w) \in Accepting <=> w \in Accepting
    /\ Woken(w) \in Writing <=> w \in Writing
BY Zenon DEF Waiting, Woken, Where, Accepting, Writing

(* A socket has at most one thread that waits, and notify_one() wakes it.  *)
LEMMA NotifyIs ==
  ASSUME Inv, NEW st \in DOMAIN structs, NotifyOne(st)
  PROVE  /\ pc' \in [Threads -> Where]
         /\ \A u \in Threads : \/ pc'[u] = pc[u]
                               \/ pc[u] \in Waiting /\ pc'[u] = Woken(pc[u])
         /\ \A u \in Threads : pc'[u] \in Waiting => fd_set[arg[u]] # st
<1>1. pc \in [Threads -> Where]
  BY Zenon DEF Inv, Typed
<1>2. ASSUME NEW u \in WaitersOf(st), NEW w \in WaitersOf(st) PROVE u = w
  <2>1. /\ u \in Threads /\ w \in Threads /\ pc[u] # "idle" /\ pc[w] # "idle"
        /\ fd_set[arg[u]] = fd_set[arg[w]]
    BY Zenon, WokenIs DEF WaitersOf
  <2> QED BY Zenon, <2>1, OtherSocket
<1>3. CASE WaitersOf(st) = {}
  <2>1. pc' = pc
    BY Zenon, <1>3 DEF NotifyOne
  <2>2. \A u \in Threads : pc[u] \in Waiting => fd_set[arg[u]] # st
    BY Zenon, <1>3 DEF WaitersOf
  <2> QED BY Zenon, <1>1, <2>1, <2>2
<1>4. CASE WaitersOf(st) # {}
  <2>1. PICK w \in WaitersOf(st) : pc' = [pc EXCEPT ![w] = Woken(@)]
    BY Zenon, <1>4 DEF NotifyOne
  <2>2. w \in Threads /\ pc[w] \in Waiting
    BY Zenon DEF WaitersOf
  <2>3. Woken(pc[w]) \in Where /\ Woken(pc[w]) \notin Waiting
    BY Zenon, <2>2, WokenIs
  <2>4. /\ pc' \in [Threads -> Where] /\ pc'[w] = Woken(pc[w])
        /\ \A u \in Threads : u # w => pc'[u] = pc[u]
    BY <1>1, <2>1, <2>2, <2>3
  <2>5. \A u \in Threads : u # w /\ pc[u] \in Waiting => fd_set[arg[u]] # st
    BY Zenon, <1>2 DEF WaitersOf
  <2> QED BY <2>2, <2>3, <2>4, <2>5
<1> QED BY Zenon, <1>3, <1>4

(* What is known of a thread outlasts a step of the event loop.            *)
LEMMA LoopThread ==
  ASSUME NEW u \in Threads, Busy(u), UNCHANGED <<arg, fd_set>>,
         pc'[u] = pc[u] \/ (pc[u] \in Waiting /\ pc'[u] = Woken(pc[u])),
         pc[u] # "idle" =>
           LET st == fd_set[arg[u]]
               s == structs[st].session
           IN  /\ structs'[st].type = structs[st].type /\ structs'[st].session = s
               /\ pc'[u] \in Waiting => structs'[st].message = structs[st].message
               /\ structs[st].type = "ACTIVE" /\ isErrorMessage(structs'[st]) =>
                    \/ sessions'[s].state \notin Healthy
                    \/ isErrorMessage(structs[st]) /\ sessions[s].state \in Healthy
  PROVE  Busy(u)'
<1> DEFINE st == fd_set[arg[u]]
           s == structs[st].session
<1>1. CASE pc[u] = "idle"
  <2>1. pc'[u] = "idle"
    BY Zenon, <1>1, WokenIs
  <2> QED BY Zenon, <2>1 DEF Busy
<1>2. CASE pc[u] # "idle"
  <2>1. /\ arg[u] \in DOMAIN fd_set /\ arg[u] # NoFd
        /\ pc[u] \in Accepting => structs[st].type = "PASSIVE"
        /\ pc[u] \in Writing => structs[st].type = "ACTIVE"
        /\ pc[u] \in Waiting => structs[st].message = {}
        /\ pc[u] \in Writing /\ pc[u] # "sending" /\ isErrorMessage(structs[st]) =>
             sessions[s].state \notin Healthy
    BY Zenon, <1>2 DEF Busy, St
  <2>2. /\ structs'[st].type = structs[st].type /\ structs'[st].session = s
        /\ pc'[u] \in Waiting => structs'[st].message = structs[st].message
        /\ structs[st].type = "ACTIVE" /\ isErrorMessage(structs'[st]) =>
             \/ sessions'[s].state \notin Healthy
             \/ isErrorMessage(structs[st]) /\ sessions[s].state \in Healthy
    BY Zenon, <1>2
  <2>3. /\ pc'[u] \in Accepting <=> pc[u] \in Accepting
        /\ pc'[u] \in Writing <=> pc[u] \in Writing
        /\ pc'[u] = "sending" <=> pc[u] = "sending"
        /\ pc'[u] \in Waiting => pc[u] \in Waiting
    BY Zenon, WokenIs
  <2> HIDE DEF st, s
  <2>4. /\ pc'[u] \in Accepting => structs'[st].type = "PASSIVE"
        /\ pc'[u] \in Writing => structs'[st].type = "ACTIVE"
        /\ pc'[u] \in Waiting => structs'[st].message = {}
        /\ pc'[u] \in Writing /\ pc'[u] # "sending" /\ isErrorMessage(structs'[st]) =>
             sessions'[structs'[st].session].state \notin Healthy
    BY ONLY Zenon, <2>1, <2>2, <2>3
  <2>5. St(u)' = structs'[st] /\ isErrorMessage(St(u))' = isErrorMessage(structs'[st])
    BY Zenon DEF St, st, isErrorMessage
  <2> QED BY Zenon, <2>1, <2>4, <2>5 DEF Busy
<1> QED BY Zenon, <1>1, <1>2

(* A step that changes nothing but loop and reports.                       *)
LEMMA NothingInv ==
  ASSUME Inv, "close" \notin reports',
         UNCHANGED <<structs, sessions, garbage, vector, established, fd_set, opened, mutex, pc, arg>>
  PROVE  Inv'
<1>1. Typed'
  BY Zenon DEF Inv, Typed
<1>2. Objects'
  BY Zenon, <1>1, SameObjects DEF Inv
<1>3. ASSUME NEW u \in Threads PROVE Busy(u)'
  BY Zenon, SameThread DEF Inv, Busy
<1>4. OneThread'
  BY Zenon DEF Inv, OneThread
<1> QED BY Zenon, <1>1, <1>2, <1>3, <1>4 DEF Inv

(* A segment changes the state of one session, and its socket is told.     *)
LEMMA SessionInv ==
  ASSUME Inv, NEW s \in DOMAIN sessions, NEW state \in ConnectionState,
         NEW message \in Messages \cup {"none"},
         sessions' = [sessions EXCEPT ![s].state = state], signalUser(s, message),
         sessions[s].state \notin Closing => state \notin Closing,
         sessions[s].state \notin Healthy => state \notin Healthy,
         message \in ErrorMessages => state \notin Healthy,
         UNCHANGED <<garbage, vector, established, fd_set, opened, mutex, arg>>
  PROVE  Inv'
<1> DEFINE z == [sessions[s] EXCEPT !.state = state]
           c == sessions[s].callback
           x == [structs[c] EXCEPT !.message = structs[c].message \cup {message}]
<1>1. /\ structs \in Seq(StructType) /\ DOMAIN structs = 1..Len(structs)
      /\ sessions \in Seq(SessionType) /\ DOMAIN sessions = 1..Len(sessions)
      /\ Len(structs) \in Nat /\ Len(sessions) \in Nat
      /\ sessions[s] \in SessionType /\ \A r \in DOMAIN structs : structs[r] \in StructType
  BY Zenon, Indices DEF Inv, Typed
<1>2. sessions' = [sessions EXCEPT ![s] = z]
  BY Zenon
<1>3. /\ z \in SessionType /\ z.local = sessions[s].local /\ z.peer = sessions[s].peer
      /\ z.state = state /\ z.callback = c
  BY Zenon, <1>1 DEF SessionType
<1> HIDE DEF z
<1>4. /\ sessions' \in Seq(SessionType) /\ DOMAIN sessions' = DOMAIN sessions
      /\ Len(sessions') = Len(sessions)
      /\ sessions'[s] = z /\ \A r \in DOMAIN sessions : r # s => sessions'[r] = sessions[r]
  <2>1. s \in DOMAIN sessions
    BY Zenon
  <2> QED BY ONLY <1>1, <1>2, <1>3, <2>1, ExceptIs
<1>5. \A r \in DOMAIN sessions :
        /\ sessions'[r].local = sessions[r].local /\ sessions'[r].peer = sessions[r].peer
        /\ sessions'[r].callback = sessions[r].callback
        /\ sessions[r].state \notin Closing => sessions'[r].state \notin Closing
        /\ sessions[r].state \notin Healthy => sessions'[r].state \notin Healthy
  BY Zenon, <1>3, <1>4
<1>6. CASE message = "none" \/ c = 0 \/ ~structs[c].live
  <2>1. UNCHANGED <<structs, pc>> /\ "close" \notin reports'
    BY <1>6 DEF signalUser, Inv
  <2>2. Typed'
    BY Zenon, <1>4, <2>1 DEF Inv, Typed
  <2>3. Objects'
    BY Zenon, <1>4, <1>5, <2>1, <2>2, SameObjects DEF Inv
  <2>4. ASSUME NEW u \in Threads PROVE Busy(u)'
    <3>1. pc[u] # "idle" => LET st == fd_set[arg[u]]
                            IN  structs[st].type = "ACTIVE" => structs[st].session \in DOMAIN sessions
      BY Zenon, OwnSocket DEF St, Inv, Objects, Owns
    <3>2. pc[u] # "idle" => arg[u] \in DOMAIN fd_set
      BY DEF Inv, Busy
    <3> QED BY Zenon, <1>5, <2>1, <3>1, <3>2, SameThread DEF Inv
  <2> QED BY Zenon, <2>1, <2>2, <2>3, <2>4 DEF Inv, OneThread
<1>7. CASE ~(message = "none" \/ c = 0 \/ ~structs[c].live)
  <2>1. /\ structs' = [structs EXCEPT ![c].message = @ \cup {message}]
        /\ NotifyOne(c) /\ UNCHANGED reports
    BY Zenon, <1>7 DEF signalUser
  <2>2. c \in DOMAIN structs /\ structs[c].session = s /\ structs[c] \in StructType
    BY Zenon, <1>1, <1>7 DEF Inv, Objects, Callbacks
  <2>3. structs' = [structs EXCEPT ![c] = x] /\ message \in Messages
    BY <1>7, <2>1
  <2> HIDE DEF c
  <2>4. /\ x \in StructType /\ x.type = structs[c].type /\ x.live = structs[c].live
        /\ x.session = structs[c].session /\ x.pending = structs[c].pending
        /\ x.backlog = structs[c].backlog /\ x.message = structs[c].message \cup {message}
    BY Zenon, <2>2, <2>3 DEF StructType
  <2> HIDE DEF x
  <2>5. /\ structs' \in Seq(StructType) /\ DOMAIN structs' = DOMAIN structs
        /\ Len(structs') = Len(structs)
        /\ structs'[c] = x /\ \A r \in DOMAIN structs : r # c => structs'[r] = structs[r]
    BY ONLY <1>1, <2>2, <2>3, <2>4, ExceptIs
  <2>6. \A r \in DOMAIN structs :
          /\ structs'[r].type = structs[r].type /\ structs'[r].live = structs[r].live
          /\ structs'[r].session = structs[r].session /\ structs'[r].pending = structs[r].pending
          /\ structs'[r].backlog = structs[r].backlog
    BY Zenon, <2>4, <2>5
  <2>7. /\ pc' \in [Threads -> Where]
        /\ \A u \in Threads : pc'[u] = pc[u] \/ (pc[u] \in Waiting /\ pc'[u] = Woken(pc[u]))
        /\ \A u \in Threads : pc'[u] \in Waiting => fd_set[arg[u]] # c
    BY Zenon, <2>1, <2>2, NotifyIs
  <2>8. Typed'
    BY <1>4, <2>1, <2>5, <2>7 DEF Inv, Typed
  <2>9. Objects'
    BY <1>4, <1>5, <2>5, <2>6, <2>8, SameObjects DEF Inv
  <2>10. ASSUME NEW u \in Threads PROVE Busy(u)'
    <3> DEFINE st == fd_set[arg[u]]
               own == structs[st].session
    <3>1. ASSUME pc[u] # "idle"
          PROVE  /\ structs'[st].type = structs[st].type /\ structs'[st].session = own
                 /\ pc'[u] \in Waiting => structs'[st].message = structs[st].message
                 /\ structs[st].type = "ACTIVE" /\ isErrorMessage(structs'[st]) =>
                      \/ sessions'[own].state \notin Healthy
                      \/ isErrorMessage(structs[st]) /\ sessions[own].state \in Healthy
      <4>1. st \in DOMAIN structs /\ structs[st].live
        BY Zenon, <3>1, OwnSocket DEF St
      <4>2. pc'[u] \in Waiting => st # c
        BY Zenon, <2>7
      <4> HIDE DEF st
      <4>3. structs[st].type = "ACTIVE" => own \in DOMAIN sessions /\ sessions[own].callback = st
        BY <4>1 DEF Inv, Objects, Owns
      <4>4. CASE st # c
        <5>1. structs'[st] = structs[st]
          BY <2>5, <4>1, <4>4
        <5> HIDE DEF own
        <5>2. structs[st].type = "ACTIVE" =>
                (sessions[own].state \notin Healthy => sessions'[own].state \notin Healthy)
          BY Zenon, <1>5, <4>3
        <5> QED BY Zenon, <5>1, <5>2 DEF own
      <4>5. CASE st = c
        <5>1. own = s /\ sessions'[s].state = state
          BY Zenon, <1>3, <1>4, <2>2, <4>5
        <5>2. isErrorMessage(structs'[st]) =>
                isErrorMessage(structs[st]) \/ message \in ErrorMessages
          BY <2>4, <2>5, <4>5 DEF isErrorMessage
        <5>3. structs'[st].type = structs[st].type /\ structs'[st].session = own
          BY Zenon, <2>6, <4>1
        <5> HIDE DEF own
        <5> QED BY <4>2, <4>5, <5>1, <5>2, <5>3
      <4> QED BY Zenon, <4>4, <4>5
    <3>2. /\ Busy(u) /\ UNCHANGED <<arg, fd_set>>
          /\ pc'[u] = pc[u] \/ (pc[u] \in Waiting /\ pc'[u] = Woken(pc[u]))
      BY Zenon, <2>7 DEF Inv
    <3> QED BY Zenon, <3>1, <3>2, LoopThread
  <2>11. OneThread'
    <3>1. \A u \in Threads : pc'[u] # "idle" => pc[u] # "idle"
      BY Zenon, <2>7, WokenIs
    <3> QED BY Zenon, <3>1 DEF Inv, OneThread
  <2> QED BY <2>1, <2>8, <2>9, <2>10, <2>11 DEF Inv
<1> QED BY Zenon, <1>6, <1>7

(* A segment for a session, in each of its states.                         *)
LEMMA ArrivalInv ==
  ASSUME Inv, NEW s \in DOMAIN sessions, NEW kind, onSegmentArrival(s, kind),
         UNCHANGED <<garbage, vector, established, fd_set, opened, mutex, arg>>
  PROVE  Inv'
<1>1. CASE sessions[s].state = "LISTEN"
  <2>1. /\ sessions' = [sessions EXCEPT ![s].state = ListenState(kind)]
        /\ UNCHANGED <<structs, pc, reports>>
    BY Zenon, <1>1 DEF onSegmentArrival
  <2>2. /\ ListenState(kind) \in ConnectionState /\ ListenState(kind) \notin Closing
        /\ sessions[s].state \in Healthy /\ "none" \notin ErrorMessages
    BY Zenon, <1>1 DEF ListenState, ConnectionState, Closing, Healthy, ErrorMessages, Messages
  <2>3. signalUser(s, "none")
    BY Zenon, <2>1 DEF signalUser
  <2> QED BY Zenon, <2>1, <2>2, <2>3, SessionInv
<1>2. CASE SessionEvent(s)
  <2>1. PICK e \in Edges : /\ e[1] = sessions[s].state
                           /\ sessions' = [sessions EXCEPT ![s].state = e[2]]
                           /\ signalUser(s, e[3])
    BY Zenon, <1>2 DEF SessionEvent
  <2>2. /\ e[2] \in ConnectionState /\ e[3] \in Messages \cup {"none"}
        /\ e[1] \notin Closing => e[2] \notin Closing
        /\ e[1] \notin Healthy => e[2] \notin Healthy
        /\ e[3] \in ErrorMessages => e[2] \notin Healthy
    BY Zenon, EdgeFacts
  <2> QED BY Zenon, <2>1, <2>2, SessionInv
<1> QED BY Zenon, <1>1, <1>2 DEF onSegmentArrival

(* TIME_WAIT ends and the session is CLOSED.                               *)
LEMMA ClosedInv ==
  ASSUME Inv, NEW s \in DOMAIN sessions, enterCLOSED(s)
  PROVE  Inv'
<1>1. /\ sessions[s].state = "TIME_WAIT"
      /\ sessions' = [sessions EXCEPT ![s].state = "CLOSED"]
      /\ UNCHANGED <<structs, garbage, vector, established, fd_set, opened, mutex, pc, arg, reports>>
  BY Zenon DEF enterCLOSED
<1>2. signalUser(s, "none")
  BY Zenon, <1>1 DEF signalUser
<1>3. /\ "CLOSED" \in ConnectionState /\ "CLOSED" \notin Closing /\ "CLOSED" \notin Healthy
      /\ "none" \notin ErrorMessages
  BY Zenon DEF ConnectionState, Closing, Healthy, ErrorMessages, Messages
<1> QED BY Zenon, <1>1, <1>2, <1>3, SessionInv

(* The dispatchers find what they have, and nothing else.                  *)
LEMMA LookupIs ==
  ASSUME Inv, NEW to, NEW from
  PROVE  /\ lookupSession(to, from) # 0 => lookupSession(to, from) \in DOMAIN established
         /\ lookupSession(to, from) = 0 =>
              \A e \in DOMAIN established :
                ~(established[e].local = to /\ established[e].peer = from)
         /\ lookupListener(to) # 0 => lookupListener(to) \in DOMAIN vector
<1>1. /\ DOMAIN established = 1..Len(established) /\ DOMAIN vector = 1..Len(vector)
      /\ Len(established) \in Nat /\ Len(vector) \in Nat
  BY Zenon, Indices DEF Inv
<1> DEFINE I == {e \in DOMAIN established :
                  established[e].local = to /\ established[e].peer = from}
           J == {v \in DOMAIN vector :
                  /\ to.port = vector[v].target.port
                  /\ vector[v].target \in AnyAddress \/ to = vector[v].target}
<1>2. lookupSession(to, from) = IF I = {} THEN 0 ELSE Min(I)
  BY Zenon DEF lookupSession, First
<1>3. lookupListener(to) = IF J = {} THEN 0 ELSE Min(J)
  BY Zenon DEF lookupListener, First
<1>4. I \in SUBSET Nat /\ J \in SUBSET Nat
  BY <1>1
<1>5. (I # {} => Min(I) \in I) /\ (J # {} => Min(J) \in J)
  <2> HIDE DEF I, J
  <2> QED BY Zenon, <1>4, MinIsIn
<1>6. 0 \notin I /\ I \subseteq DOMAIN established /\ J \subseteq DOMAIN vector
  BY <1>1
<1>7. lookupSession(to, from) # 0 => lookupSession(to, from) \in DOMAIN established
  <2> HIDE DEF I
  <2> QED BY Zenon, <1>2, <1>5, <1>6
<1>8. lookupListener(to) # 0 => lookupListener(to) \in DOMAIN vector
  <2> HIDE DEF J
  <2> QED BY Zenon, <1>3, <1>5, <1>6
<1>9. lookupSession(to, from) = 0 => I = {}
  <2> HIDE DEF I
  <2> QED BY Zenon, <1>2, <1>5, <1>6
<1>10. I = {} => \A e \in DOMAIN established :
                   ~(established[e].local = to /\ established[e].peer = from)
  BY Zenon, <1>1
<1> QED BY Zenon, <1>7, <1>8, <1>9, <1>10

(* What the queue of a listening socket is with one session more.          *)
LEMMA QueuedIs ==
  ASSUME Inv, NEW own \in DOMAIN structs,
         structs[own].type = "PASSIVE", structs[own].live, ~QueueFull(own)
  PROVE  LET n == Len(sessions) + 1
             x == [structs[own] EXCEPT !.pending = Append(@, n)]
         IN  /\ x \in StructType /\ x.type = structs[own].type /\ x.live = structs[own].live
             /\ x.session = structs[own].session /\ x.backlog = structs[own].backlog
             /\ x.message = structs[own].message
             /\ Owned(x) = Owned(structs[own]) \cup {n}
             /\ Range(x.pending) = Range(structs[own].pending) \cup {n}
             /\ Len(x.pending) <= x.backlog
             /\ \A j, k \in DOMAIN x.pending : x.pending[j] = x.pending[k] => j = k
<1> DEFINE n == Len(sessions) + 1
           q == structs[own].pending
           r == Append(q, n)
           x == [structs[own] EXCEPT !.pending = r]
<1>1. structs[own] \in StructType /\ n \in Nat /\ n \notin DOMAIN sessions
  BY Indices DEF Inv
<1> HIDE DEF n
<1>2. q \in Seq(Nat) /\ structs[own].backlog \in Nat
  BY Zenon, <1>1 DEF StructType
<1>3. /\ structs[own].session = 0
      /\ \A j, k \in DOMAIN q : q[j] = q[k] => j = k
  BY Zenon DEF Inv, Objects, Owns
<1>4. Owned(structs[own]) \subseteq DOMAIN sessions
  BY Zenon DEF Inv, Objects, Partition
<1>5. \A j \in DOMAIN q : q[j] # n
  <2>1. \A j \in DOMAIN q : q[j] \in Owned(structs[own])
    BY Zenon DEF Owned, Range
  <2> QED BY Zenon, <1>1, <1>4, <2>1
<1>6. Len(q) < structs[own].backlog
  <2>1. Len(q) \in Nat /\ ~(Len(q) >= structs[own].backlog)
    BY <1>2 DEF QueueFull
  <2> HIDE DEF q
  <2> QED BY <1>2, <2>1
<1> HIDE DEF q
<1>7. /\ r \in Seq(Nat) /\ Len(r) = Len(q) + 1 /\ DOMAIN r = DOMAIN q \cup {Len(q) + 1}
      /\ r[Len(q) + 1] = n /\ \A j \in DOMAIN q : r[j] = q[j]
  BY ONLY <1>1, <1>2, AppendIs
<1> HIDE DEF r
<1>8. \A j, k \in DOMAIN r : r[j] = r[k] => j = k
  BY ONLY <1>3, <1>5, <1>7
<1>9. Range(r) = Range(q) \cup {n}
  <2>1. Range(r) = {r[j] : j \in DOMAIN r} /\ Range(q) = {q[j] : j \in DOMAIN q}
    BY Zenon DEF Range
  <2> QED BY <1>7, <2>1
<1>10. /\ x \in StructType /\ x.type = structs[own].type /\ x.live = structs[own].live
       /\ x.session = structs[own].session /\ x.backlog = structs[own].backlog
       /\ x.message = structs[own].message /\ x.pending = r
  BY Zenon, <1>1, <1>7 DEF StructType
<1> HIDE DEF x
<1>11. Owned(x) = Owned(structs[own]) \cup {n}
  <2>1. Owned(x) = Range(r) /\ Owned(structs[own]) = Range(q)
    BY Zenon, <1>3, <1>10 DEF Owned, q
  <2> QED BY Zenon, <1>9, <2>1
<1>12. Len(x.pending) <= x.backlog
  <2>1. Len(q) \in Nat
    BY <1>2
  <2> QED BY <1>2, <1>6, <1>7, <1>10, <2>1
<1> QED BY Zenon, <1>8, <1>9, <1>10, <1>11, <1>12 DEF x, r, q, n

(* A segment for a listening socket makes a session in its queue, for a    *)
(* pair of addresses that has none.                                        *)
Enqueues(own, to, from, kind) ==
  LET n == Len(sessions) + 1
  IN  /\ sessions' = Append(sessions, NewSession(to, from, ListenState(kind), 0))
      /\ structs' = [structs EXCEPT ![own].pending = Append(@, n)]
      /\ addSession(to, from, n)
      /\ NotifyOne(own)

(* A segment for a listening socket makes a session in its queue.          *)
LEMMA EnqueueInv ==
  ASSUME Inv, NEW own \in DOMAIN structs, NEW to \in Locals, NEW from \in Peers, NEW kind,
         structs[own].type = "PASSIVE", structs[own].live, ~QueueFull(own),
         lookupSession(to, from) = 0, Enqueues(own, to, from, kind),
         UNCHANGED <<garbage, vector, fd_set, opened, mutex, arg, reports>>
  PROVE  Inv'
<1> DEFINE n == Len(sessions) + 1
           x == [structs[own] EXCEPT !.pending = Append(@, n)]
           new == NewSession(to, from, ListenState(kind), 0)
           entry == [local |-> to, peer |-> from, session |-> n]
<1>1. /\ structs \in Seq(StructType) /\ DOMAIN structs = 1..Len(structs)
      /\ sessions \in Seq(SessionType) /\ DOMAIN sessions = 1..Len(sessions)
      /\ Len(sessions) \in Nat /\ n \in Nat /\ n # 0 /\ n \notin DOMAIN sessions
      /\ established \in Seq([local : Locals, peer : Peers, session : Nat])
  BY Indices DEF Inv, Typed
<1>2. /\ structs' = [structs EXCEPT ![own] = x] /\ sessions' = Append(sessions, new)
      /\ established' = Append(established, entry) /\ NotifyOne(own)
  BY Zenon DEF Enqueues, addSession
<1>3. /\ x \in StructType /\ x.type = structs[own].type /\ x.live = structs[own].live
      /\ x.session = structs[own].session /\ x.backlog = structs[own].backlog
      /\ x.message = structs[own].message
      /\ Owned(x) = Owned(structs[own]) \cup {n}
      /\ Range(x.pending) = Range(structs[own].pending) \cup {n}
      /\ Len(x.pending) <= x.backlog
      /\ \A j, k \in DOMAIN x.pending : x.pending[j] = x.pending[k] => j = k
  BY Zenon, QueuedIs
<1> HIDE DEF x
<1>4. /\ new \in SessionType /\ new.local = to /\ new.peer = from /\ new.callback = 0
      /\ new.state \notin Closing
  BY Zenon DEF NewSession, SessionType, ListenState, ConnectionState, Closing
<1>5. /\ entry \in [local : Locals, peer : Peers, session : Nat]
      /\ entry.local = to /\ entry.peer = from /\ entry.session = n
  BY Zenon, <1>1
<1> HIDE DEF new, entry
<1>6. /\ structs' \in Seq(StructType) /\ DOMAIN structs' = DOMAIN structs
      /\ structs'[own] = x /\ \A s \in DOMAIN structs : s # own => structs'[s] = structs[s]
  <2>1. own \in DOMAIN structs
    BY Zenon
  <2> QED BY ONLY <1>1, <1>2, <1>3, <2>1, ExceptIs
<1>7. /\ sessions' \in Seq(SessionType) /\ DOMAIN sessions' = DOMAIN sessions \cup {n}
      /\ sessions'[n] = new /\ \A s \in DOMAIN sessions : sessions'[s] = sessions[s]
  BY ONLY <1>1, <1>2, <1>4, AppendIs
<1> HIDE DEF n
<1> DEFINE l == Len(established) + 1
<1>8. /\ established' \in Seq([local : Locals, peer : Peers, session : Nat])
      /\ DOMAIN established' = DOMAIN established \cup {l}
      /\ established'[l] = entry /\ \A e \in DOMAIN established : established'[e] = established[e]
  <2> DEFINE T == [local : Locals, peer : Peers, session : Nat]
  <2>1. established \in Seq(T) /\ entry \in T
    BY Zenon, <1>1, <1>5
  <2> HIDE DEF T
  <2>2. /\ established' \in Seq(T) /\ DOMAIN established' = DOMAIN established \cup {l}
       /\ established'[l] = entry
       /\ \A e \in DOMAIN established : established'[e] = established[e]
    BY ONLY <1>2, <2>1, AppendIs
  <2> QED BY Zenon, <2>2 DEF T
<1> HIDE DEF l
<1>9. /\ pc' \in [Threads -> Where]
      /\ \A u \in Threads : pc'[u] = pc[u] \/ (pc[u] \in Waiting /\ pc'[u] = Woken(pc[u]))
  BY Zenon, <1>2, NotifyIs
<1>10. \A st \in DOMAIN structs :
         /\ structs'[st].type = structs[st].type /\ structs'[st].live = structs[st].live
         /\ structs'[st].session = structs[st].session
         /\ structs'[st].message = structs[st].message
  BY Zenon, <1>3, <1>6
<1>11. Typed'
  BY Zenon, <1>6, <1>7, <1>8, <1>9 DEF Inv, Typed
<1>12. Sockets'
  BY Zenon, <1>6, <1>10 DEF Inv, Objects, Sockets
<1>13. Owns'
  <2> SUFFICES ASSUME NEW st \in DOMAIN structs
               PROVE  /\ structs'[st].type = "ACTIVE" /\ structs'[st].live =>
                           /\ structs'[st].session \in DOMAIN sessions'
                           /\ sessions'[structs'[st].session].callback = st
                      /\ ~(structs'[st].type = "ACTIVE" /\ structs'[st].live) =>
                           structs'[st].session = 0
                      /\ ~(structs'[st].type = "PASSIVE" /\ structs'[st].live) =>
                           structs'[st].pending = <<>>
                      /\ Len(structs'[st].pending) <= structs'[st].backlog
                      /\ \A j, k \in DOMAIN structs'[st].pending :
                           structs'[st].pending[j] = structs'[st].pending[k] => j = k
    BY <1>6 DEF Owns
  <2>1. CASE st = own
    <3>1. structs[own].session = 0
      BY Zenon DEF Inv, Objects, Owns
    <3> QED BY Zenon, <1>3, <1>6, <2>1, <3>1
  <2>2. CASE st # own
    <3>1. structs'[st] = structs[st]
      BY <1>6, <2>2
    <3>2. /\ structs[st].type = "ACTIVE" /\ structs[st].live =>
               /\ structs[st].session \in DOMAIN sessions
               /\ sessions[structs[st].session].callback = st
          /\ ~(structs[st].type = "ACTIVE" /\ structs[st].live) => structs[st].session = 0
          /\ ~(structs[st].type = "PASSIVE" /\ structs[st].live) => structs[st].pending = <<>>
          /\ Len(structs[st].pending) <= structs[st].backlog
          /\ \A j, k \in DOMAIN structs[st].pending :
               structs[st].pending[j] = structs[st].pending[k] => j = k
      BY Zenon DEF Inv, Objects, Owns
    <3>3. structs[st].session \in DOMAIN sessions =>
            /\ structs[st].session \in DOMAIN sessions'
            /\ sessions'[structs[st].session] = sessions[structs[st].session]
      BY <1>7
    <3> QED BY ONLY <3>1, <3>2, <3>3, Zenon
  <2> QED BY Zenon, <2>1, <2>2
<1>14. Partition'
  <2> DEFINE has(st) == Owned(structs[st])
             has1(st) == Owned(structs'[st])
  <2>1. /\ has1(own) = has(own) \cup {n}
        /\ \A s \in DOMAIN structs : s # own => has1(s) = has(s)
    BY Zenon, <1>3, <1>6
  <2>2. /\ \A s \in DOMAIN structs : has(s) \subseteq DOMAIN sessions \ garbage
        /\ \A s, other \in DOMAIN structs : s # other => has(s) \cap has(other) = {}
        /\ \A s \in DOMAIN sessions \ garbage : \E st \in DOMAIN structs : s \in has(st)
    BY Zenon DEF Inv, Objects, Partition
  <2>3. garbage \subseteq DOMAIN sessions /\ own \in DOMAIN structs
    BY DEF Inv, Typed
  <2> HIDE DEF has, has1
  <2>4. ASSUME NEW s \in DOMAIN structs PROVE has1(s) \subseteq DOMAIN sessions' \ garbage
    <3>1. n \in DOMAIN sessions' \ garbage /\ DOMAIN sessions \subseteq DOMAIN sessions'
      BY ONLY <1>1, <1>7, <2>3
    <3>2. has1(s) \subseteq has(s) \cup {n}
      BY Zenon, <2>1
    <3>3. has(s) \subseteq DOMAIN sessions \ garbage
      BY <2>2
    <3> QED BY ONLY Zenon, <3>1, <3>2, <3>3
  <2>5. ASSUME NEW s \in DOMAIN structs, NEW other \in DOMAIN structs, s # other
        PROVE  has1(s) \cap has1(other) = {}
    <3>1. \A r \in DOMAIN structs : n \notin has(r)
      BY ONLY <1>1, <2>2
    <3>2. has(s) \cap has(other) = {}
      BY Zenon, <2>2, <2>5
    <3>3. /\ has1(s) = has(s) \/ (s = own /\ has1(s) = has(s) \cup {n})
          /\ has1(other) = has(other) \/ (other = own /\ has1(other) = has(other) \cup {n})
      BY <2>1
    <3> QED BY <2>5, <3>1, <3>2, <3>3
  <2>6. ASSUME NEW s \in DOMAIN sessions' \ garbage PROVE \E st \in DOMAIN structs : s \in has1(st)
    <3>1. CASE s = n
      BY <2>1, <2>3, <3>1
    <3>2. CASE s \in DOMAIN sessions
      <4>1. PICK st \in DOMAIN structs : s \in has(st)
        BY ONLY <2>2, <2>6, <3>2
      <4> QED BY Zenon, <2>1, <4>1
    <3> QED BY Zenon, <1>7, <3>1, <3>2
  <2> QED BY Zenon, <1>6, <2>4, <2>5, <2>6 DEF Partition, has1
<1>15. Callbacks'
  <2> SUFFICES ASSUME NEW s \in DOMAIN sessions'
               PROVE  /\ sessions'[s].callback # 0 =>
                           /\ sessions'[s].callback \in DOMAIN structs'
                           /\ structs'[sessions'[s].callback].live =>
                                structs'[sessions'[s].callback].session = s
                      /\ s \notin garbage' => sessions'[s].state \notin Closing
    BY DEF Callbacks
  <2>1. CASE s = n
    BY <1>4, <1>7, <2>1
  <2>2. CASE s \in DOMAIN sessions
    <3>1. /\ sessions[s].callback # 0 =>
               /\ sessions[s].callback \in DOMAIN structs
               /\ structs[sessions[s].callback].live =>
                    structs[sessions[s].callback].session = s
          /\ s \notin garbage => sessions[s].state \notin Closing
      BY Zenon, <2>2 DEF Inv, Objects, Callbacks
    <3> QED BY Zenon, <1>6, <1>7, <1>10, <2>2, <3>1
  <2> QED BY Zenon, <1>7, <2>1, <2>2
<1>16. Dispatch'
  <2>1. ASSUME NEW s \in DOMAIN sessions'
        PROVE  \E e \in DOMAIN established' : /\ established'[e].local = sessions'[s].local
                                              /\ established'[e].peer = sessions'[s].peer
    <3>1. CASE s = n
      BY Zenon, <1>4, <1>5, <1>7, <1>8, <3>1
    <3>2. CASE s \in DOMAIN sessions
      <4>1. PICK e \in DOMAIN established :
              /\ established[e].local = sessions[s].local
              /\ established[e].peer = sessions[s].peer
        BY Zenon, <3>2 DEF Inv, Objects, Dispatch
      <4>2. e \in DOMAIN established' /\ established'[e] = established[e]
            /\ sessions'[s] = sessions[s]
        BY Zenon, <1>7, <1>8, <3>2, <4>1
      <4> QED BY Zenon, <4>1, <4>2
    <3> QED BY Zenon, <1>7, <3>1, <3>2
  <2>2. \A e \in DOMAIN established' : established'[e].session \in DOMAIN sessions'
    BY Zenon, <1>5, <1>7, <1>8 DEF Inv, Objects, Dispatch
  <2>3. ASSUME NEW v \in DOMAIN vector
        PROVE  vector[v].st \in DOMAIN structs' /\ structs'[vector[v].st].type = "PASSIVE"
    BY <1>6, <1>10 DEF Inv, Objects, Dispatch
  <2> QED BY Zenon, <2>1, <2>2, <2>3 DEF Dispatch
<1>17. PairsDiffer'
  <2>1. \A s : Queued(s)' => Queued(s) \/ s = n
    BY Zenon, <1>3, <1>6 DEF Queued
  <2>2. \A s : Queued(s) => s \in DOMAIN sessions
    BY Zenon DEF Queued, Inv, Objects, Partition, Owned
  <2>3. \A s \in DOMAIN sessions : ~(sessions[s].local = to /\ sessions[s].peer = from)
    <3>1. \A e \in DOMAIN established :
            ~(established[e].local = to /\ established[e].peer = from)
      BY Zenon, LookupIs
    <3>2. Dispatch
      BY Zenon DEF Inv, Objects
    <3> QED BY <3>1, <3>2, Zenon DEF Dispatch
  <2>4. PairsDiffer
    BY Zenon DEF Inv, Objects
  <2> SUFFICES ASSUME NEW s \in DOMAIN sessions', NEW other \in DOMAIN sessions',
                      Queued(s)', Queued(other)',
                      sessions'[s].local = sessions'[other].local,
                      sessions'[s].peer = sessions'[other].peer
               PROVE  s = other
    BY Zenon DEF PairsDiffer
  <2>5. CASE s \in DOMAIN sessions /\ other \in DOMAIN sessions
    <3>1. Queued(s) /\ Queued(other)
      BY Zenon, <1>1, <2>1, <2>5
    <3>2. sessions[s].local = sessions[other].local /\ sessions[s].peer = sessions[other].peer
      BY Zenon, <1>7, <2>5
    <3> QED BY Zenon, <2>4, <2>5, <3>1, <3>2 DEF PairsDiffer
  <2>6. CASE s = n /\ other \in DOMAIN sessions
    BY <1>4, <1>7, <2>3, <2>6
  <2>7. CASE s \in DOMAIN sessions /\ other = n
    BY <1>4, <1>7, <2>3, <2>7
  <2> QED BY <1>7, <2>5, <2>6, <2>7
<1>18. ASSUME NEW u \in Threads PROVE Busy(u)'
  <2> DEFINE st == fd_set[arg[u]]
             s == structs[st].session
  <2>1. ASSUME pc[u] # "idle"
        PROVE  /\ structs'[st].type = structs[st].type /\ structs'[st].session = s
               /\ structs'[st].message = structs[st].message
               /\ structs[st].type = "ACTIVE" => sessions'[s].state = sessions[s].state
    <3>1. st \in DOMAIN structs /\ structs[st].live
      BY <2>1, OwnSocket DEF St
    <3> HIDE DEF st
    <3>2. structs[st].type = "ACTIVE" => s \in DOMAIN sessions
      BY Zenon, <3>1 DEF Inv, Objects, Owns
    <3> HIDE DEF s
    <3>3. structs[st].type = "ACTIVE" => sessions'[s].state = sessions[s].state
      BY Zenon, <1>7, <3>2
    <3> QED BY Zenon, <1>10, <3>1, <3>3 DEF s
  <2>2. /\ Busy(u) /\ UNCHANGED <<arg, fd_set>>
        /\ pc'[u] = pc[u] \/ (pc[u] \in Waiting /\ pc'[u] = Woken(pc[u]))
    BY Zenon, <1>9 DEF Inv
  <2>3. pc[u] # "idle" => (isErrorMessage(structs'[st]) <=> isErrorMessage(structs[st]))
    BY Zenon, <2>1 DEF isErrorMessage
  <2> QED BY Zenon, <2>1, <2>2, <2>3, LoopThread
<1>19. OneThread'
  <2>1. \A u \in Threads : pc'[u] # "idle" => pc[u] # "idle"
    BY Zenon, <1>9, WokenIs
  <2> QED BY Zenon, <2>1 DEF Inv, OneThread
<1> QED BY <1>11, <1>12, <1>13, <1>14, <1>15, <1>16, <1>17, <1>18, <1>19 DEF Inv, Objects

(* onReceivePacket: the dispatchers in their order.                        *)
LEMMA PacketInv ==
  ASSUME Inv, NEW to \in Locals, NEW from \in Peers, NEW kind, onReceivePacket(to, from, kind)
  PROVE  Inv'
<1> DEFINE e == lookupSession(to, from)
           l == lookupListener(to)
<1>1. UNCHANGED <<garbage, vector, fd_set, opened, mutex, arg>>
  BY Zenon DEF onReceivePacket
<1>2. CASE e # 0 /\ onSegmentArrival(established[e].session, kind) /\ UNCHANGED established
  <2>1. e \in DOMAIN established
    BY Zenon, <1>2, LookupIs
  <2>2. established[e].session \in DOMAIN sessions
    BY Zenon, <2>1 DEF Inv, Objects, Dispatch
  <2> QED BY <1>1, <1>2, <2>2, ArrivalInv
<1>3. CASE /\ e = 0 /\ l # 0 /\ structs[vector[l].st].live
           /\ Listen(vector[l].st, to, from, kind) /\ UNCHANGED reports
  <2> DEFINE own == vector[l].st
  <2>1. own \in DOMAIN structs /\ structs[own].type = "PASSIVE" /\ structs[own].live
    BY Zenon, <1>3, LookupIs DEF Inv, Objects, Dispatch
  <2>2. CASE QueueFull(own)
    BY <1>1, <1>3, <2>2, NothingInv DEF Listen, Inv
  <2>3. CASE ~QueueFull(own)
    <3>1. Enqueues(own, to, from, kind)
      BY <1>3, <2>3, Zenon DEF Listen, Enqueues
    <3> HIDE DEF own
    <3> QED BY Zenon, <1>1, <1>3, <2>1, <2>3, <3>1, EnqueueInv
  <2> QED BY Zenon, <2>2, <2>3
<1>4. CASE /\ reports' = reports \cup {"listener"}
           /\ UNCHANGED <<structs, sessions, established, pc>>
  BY <1>1, <1>4, NothingInv DEF Inv
<1> QED BY <1>2, <1>3, <1>4, Zenon DEF onReceivePacket

(* The stack starts with no socket.                                        *)
LEMMA InitInv ==
  Init => Inv
<1> SUFFICES ASSUME Init PROVE Inv
  BY Zenon
<1>1. Typed
  <2>1. "idle" \in Where
    BY Zenon DEF Where
  <2>2. fd_set = <<>> /\ DOMAIN fd_set = {} /\ fd_set = [fd \in DOMAIN fd_set |-> fd_set[fd]]
    BY DEF Init
  <2> QED BY <2>1, <2>2 DEF Init, Typed, NoFd
<1>2. /\ DOMAIN fd_set = {} /\ DOMAIN structs = {} /\ DOMAIN sessions = {}
      /\ DOMAIN vector = {} /\ DOMAIN established = {}
  BY DEF Init
<1>3. Objects
  BY Zenon, <1>2 DEF Objects, Sockets, Owns, Partition, Callbacks, Dispatch, PairsDiffer
<1>4. \A t \in Threads : pc[t] = "idle"
  BY Zenon DEF Init
<1>5. "close" \notin reports
  BY Zenon DEF Init
<1> QED BY Zenon, <1>1, <1>3, <1>4, <1>5 DEF Inv, OneThread, Busy
-----------------------------------------------------------------------------
(* The invariant holds in every state: of the socket API of                *)
(* ProtocolStack, of the dispatchers and of SocketSession.                 *)
THEOREM StackInvariant == Spec => []Inv
<1>1. Inv /\ [Next]_vars => Inv'
  <2> SUFFICES ASSUME Inv, [Next]_vars PROVE Inv'
    BY Zenon
  <2>1. CASE UNCHANGED vars
    <3>1. UNCHANGED <<structs, sessions, garbage, vector, established, fd_set, opened, mutex,
                      pc, arg, reports>>
      BY Zenon, <2>1 DEF vars
    <3> QED BY <3>1, NothingInv DEF Inv
  <2>2. ASSUME NEW t \in Threads, UserStep(t) PROVE Inv'
    <3>1. CASE _socket(t)
      BY Zenon, <3>1, NewSocketInv
    <3>2. CASE Call(t) \/ _write(t) \/ SpuriousWake(t)
      BY Zenon, <3>2, QuietInv
    <3>3. CASE _bind(t)
      BY Zenon, <3>3, BindInv
    <3>4. CASE _listen(t)
      BY Zenon, <3>4, ListenInv
    <3>5. CASE _connect(t)
      BY Zenon, <3>5, ConnectInv
    <3>6. CASE _accept(t)
      BY <3>6, AcceptInv
    <3>7. CASE WriteWakes(t)
      BY Zenon, <3>7, WakesInv
    <3>8. CASE Sent(t)
      BY <3>8, SentInv
    <3>9. CASE _close(t)
      BY Zenon, <3>9, CloseInv
    <3>10. CASE AcceptPending(t)
      BY Zenon, <3>10, AcceptPendingInv
    <3> QED BY <2>2, <3>1, <3>2, <3>3, <3>4, <3>5, <3>6, <3>7, <3>8, <3>9, <3>10 DEF UserStep
  <2>3. ASSUME NEW to \in Locals \ AnyAddress, NEW from \in Peers, NEW kind \in {"SYN", "ACK"},
               onReceivePacket(to, from, kind)
        PROVE  Inv'
    BY Zenon, <2>3, PacketInv
  <2>4. ASSUME NEW s \in DOMAIN sessions, enterCLOSED(s) PROVE Inv'
    BY Zenon, <2>4, ClosedInv
  <2>5. ASSUME NEW s \in DOMAIN sessions, RetransmitStarts(s) PROVE Inv'
    BY Zenon, <2>5, NothingInv DEF RetransmitStarts, objects, Inv
  <2>6. CASE RetransmitReturns
    BY Zenon, <2>6, NothingInv DEF RetransmitReturns, objects, Inv
  <2> QED BY <2>1, <2>2, <2>3, <2>4, <2>5, <2>6 DEF Next, LoopStep
<1> QED BY <1>1, InitInv, PTL DEF Spec

(* Every session has one owner from its creation on, or is in garbage_: no *)
(* call of ProtocolStack destroys a session the dispatchers still know.    *)
THEOREM StackOwned == Spec => []SessionsOwned
<1>1. Inv => SessionsOwned
  <2> SUFFICES ASSUME Inv, NEW s \in DOMAIN sessions
               PROVE  LET owners == {st \in LiveStructs : s \in Owned(structs[st])}
                      IN  IF s \in garbage THEN owners = {}
                          ELSE \E st \in LiveStructs : owners = {st}
    BY Zenon DEF SessionsOwned
  <2> DEFINE owners == {st \in LiveStructs : s \in Owned(structs[st])}
  <2>1. /\ \A st \in DOMAIN structs : Owned(structs[st]) \subseteq DOMAIN sessions \ garbage
        /\ \A st, other \in DOMAIN structs :
             st # other => Owned(structs[st]) \cap Owned(structs[other]) = {}
        /\ s \notin garbage => \E st \in DOMAIN structs : s \in Owned(structs[st])
    BY Zenon DEF Inv, Objects, Partition
  <2>2. \A st \in DOMAIN structs : s \in Owned(structs[st]) => structs[st].live
    <3> SUFFICES ASSUME NEW st \in DOMAIN structs, ~structs[st].live PROVE Owned(structs[st]) = {}
      BY Zenon
    <3>1. structs[st].session = 0 /\ structs[st].pending = <<>>
      BY Zenon DEF Inv, Objects, Owns
    <3>2. Range(<<>>) = {}
      BY DEF Range
    <3> QED BY Zenon, <3>1, <3>2 DEF Owned
  <2>3. CASE s \in garbage
    BY Zenon, <2>1, <2>3 DEF LiveStructs, StructIds
  <2>4. CASE s \notin garbage
    <3>1. PICK st \in DOMAIN structs : s \in Owned(structs[st])
      BY Zenon, <2>1, <2>4
    <3>2. \A other \in DOMAIN structs : s \in Owned(structs[other]) => other = st
      BY Zenon, <2>1, <3>1
    <3>3. owners = {st}
      BY Zenon, <2>2, <3>1, <3>2 DEF LiveStructs, StructIds
    <3>4. st \in LiveStructs
      BY Zenon, <2>2, <3>1 DEF LiveStructs, StructIds
    <3> QED BY Zenon, <2>4, <3>3, <3>4
  <2> QED BY Zenon, <2>3, <2>4
<1> QED BY <1>1, StackInvariant, PTL

(* A connected socket has its session, and SocketSession::signalUser tells *)
(* that socket and no other.                                               *)
THEOREM StackReports == Spec => []SessionsReportToOwner
<1>1. Inv => SessionsReportToOwner
  <2> SUFFICES ASSUME Inv, NEW st \in LiveStructs, structs[st].type = "ACTIVE"
               PROVE  structs[st].session # 0 /\ sessions[structs[st].session].callback = st
    BY Zenon DEF SessionsReportToOwner
  <2>1. /\ structs[st].session \in DOMAIN sessions
        /\ sessions[structs[st].session].callback = st
    BY Zenon DEF Inv, Objects, Owns, LiveStructs, StructIds
  <2>2. 0 \notin DOMAIN sessions
    BY Indices DEF Inv
  <2> QED BY Zenon, <2>1, <2>2
<1> QED BY <1>1, StackInvariant, PTL

(* The queue of a listening socket respects the backlog of listen().       *)
THEOREM StackBacklog == Spec => []BacklogRespected
<1>1. Inv => BacklogRespected
  BY Zenon DEF Inv, Objects, Owns, BacklogRespected, LiveStructs, StructIds
<1> QED BY <1>1, StackInvariant, PTL

(* No session is closed twice: SocketSession::close is never called in a   *)
(* state in which it ends the program.                                     *)
THEOREM StackClosedOnce == Spec => []NeverClosedTwice
<1>1. Inv => NeverClosedTwice
  BY Zenon DEF Inv, NeverClosedTwice
<1> QED BY <1>1, StackInvariant, PTL

(* No thread sleeps in SocketStruct::waitMessage on a message that came.   *)
THEOREM StackWakeups == Spec => []NoLostWakeup
<1>1. Inv => NoLostWakeup
  <2> SUFFICES ASSUME Inv, NEW t \in Threads, pc[t] \in Waiting PROVE St(t).message = {}
    BY Zenon DEF NoLostWakeup
  <2>1. pc[t] # "idle"
    BY Zenon, WokenIs
  <2> QED BY Zenon, <2>1 DEF Inv, Busy
<1> QED BY <1>1, StackInvariant, PTL

(* _write sees an error only after its session failed.                     *)
THEOREM StackErrors == Spec => []ErrorsAreReal
<1>1. Inv => ErrorsAreReal
  <2> SUFFICES ASSUME Inv, NEW t \in Threads,
                      pc[t] \in {"write waits", "write woken", "resending"}, isErrorMessage(St(t))
               PROVE  sessions[St(t).session].state
                        \notin {"SYN_SENT", "SYN_RECEIVED", "ESTABLISHED"}
    BY Zenon DEF ErrorsAreReal
  <2>1. pc[t] # "idle" /\ pc[t] \in Writing \ {"sending"}
    BY Zenon DEF Writing
  <2>2. sessions[St(t).session].state \notin Healthy
    BY Zenon, <2>1 DEF Inv, Busy
  <2> QED BY Zenon, <2>2 DEF Healthy
<1> QED BY <1>1, StackInvariant, PTL

(* No two sessions that wait to be accepted have the same addresses: a SYN *)
(* that is repeated makes no second session.                               *)
THEOREM StackPending == Spec => []PendingDistinct
<1>1. Inv => PendingDistinct
  <2> SUFFICES ASSUME Inv, NEW st \in LiveStructs, NEW other \in LiveStructs,
                      NEW i \in DOMAIN structs[st].pending,
                      NEW j \in DOMAIN structs[other].pending,
                      <<sessions[structs[st].pending[i]].local,
                        sessions[structs[st].pending[i]].peer>>
                        = <<sessions[structs[other].pending[j]].local,
                            sessions[structs[other].pending[j]].peer>>
               PROVE  st = other /\ i = j
    BY Zenon DEF PendingDistinct
  <2> DEFINE s == structs[st].pending[i]
             o == structs[other].pending[j]
  <2>1. st \in DOMAIN structs /\ other \in DOMAIN structs
    BY Zenon DEF LiveStructs, StructIds
  <2>2. s \in Range(structs[st].pending) /\ o \in Range(structs[other].pending)
    BY Zenon DEF Range
  <2>3. s \in Owned(structs[st]) /\ o \in Owned(structs[other])
    BY Zenon, <2>2 DEF Owned
  <2>4. s \in DOMAIN sessions /\ o \in DOMAIN sessions
    BY Zenon, <2>1, <2>3 DEF Inv, Objects, Partition
  <2>5. Queued(s) /\ Queued(o)
    BY Zenon, <2>1, <2>2 DEF Queued
  <2>6. s = o
    <3>1. sessions[s].local = sessions[o].local /\ sessions[s].peer = sessions[o].peer
      BY Zenon
    <3> HIDE DEF s, o
    <3> QED BY Zenon, <2>4, <2>5, <3>1 DEF Inv, Objects, PairsDiffer
  <2>7. st = other
    <3> HIDE DEF s, o
    <3> QED BY Zenon, <2>1, <2>3, <2>6 DEF Inv, Objects, Partition
  <2>8. structs[st].pending[i] = structs[st].pending[j] /\ j \in DOMAIN structs[st].pending
    BY Zenon, <2>6, <2>7
  <2> QED BY <2>1, <2>7, <2>8 DEF Inv, Objects, Owns
<1> QED BY <1>1, StackInvariant, PTL

(* The state has the types of the code's members.                          *)
THEOREM StackTypes == Spec => []TypeOK
<1>1. Inv => TypeOK
  <2> SUFFICES ASSUME Inv PROVE TypeOK
    BY Zenon
  <2>1. /\ \A st \in DOMAIN structs : structs[st] \in StructType
        /\ \A s \in DOMAIN sessions : sessions[s] \in SessionType
    BY Zenon, Indices DEF Inv
  <2>2. /\ DOMAIN fd_set \subseteq (1..Descriptors) \cup {NoFd} /\ opened \subseteq 1..Descriptors
        /\ garbage \subseteq DOMAIN sessions /\ mutex \in Threads \cup {Free}
        /\ pc \in [Threads -> Where]
    BY Zenon DEF Inv, Typed
  <2>3. \A fd \in DOMAIN fd_set : fd_set[fd] \in LiveStructs
    BY Zenon DEF Inv, Objects, Sockets, LiveStructs, StructIds
  <2>4. \A st \in StructIds : /\ structs[st].type \in Types
                              /\ structs[st].message \subseteq Messages
                              /\ structs[st].bind_address \in Locals
    BY Zenon, <2>1 DEF StructType, StructIds
  <2>5. \A s \in DOMAIN sessions : /\ sessions[s].state \in ConnectionState
                                   /\ sessions[s].callback \in StructIds \cup {0}
    BY Zenon, <2>1 DEF SessionType, StructIds, Inv, Objects, Callbacks
  <2> QED BY <2>2, <2>3, <2>4, <2>5 DEF TypeOK
<1> QED BY <1>1, StackInvariant, PTL
=============================================================================
