--------------------------- MODULE ProtocolStack ---------------------------
(***************************************************************************)
(* The socket layer: ProtocolStack (protocol_stack.cpp), SocketStruct      *)
(* (socket_struct.cpp), the two dispatchers of segments                    *)
(* (segment_dispatcher.cpp, listen_dispatcher.cpp) and the part of         *)
(* SocketSession (socket_session.cpp) that opens and closes connections.   *)
(*                                                                         *)
(* User threads and the event-loop thread share one mutex.  A call of the  *)
(* socket API is two steps: the test ownFD() made before the lock, and the *)
(* body made under it.  _accept and _write release the lock in             *)
(* cond_.wait(), and _write holds it over the two steps of its call of     *)
(* SocketSession::send, so that what runs without the lock can be seen.    *)
(*                                                                         *)
(* Objects are named by their index in structs and sessions, a null        *)
(* pointer by 0.  A name is never reused: a pointer to a destroyed object  *)
(* stays recognisable.  Bodies the source leaves to be written (the        *)
(* segment handlers but LISTEN's, SocketSession::send, the loop of         *)
(* _accept) are the external actions SessionEvent, Sent and AcceptPending. *)
(***************************************************************************)
EXTENDS Integers, Sequences, FiniteSetsExt, Functions

CONSTANTS Threads,      \* the threads of the user program
          Descriptors,  \* how many descriptors the kernel grants
          MaxSockets,   \* bound on the calls of socket()
          MaxSessions,  \* bound on the sessions created
          Locals,       \* addresses sockets are bound to and segments sent to
          AnyAddress,   \* the members of Locals whose IP address is INADDR_ANY
          Peers,        \* addresses of remote sockets
          Backlogs      \* arguments of listen()

ASSUME StackAssumption ==
  /\ Descriptors \in Nat
  /\ MaxSockets \in Nat
  /\ MaxSessions \in Nat
  /\ AnyAddress \subseteq Locals
  /\ Backlogs \subseteq Int

VARIABLES
  fd_set,       \* ProtocolStack::fd_set_, from descriptors to structs
  opened,       \* descriptors duplicated from null_fd_ and not closed
  structs,      \* the SocketStruct objects
  sessions,     \* the SocketSession objects
  garbage,      \* ProtocolStack::garbage_
  vector,       \* ListenDispatcher::vector_
  established,  \* SegmentDispatcher::established_
  mutex,        \* the holder of ProtocolStack::mutex_
  pc, arg,      \* where each thread is, and the descriptor it works on
  loop,         \* the session whose alarm the event loop is running
  reports       \* failed checks and uses of destroyed objects

vars == <<fd_set, opened, structs, sessions, garbage, vector, established,
          mutex, pc, arg, loop, reports>>
objects == <<structs, sessions, garbage, vector, established>>

Free == "free"  \* nobody holds the mutex
NoFd == -1      \* what dup() returns when it fails

Types == {"UNSPECIFIED", "PASSIVE", "ACTIVE"}
Messages == {"READABLE", "WRITABLE", "CLOSED", "CLOSING", "RESET", "REFUSED"}
ConnectionState == {"LISTEN", "SYN_SENT", "SYN_RECEIVED", "ESTABLISHED",
  "FIN_WAIT_1", "FIN_WAIT_2", "CLOSE_WAIT", "CLOSING", "LAST_ACK", "TIME_WAIT",
  "CLOSED"}

Report(failed, what) == IF failed THEN reports \cup {what} ELSE reports

ownFD(fd) == fd \in DOMAIN fd_set

\* the struct a thread's call works on: lookupStruct
St(t) == structs[fd_set[arg[t]]]

-----------------------------------------------------------------------------
(* SocketStruct and the condition variable.                                *)

\* message_ is not initialised: any value; closing is never read
NewStruct(address, m) ==
  [type |-> "UNSPECIFIED", bind_address |-> address, backlog |-> 0,
   pending |-> <<>>, session |-> 0, message |-> m, live |-> TRUE]

ErrorMessages == Messages \ {"READABLE", "WRITABLE"}

isErrorMessage(st) == st.message \cap ErrorMessages # {}

Waiting == {"accept waits", "write waits"}
Woken(where) == IF where = "accept waits" THEN "accept woken" ELSE "write woken"

WaitersOf(s) == {t \in Threads : pc[t] \in Waiting /\ fd_set[arg[t]] = s}

\* Variants for mutation: no thread is notified; message_ is not reset.
NotifyNobody(s) == pc' = pc
waitOnly(t, where) ==
  mutex' = Free /\ pc' = [pc EXCEPT ![t] = where] /\ UNCHANGED structs

\* cond_.notify_one() of struct s
NotifyOne(s) ==
  IF WaitersOf(s) = {} THEN pc' = pc
  ELSE \E t \in WaitersOf(s) : pc' = [pc EXCEPT ![t] = Woken(@)]

\* SocketStruct::waitMessage called by thread t
waitMessage(t, where) ==
  /\ structs' = [structs EXCEPT ![fd_set[arg[t]]].message = {}]
  /\ mutex' = Free
  /\ pc' = [pc EXCEPT ![t] = where]

-----------------------------------------------------------------------------
(* SocketSession.                                                          *)

\* Variant for mutation: setCallback is not called.
NewMute(local, peer, state, callback) ==
  [local |-> local, peer |-> peer, state |-> state, callback |-> 0]

NewSession(local, peer, state, callback) ==
  [local |-> local, peer |-> peer, state |-> state, callback |-> callback]

Closing == {"FIN_WAIT_1", "FIN_WAIT_2", "CLOSING", "LAST_ACK", "TIME_WAIT"}

\* the state SocketSession::close() leaves
CloseState(state) ==
  CASE state \in {"CLOSED", "LISTEN", "SYN_SENT"} -> "CLOSED"
    [] state \in {"SYN_RECEIVED", "ESTABLISHED"} -> "FIN_WAIT_1"
    [] state = "CLOSE_WAIT" -> "LAST_ACK"
    [] OTHER -> state

close(set) ==
  /\ sessions' = [s \in DOMAIN sessions |->
       IF s \in set THEN [sessions[s] EXCEPT !.state = CloseState(@)]
                    ELSE sessions[s]]
  /\ reports' = Report(\E s \in set : sessions[s].state \in Closing, "close")

\* onSegmentArrival_LISTEN, reached from open(segment): what the segment does
\* to a session that is in LISTEN
ListenState(kind) == IF kind = "SYN" THEN "SYN_RECEIVED" ELSE "LISTEN"

-----------------------------------------------------------------------------
(* The socket API.                                                         *)

Init ==
  /\ fd_set = <<>>
  /\ opened = {}
  /\ structs = <<>> /\ sessions = <<>>
  /\ garbage = {}
  /\ vector = <<>> /\ established = <<>>
  /\ mutex = Free
  /\ pc = [t \in Threads |-> "idle"]
  /\ arg = [t \in Threads |-> NoFd]
  /\ loop = 0
  /\ reports = {}

\* dup(null_fd_): the least free descriptor
dup == LET unused == (1 .. Descriptors) \ opened
       IN IF unused = {} THEN NoFd ELSE Min(unused)

\* fd_set_[fd] = std::make_unique<SocketStruct>(...)
NewFd(fd, st) ==
  /\ fd_set' = [f \in DOMAIN fd_set \cup {fd} |->
                  IF f = fd THEN Len(structs) + 1 ELSE fd_set[f]]
  /\ opened' = opened \cup ({fd} \ {NoFd})
  /\ structs' = Append(structs, st)

\* no lock is taken
_socket(t) ==
  /\ pc[t] = "idle"
  /\ Len(structs) < MaxSockets
  /\ reports' = Report(ownFD(dup), "fd")
  /\ \E a \in Locals \ AnyAddress, m \in {{}, {"RESET"}} :
       NewFd(dup, NewStruct(a, m))
  /\ UNCHANGED <<sessions, garbage, vector, established, mutex, pc, arg, loop>>

Calls == {"bind", "listen", "connect", "accept", "write", "close"}

\* the test of ownFD(); the program works on a descriptor in one thread at a
\* time, and on descriptors it was given only
Call(t) ==
  /\ pc[t] = "idle"
  /\ \E c \in Calls, fd \in DOMAIN fd_set \ {NoFd} :
       /\ \A u \in Threads : pc[u] # "idle" => arg[u] # fd
       /\ pc' = [pc EXCEPT ![t] = c]
       /\ arg' = [arg EXCEPT ![t] = fd]
  /\ UNCHANGED <<objects, fd_set, opened, mutex, loop, reports>>

Locked(t, where) == pc[t] = where /\ mutex = Free

Return(t) == pc' = [pc EXCEPT ![t] = "idle"]

_bind(t) ==
  /\ Locked(t, "bind")
  /\ \E a \in Locals :
       structs' = [structs EXCEPT ![fd_set[arg[t]]].bind_address = a]
  /\ Return(t)
  /\ UNCHANGED <<sessions, garbage, vector, established, fd_set, opened, mutex,
                 arg, loop, reports>>

addListener(target, s) == vector' = Append(vector, [target |-> target, st |-> s])

_listen(t) ==
  /\ Locked(t, "listen")
  /\ IF St(t).type # "UNSPECIFIED"
     THEN UNCHANGED <<structs, vector>>  \* EINVAL
     ELSE \E backlog \in Backlogs :
            /\ structs' = [structs EXCEPT ![fd_set[arg[t]]] =
                 [@ EXCEPT !.type = "PASSIVE",
                           !.backlog = IF backlog <= 0 THEN 1 ELSE backlog]]
            /\ addListener(St(t).bind_address, fd_set[arg[t]])
  /\ Return(t)
  /\ UNCHANGED <<sessions, garbage, established, fd_set, opened, mutex, arg,
                 loop, reports>>

\* Variant for mutation: the dispatcher does not learn of the session.
addNothing(local, peer, s) == established' = established

addSession(local, peer, s) ==
  established' = Append(established, [local |-> local, peer |-> peer,
                                      session |-> s])

_connect(t) ==
  /\ Locked(t, "connect")
  /\ IF St(t).type # "UNSPECIFIED"
     THEN UNCHANGED <<structs, sessions, established>>  \* EOPNOTSUPP, EISCONN
     ELSE \E peer \in Peers :
            LET s == Len(sessions) + 1
                local == St(t).bind_address
            IN /\ s <= MaxSessions
               /\ structs' = [structs EXCEPT ![fd_set[arg[t]]] =
                    [@ EXCEPT !.type = "ACTIVE", !.session = s]]
               /\ sessions' = Append(sessions,
                    NewSession(local, peer, "SYN_SENT", fd_set[arg[t]]))
               /\ addSession(local, peer, s)
  /\ Return(t)
  /\ UNCHANGED <<garbage, vector, fd_set, opened, mutex, arg, loop, reports>>

_accept(t) ==
  /\ Locked(t, "accept")
  /\ IF St(t).type # "PASSIVE"
     THEN Return(t) /\ UNCHANGED <<structs, mutex>>  \* EINVAL
     ELSE waitMessage(t, "accept waits")
  /\ UNCHANGED <<sessions, garbage, vector, established, fd_set, opened, arg,
                 loop, reports>>

\* SocketSession::send, called under the lock
_write(t) ==
  /\ Locked(t, "write")
  /\ IF St(t).type # "ACTIVE"
     THEN Return(t) /\ UNCHANGED mutex  \* ENOTCONN, EBADF
     ELSE /\ mutex' = t
          /\ pc' = [pc EXCEPT ![t] = "sending"]
  /\ UNCHANGED <<objects, fd_set, opened, arg, loop, reports>>

\* back from waitMessage in the loop of _write
WriteWakes(t) ==
  /\ Locked(t, "write woken")
  /\ CASE "WRITABLE" \in St(t).message ->
            /\ mutex' = t
            /\ pc' = [pc EXCEPT ![t] = "resending"]
            /\ UNCHANGED structs
       [] "WRITABLE" \notin St(t).message /\ isErrorMessage(St(t)) ->
            Return(t) /\ UNCHANGED <<structs, mutex>>  \* ECONNABORTED
       [] OTHER -> waitMessage(t, "write waits")
  /\ UNCHANGED <<sessions, garbage, vector, established, fd_set, opened, arg,
                 loop, reports>>

\* send returns: bytes taken, or none and the caller waits or gives up
Sent(t) ==
  /\ pc[t] \in {"sending", "resending"}
  /\ \/ /\ sessions[St(t).session].state \notin Closing \cup {"CLOSED"}
        /\ Return(t)
        /\ mutex' = Free
        /\ UNCHANGED structs
     \/ /\ pc[t] = "resending" /\ isErrorMessage(St(t))
        /\ Return(t)  \* ECONNABORTED
        /\ mutex' = Free
        /\ UNCHANGED structs
     \/ /\ ~(pc[t] = "resending" /\ isErrorMessage(St(t)))
        /\ waitMessage(t, "write waits")
  /\ UNCHANGED <<sessions, garbage, vector, established, fd_set, opened, arg,
                 loop, reports>>

\* the sessions a struct owns
Owned(st) == ({st.session} \ {0}) \cup Range(st.pending)

\* Variants for mutation: the sessions are destroyed with the struct; the
\* struct goes and its descriptor stays; both stay.
Destroy(set) == garbage' = garbage
removeLater(fd) ==
  structs' = [structs EXCEPT ![fd_set[fd]].live = FALSE] /\ fd_set' = fd_set
removeNothing(fd) == UNCHANGED <<structs, fd_set>>

\* garbage_.push_back(std::move(...))
PushGarbage(set) == garbage' = garbage \cup set

\* the struct goes, without the sessions that were moved out of it
removeStruct(fd) ==
  /\ structs' = [structs EXCEPT ![fd_set[fd]] =
       [@ EXCEPT !.session = 0, !.pending = <<>>, !.live = FALSE]]
  /\ fd_set' = Restrict(fd_set, DOMAIN fd_set \ {fd})

_close(t) ==
  /\ Locked(t, "close")
  /\ close(Owned(St(t)))
  /\ PushGarbage(Owned(St(t)))
  /\ removeStruct(arg[t])
  /\ Return(t)
  /\ UNCHANGED <<vector, established, opened, mutex, arg, loop>>

SpuriousWake(t) ==
  /\ pc[t] \in Waiting
  /\ pc' = [pc EXCEPT ![t] = Woken(@)]
  /\ UNCHANGED <<objects, fd_set, opened, mutex, arg, loop, reports>>

\* a queue without its element at i
Without(q, i) == [j \in 1 .. Len(q) - 1 |-> IF j < i THEN q[j] ELSE q[j + 1]]

\* the body of _accept's loop: take a pending session out of the queue into a
\* socket of its own, or wait again
AcceptPending(t) ==
  /\ Locked(t, "accept woken")
  /\ LET st == St(t)
         ready == {i \in DOMAIN st.pending :
                     sessions[st.pending[i]].state \notin {"LISTEN", "CLOSED"}}
     IN IF ready = {} \/ dup = NoFd
        THEN /\ waitMessage(t, "accept waits")
             /\ UNCHANGED <<sessions, fd_set, opened>>
        ELSE LET i == Min(ready)
                 s == st.pending[i]
                 new == Len(structs) + 1
             IN /\ structs' = Append(
                     [structs EXCEPT ![fd_set[arg[t]]].pending = Without(@, i)],
                     [NewStruct(st.bind_address, {}) EXCEPT
                        !.type = "ACTIVE", !.session = s])
                /\ fd_set' = [f \in DOMAIN fd_set \cup {dup} |->
                                IF f = dup THEN new ELSE fd_set[f]]
                /\ opened' = opened \cup {dup}
                /\ sessions' = [sessions EXCEPT ![s].callback = new]
                /\ Return(t)
                /\ UNCHANGED mutex
  /\ UNCHANGED <<garbage, vector, established, arg, loop, reports>>

-----------------------------------------------------------------------------
(* The event loop.                                                         *)

\* what a segment may do to a session, and the message it sends the user
Edges == {
  <<"SYN_SENT", "ESTABLISHED", "WRITABLE">>, <<"SYN_SENT", "CLOSED", "REFUSED">>,
  <<"SYN_SENT", "SYN_RECEIVED", "none">>,
  <<"SYN_RECEIVED", "ESTABLISHED", "WRITABLE">>,
  <<"ESTABLISHED", "ESTABLISHED", "WRITABLE">>,
  <<"ESTABLISHED", "CLOSE_WAIT", "CLOSING">>, <<"ESTABLISHED", "CLOSED", "RESET">>,
  <<"CLOSE_WAIT", "CLOSE_WAIT", "WRITABLE">>, <<"CLOSE_WAIT", "CLOSED", "RESET">>,
  <<"FIN_WAIT_1", "FIN_WAIT_2", "none">>, <<"FIN_WAIT_1", "CLOSING", "CLOSING">>,
  <<"FIN_WAIT_1", "TIME_WAIT", "none">>, <<"FIN_WAIT_2", "TIME_WAIT", "none">>,
  <<"CLOSING", "TIME_WAIT", "none">>, <<"LAST_ACK", "CLOSED", "none">> }

\* SocketSession::signalUser and SocketStruct::onMessage
signalUser(s, message) ==
  LET st == sessions[s].callback
  IN CASE message = "none" \/ st = 0 -> UNCHANGED <<structs, pc, reports>>
       [] message # "none" /\ st # 0 /\ ~structs[st].live ->
            /\ reports' = reports \cup {"callback"}
            /\ UNCHANGED <<structs, pc>>
       [] OTHER -> /\ structs' = [structs EXCEPT ![st].message = @ \cup {message}]
                   /\ NotifyOne(st)
                   /\ UNCHANGED reports

SessionEvent(s) ==
  \E e \in Edges :
    /\ e[1] = sessions[s].state
    /\ sessions' = [sessions EXCEPT ![s].state = e[2]]
    /\ signalUser(s, e[3])

onSegmentArrival(s, kind) ==
  \/ /\ sessions[s].state = "LISTEN"
     /\ sessions' = [sessions EXCEPT ![s].state = ListenState(kind)]
     /\ UNCHANGED <<structs, pc, reports>>
  \/ sessions[s].state # "LISTEN" /\ SessionEvent(s)

\* lookupSession of the two dispatchers: the index of the first match, or 0
First(matches) == IF matches = {} THEN 0 ELSE Min(matches)
lookupSession(to, from) ==
  First({e \in DOMAIN established :
           established[e].local = to /\ established[e].peer = from})
lookupListener(to) ==
  First({v \in DOMAIN vector :
           /\ to.port = vector[v].target.port
           /\ vector[v].target \in AnyAddress \/ to = vector[v].target})

\* the test of the backlog; as a variant for mutation, off by one
QueueOverfull(st) == Len(structs[st].pending) > structs[st].backlog
QueueFull(st) == Len(structs[st].pending) >= structs[st].backlog

\* ListenDispatcher::onReceivePacket for the listening struct st
Listen(st, to, from, kind) ==
  IF QueueFull(st)
  THEN UNCHANGED <<structs, sessions, established, pc>>
  ELSE LET s == Len(sessions) + 1
       IN /\ s <= MaxSessions
          /\ sessions' = Append(sessions,
                                NewSession(to, from, ListenState(kind), 0))
          /\ structs' = [structs EXCEPT ![st].pending = Append(@, s)]
          /\ addSession(to, from, s)
          /\ NotifyOne(st)

\* a segment nobody knows goes to the ResetDispatcher, which keeps no state
onReceivePacket(to, from, kind) ==
  LET e == lookupSession(to, from)
      l == lookupListener(to)
  IN /\ mutex = Free
     /\ loop = 0
     /\ \/ /\ e # 0
           /\ onSegmentArrival(established[e].session, kind)
           /\ UNCHANGED established
        \/ /\ e = 0 /\ l # 0 /\ structs[vector[l].st].live
           /\ Listen(vector[l].st, to, from, kind)
           /\ UNCHANGED reports
        \/ /\ e = 0 /\ l # 0 /\ ~structs[vector[l].st].live
           /\ reports' = reports \cup {"listener"}
           /\ UNCHANGED <<structs, sessions, established, pc>>
     /\ UNCHANGED <<garbage, vector, fd_set, opened, mutex, arg, loop>>

\* alarms run without the lock: TIME_WAIT ends
enterCLOSED(s) ==
  /\ loop = 0
  /\ sessions[s].state = "TIME_WAIT"
  /\ sessions' = [sessions EXCEPT ![s].state = "CLOSED"]
  /\ UNCHANGED <<structs, garbage, vector, established, fd_set, opened, mutex,
                 pc, arg, loop, reports>>

\* SendBuffer::retransmit starts, and returns
RetransmitStarts(s) ==
  /\ loop = 0
  /\ sessions[s].state # "LISTEN"
  /\ loop' = s
  /\ UNCHANGED <<objects, fd_set, opened, mutex, pc, arg, reports>>

RetransmitReturns ==
  /\ loop # 0
  /\ loop' = 0
  /\ UNCHANGED <<objects, fd_set, opened, mutex, pc, arg, reports>>

UserStep(t) ==
  \/ _socket(t) \/ Call(t) \/ _bind(t) \/ _listen(t) \/ _connect(t)
  \/ _accept(t) \/ _write(t) \/ WriteWakes(t) \/ Sent(t) \/ _close(t)
  \/ SpuriousWake(t) \/ AcceptPending(t)

LoopStep ==
  \/ \E to \in Locals \ AnyAddress, from \in Peers, kind \in {"SYN", "ACK"} :
       onReceivePacket(to, from, kind)
  \/ \E s \in DOMAIN sessions : enterCLOSED(s) \/ RetransmitStarts(s)
  \/ RetransmitReturns

\* the use of a destroyed object ends what can be said
Next ==
  /\ reports \cap {"listener", "callback"} = {}
  /\ LoopStep \/ \E t \in Threads : UserStep(t)

Spec == Init /\ [][Next]_vars

\* A thread that can run does: it gets the lock, and SocketSession::send
\* returns.  Nothing is assumed of the user program, of the network or of
\* spurious wake-ups.
ThreadRuns(t) ==
  \/ _bind(t) \/ _listen(t) \/ _connect(t) \/ _accept(t) \/ _write(t)
  \/ WriteWakes(t) \/ Sent(t) \/ _close(t) \/ AcceptPending(t)

FairSpec == Spec /\ \A t \in Threads : SF_vars(ThreadRuns(t))

-----------------------------------------------------------------------------
(* Properties.                                                             *)

StructIds == DOMAIN structs
LiveStructs == {st \in StructIds : structs[st].live}
Where == {"idle", "sending", "resending", "accept waits", "write waits",
          "accept woken", "write woken"} \cup Calls

\* The state has the types of the code's members.
TypeOK ==
  /\ DOMAIN fd_set \subseteq (1 .. Descriptors) \cup {NoFd}
  /\ \A fd \in DOMAIN fd_set : fd_set[fd] \in LiveStructs
  /\ opened \subseteq 1 .. Descriptors
  /\ \A st \in StructIds :
       /\ structs[st].type \in Types
       /\ structs[st].message \subseteq Messages
       /\ structs[st].bind_address \in Locals
  /\ \A s \in DOMAIN sessions :
       /\ sessions[s].state \in ConnectionState
       /\ sessions[s].callback \in StructIds \cup {0}
  /\ garbage \subseteq DOMAIN sessions
  /\ mutex \in Threads \cup {Free}
  /\ pc \in [Threads -> Where]

\* Every session has one owner from its creation on: the socket it connects,
\* the queue of the socket that listens, or garbage_.  So no call destroys a
\* session that the dispatchers, which keep plain pointers, still know.
SessionsOwned ==
  \A s \in DOMAIN sessions :
    LET owners == {st \in LiveStructs : s \in Owned(structs[st])}
    IN IF s \in garbage THEN owners = {} ELSE \E st \in LiveStructs : owners = {st}

\* A connected socket has its session, and that session reports to no other
\* socket.
SessionsReportToOwner ==
  \A st \in LiveStructs :
    structs[st].type = "ACTIVE" =>
      /\ structs[st].session # 0
      /\ sessions[structs[st].session].callback = st

\* The queue of a listening socket respects the backlog, however segments,
\* accepts and closes interleave.
BacklogRespected ==
  \A st \in LiveStructs :
    /\ Len(structs[st].pending) <= structs[st].backlog
    /\ structs[st].type # "PASSIVE" => structs[st].pending = <<>>

\* SocketSession::close is never reached in a state where it ends the program
\* ("error: connection closing"): a session is closed once at most.
NeverClosedTwice == "close" \notin reports

\* A thread never sleeps in cond_.wait() on a message that has been delivered:
\* between the reset of message_ and the wait nobody gets the lock.
NoLostWakeup ==
  \A t \in Threads : pc[t] \in Waiting => St(t).message = {}

\* _write sees an error only after the session failed or is being closed by
\* the peer, although message_ starts uninitialised and collects messages
\* while nobody waits.
ErrorsAreReal ==
  \A t \in Threads :
    pc[t] \in {"write waits", "write woken", "resending"} /\ isErrorMessage(St(t))
      => sessions[St(t).session].state
           \notin {"SYN_SENT", "SYN_RECEIVED", "ESTABLISHED"}

\* A SYN that is repeated, before or after its session left the queue, makes
\* no second session: no two sessions waiting to be accepted have the same
\* pair of addresses, whatever segments other peers send in between.
PendingDistinct ==
  \A st, other \in LiveStructs :
    \A i \in DOMAIN structs[st].pending, j \in DOMAIN structs[other].pending :
      LET s == sessions[structs[st].pending[i]]
          o == sessions[structs[other].pending[j]]
      IN <<s.local, s.peer>> = <<o.local, o.peer>> => st = other /\ i = j

\* The comment on _accept: an incoming session in the pending queue is
\* accepted.
AcceptReturns ==
  \A t \in Threads :
    (/\ pc[t] = "accept waits"
     /\ \E i \in DOMAIN St(t).pending :
          sessions[St(t).pending[i]].state = "ESTABLISHED")
      ~> pc[t] = "idle"
=============================================================================
