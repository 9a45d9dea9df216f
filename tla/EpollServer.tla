---------------------------- MODULE EpollServer ----------------------------
(***************************************************************************)
(* The event loop and its timers: EpollServer (epoll_server.cpp), Alarm    *)
(* (alarm.cpp) and EpollAlarm (epoll_alarm.cpp).                           *)
(*                                                                         *)
(* alarm_map is the std::multimap from deadlines to alarms.  A map node is *)
(* named by an element of Nodes, and an iterator (AlarmToken) is the name  *)
(* of the node it points at, so an iterator into an erased node is a name  *)
(* no entry carries.  Which of several entries with the same deadline      *)
(* comes first is left open.                                               *)
(*                                                                         *)
(* The real clock counts microseconds; kSecond and kMilli are the numbers  *)
(* of microseconds in a second and in a millisecond, 1000000 and 1000 in   *)
(* the code.  Time passes inside epoll_wait and nowhere else: the          *)
(* callbacks are taken to be fast.  MaxClock ends the behaviour.           *)
(*                                                                         *)
(* The code that arms, moves and cancels alarms is the rest of the stack:  *)
(* callbacks of frames and alarms, and user calls that run while the loop  *)
(* thread sits in epoll_wait.  Probe is the probe alarm of the IP layer,   *)
(* armed before the loop starts and re-armed by its own callback.          *)
(***************************************************************************)
EXTENDS Integers, FiniteSets

CONSTANTS Alarms,    \* the EpollAlarm objects, Probe among them
          Probe,     \* IPLayer::probe_alarm_
          Nodes,     \* names for the nodes of the multimap
          Seconds,   \* the delays alarms are armed with, in seconds
          kSecond, kMilli, MaxClock

ASSUME EpollAssumption ==
  /\ Probe \in Alarms
  /\ Nodes # {}
  /\ Seconds \subseteq Nat \ {0}
  /\ Seconds # {}
  /\ kMilli \in Nat \ {0}
  /\ kSecond \in Nat
  /\ kSecond >= kMilli /\ kSecond >= kMilli * kMilli
  /\ MaxClock \in Nat

VARIABLES
  alarm_map,  \* EpollServer::alarm_map_
  now,        \* EpollServer::now_
  deadline,   \* Alarm::deadline_, 0 when the alarm is not set
  token,      \* EpollAlarm::token_
  pc,         \* where the loop thread is
  current,    \* the iterator held by runAlarmEvent
  clock,      \* the time of day, in microseconds
  sample,     \* the time of day updateNow() last read
  timeout,    \* the timeout handed to epoll_wait, in milliseconds
  due         \* the real time at which an armed alarm's delay is over

vars == <<alarm_map, now, deadline, token, pc, current, clock, sample,
          timeout, due>>

-----------------------------------------------------------------------------
(* The multimap.                                                           *)

Entry(n, t, a) == [node |-> n, first |-> t, second |-> a]

erase(map, n) == {e \in map : e.node # n}

\* alarm_map_.begin(): an entry with the least deadline
IsBegin(map, e) == e \in map /\ \A f \in map : e.first <= f.first

Free(map) == Nodes \ {e.node : e \in map}

FreeNode(map) == CHOOSE n \in Nodes : n \in Free(map)

-----------------------------------------------------------------------------
(* Alarm and EpollAlarm.                                                   *)

isSet(a) == deadline[a] # 0

\* allocation succeeds: Nodes is larger than any map gets
registerAlarm(map, a, t) ==
  /\ Free(map) # {}
  /\ alarm_map' = map \cup {Entry(FreeNode(map), t, a)}
  /\ token' = [token EXCEPT ![a] = FreeNode(map)]

\* the delay is over s seconds after the real time at which it was asked for
Arm(a, s) == due' = [due EXCEPT ![a] = clock + s * kSecond]

set(a, s) ==
  /\ ~isSet(a)
  /\ deadline' = [deadline EXCEPT ![a] = now + s * kSecond]
  /\ registerAlarm(alarm_map, a, now + s * kSecond)
  /\ Arm(a, s)

cancel(a) ==
  /\ isSet(a)
  /\ deadline' = [deadline EXCEPT ![a] = 0]
  /\ alarm_map' = erase(alarm_map, token[a])
  /\ UNCHANGED <<token, due>>

\* Variants for mutation: the difference without std::abs; the old entry of
\* an alarm that is moved stays in the map.
Difference(t, u) == u - t
Linked(a) == alarm_map

Distance(t, u) == IF t < u THEN u - t ELSE t - u

\* the map after cancelImpl(), if the alarm was set
Unlinked(a) == IF isSet(a) THEN erase(alarm_map, token[a]) ELSE alarm_map

update(a, s, granularity) ==
  IF Distance(now + s * kSecond, deadline[a]) < granularity
  THEN UNCHANGED <<deadline, alarm_map, token, due>>
  ELSE /\ deadline' = [deadline EXCEPT ![a] = now + s * kSecond]
       /\ registerAlarm(Unlinked(a), a, now + s * kSecond)
       /\ Arm(a, s)

-----------------------------------------------------------------------------
(* EpollServer.                                                            *)

TimeOf(t) == (t % kSecond) \div kMilli + (t \div kSecond) * kSecond

Init ==
  /\ clock = kSecond
  /\ sample = clock
  /\ now = TimeOf(clock)
  /\ \E s \in Seconds :
       /\ deadline = [a \in Alarms |-> IF a = Probe THEN now + s * kSecond ELSE 0]
       /\ due = [a \in Alarms |-> IF a = Probe THEN clock + s * kSecond ELSE 0]
       /\ alarm_map = {Entry(FreeNode({}), now + s * kSecond, Probe)}
  /\ token = [a \in Alarms |-> FreeNode({})]
  /\ pc = "top"
  /\ current = FreeNode({})
  /\ timeout = 0

\* Variant for mutation: the loop waits for the next alarm, however late.
Uncapped(m, n) == n

\* std::min in runEventLoop
Lesser(m, n) == IF m < n THEN m ELSE n

incomingAlarm(e, t) == IF e.first < t THEN 0 ELSE e.first - t

\* updateNow(), incomingAlarm() and the call of epoll_wait
runEventLoop ==
  /\ pc = "top"
  /\ clock < MaxClock
  /\ sample' = clock
  /\ now' = TimeOf(clock)
  /\ \E e \in alarm_map :
       /\ IsBegin(alarm_map, e)
       /\ timeout' = Lesser(kSecond, incomingAlarm(e, now')) \div kMilli
  /\ pc' = "wait"
  /\ UNCHANGED <<alarm_map, deadline, token, current, clock, due>>

\* epoll_wait returns within a millisecond of its timeout
Tick ==
  /\ pc = "wait"
  /\ clock < sample + (timeout + 1) * kMilli
  /\ clock' = clock + 1
  /\ UNCHANGED <<alarm_map, now, deadline, token, pc, current, sample, timeout,
                 due>>

\* a frame is readable: the callbacks run
FramesArrive ==
  /\ pc = "wait"
  /\ pc' = "read"
  /\ UNCHANGED <<alarm_map, now, deadline, token, current, clock, sample,
                 timeout, due>>

\* the callbacks have returned, or the wait timed out
runReadEvent ==
  /\ \/ pc = "read"
     \/ pc = "wait" /\ clock >= sample + timeout * kMilli
  /\ pc' = "alarms"
  /\ UNCHANGED <<alarm_map, now, deadline, token, current, clock, sample,
                 timeout, due>>

\* one iteration of runAlarmEvent up to the delegate: Alarm::fire()
fire(e) ==
  /\ IF isSet(e.second)
     THEN /\ deadline' = [deadline EXCEPT ![e.second] = 0]
          /\ pc' = "onAlarm"
     ELSE /\ pc' = "erase"
          /\ UNCHANGED deadline
  /\ current' = e.node

\* the condition of the loop; as a variant for mutation, none
AlwaysElapsed(e) == TRUE
Elapsed(e) == now >= e.first

runAlarmEvent ==
  /\ pc = "alarms"
  /\ \E e \in alarm_map :
       /\ IsBegin(alarm_map, e)
       /\ Elapsed(e)
       /\ fire(e)
  /\ UNCHANGED <<alarm_map, now, token, clock, sample, timeout, due>>

Firing(a) == \E e \in alarm_map : e.node = current /\ e.second = a

\* IPLayer::sendProbePacket
sendProbePacket ==
  /\ pc = "onAlarm"
  /\ Firing(Probe)
  /\ \E s \in Seconds : update(Probe, s, kMilli)
  /\ pc' = "erase"
  /\ UNCHANGED <<now, current, clock, sample, timeout>>

AlarmReturns ==
  /\ pc = "onAlarm"
  /\ ~Firing(Probe)
  /\ pc' = "erase"
  /\ UNCHANGED <<alarm_map, now, deadline, token, current, clock, sample,
                 timeout, due>>

EraseFired ==
  /\ pc = "erase"
  /\ alarm_map' = erase(alarm_map, current)
  /\ pc' = "alarms"
  /\ UNCHANGED <<now, deadline, token, current, clock, sample, timeout, due>>

LoopReturns ==
  /\ pc = "alarms"
  /\ \A e \in alarm_map : ~Elapsed(e)
  /\ pc' = "top"
  /\ UNCHANGED <<alarm_map, now, deadline, token, current, clock, sample,
                 timeout, due>>

-----------------------------------------------------------------------------
(* The users of the alarms: SendBuffer, SocketSession, RoutingTable.       *)

UserCanRun ==
  \/ pc \in {"wait", "read"}
  \/ pc = "onAlarm" /\ ~Firing(Probe)

UserSets ==
  /\ UserCanRun
  /\ \E a \in Alarms \ {Probe}, s \in Seconds : set(a, s)
  /\ UNCHANGED <<now, pc, current, clock, sample, timeout>>

UserUpdates ==
  /\ UserCanRun
  /\ \E a \in Alarms \ {Probe}, s \in Seconds, g \in {kMilli, kSecond} :
       update(a, s, g)
  /\ UNCHANGED <<now, pc, current, clock, sample, timeout>>

UserCancels ==
  /\ UserCanRun
  /\ \E a \in Alarms \ {Probe} : cancel(a)
  /\ UNCHANGED <<now, pc, current, clock, sample, timeout>>

Next ==
  \/ runEventLoop \/ Tick \/ FramesArrive \/ runReadEvent
  \/ runAlarmEvent \/ sendProbePacket \/ AlarmReturns \/ EraseFired
  \/ LoopReturns
  \/ UserSets \/ UserUpdates \/ UserCancels

Spec == Init /\ [][Next]_vars

-----------------------------------------------------------------------------
(* Properties.                                                             *)

\* The state has the types of the code's members.
TypeOK ==
  /\ alarm_map \in SUBSET [node : Nodes, first : Nat, second : Alarms]
  /\ now \in Nat
  /\ deadline \in [Alarms -> Nat]
  /\ token \in [Alarms -> Nodes]
  /\ pc \in {"top", "wait", "read", "alarms", "onAlarm", "erase"}
  /\ current \in Nodes
  /\ clock \in Nat
  /\ sample \in Nat
  /\ timeout \in Nat
  /\ due \in [Alarms -> Nat]

InFlight(e) == pc \in {"onAlarm", "erase"} /\ e.node = current

\* alarm_map_ and the alarms agree at every step, the callbacks' included: a
\* set alarm's token names its own entry, under its own deadline, and every
\* entry belongs to a set alarm that holds a token to it, except the one that
\* is being fired.  So cancel() and updateImpl() never erase through a dead
\* iterator or erase another alarm's entry, and no entry outlives its alarm.
TokensMatch ==
  /\ \A a \in Alarms :
       isSet(a) => \E e \in alarm_map :
                     /\ e = Entry(token[a], deadline[a], a)
                     /\ ~InFlight(e)
  /\ \A e \in alarm_map :
       ~InFlight(e) => isSet(e.second) /\ token[e.second] = e.node
  /\ \A e, f \in alarm_map : e.node = f.node => e = f

\* runAlarmEvent erases the entry it fired, which is still there whatever the
\* delegate did to its own alarm or to the others.
FiredEntryLives ==
  pc \in {"onAlarm", "erase"} => \E e \in alarm_map : e.node = current

\* incomingAlarm() dereferences begin() with no test for an empty map.  It
\* never meets one, because the probe alarm re-arms itself before its own
\* entry is erased.
MapNeverEmpty == pc = "top" => alarm_map # {}

\* fire() never finds its alarm unset: its early return is dead code.
FiresSetAlarms == [][pc = "alarms" => pc' # "erase"]_vars

\* How old now_ is when an alarm is armed: the probe alarm is armed by its own
\* callback, at the time now_ has just been read.
Staleness(a) == IF a = Probe THEN 0 ELSE kSecond

\* An alarm does not fire earlier than the age of now_ when it was armed, and
\* the two millisecond roundings, before its delay is over.  So the probes of a
\* node leave at the interval it asks for, up to a second late.
NeverTooEarly ==
  [][\A a \in Alarms :
       pc' = "onAlarm" /\ isSet(a) /\ deadline'[a] = 0 /\ pc = "alarms"
         => clock + Staleness(a) + 2 * kMilli >= due[a]]_vars

-----------------------------------------------------------------------------
(* What the users of the alarms may rely on.                               *)

\* TimeOf() squeezes the microseconds of a second into its first ones; this is
\* the real time, to the millisecond, that a time of the loop stands for.
RealTime(t) == (t % kSecond) * kMilli + (t \div kSecond) * kSecond

Promise == INSTANCE AlarmClock WITH
  Loops <- {"loop"}, Delays <- Seconds, Second <- kSecond, Rounding <- kMilli,
  time <- clock, seen <- [l \in {"loop"} |-> sample],
  expiry <- [a \in Alarms |-> IF isSet(a) THEN RealTime(deadline[a]) ELSE 0]

\* The event loop keeps the promise of AlarmClock: in real time, it looks at
\* the clock at least once a second, and fires an alarm when it sees that the
\* delay is over and no later than a second after that, whatever the unit slip
\* of updateNow() makes of the times it compares and waits for.
KeepsPromise == Promise!ASpec
=============================================================================
