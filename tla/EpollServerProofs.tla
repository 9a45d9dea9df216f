------------------------- MODULE EpollServerProofs -------------------------
(***************************************************************************)
(* Proofs about the alarms of EpollServer, for every set of alarms, every  *)
(* clock resolution and every choice of delays.                            *)
(*                                                                         *)
(* The inductive invariant adds one fact to the properties: the probe      *)
(* alarm is set, or its own callback has not run yet.  The second part     *)
(* adds the times: the event loop keeps the promise of AlarmClock for      *)
(* every clock whose second has at least kMilli milliseconds.  The code's  *)
(* clock has exactly that many; with a coarser one, the loop could sleep   *)
(* through the end of a second for longer than a second, as updateNow()    *)
(* adds milliseconds to microseconds.                                      *)
(***************************************************************************)
EXTENDS EpollServer, TLAPS

ProbeArmed == isSet(Probe) \/ (pc = "onAlarm" /\ Firing(Probe))

Inv == TypeOK /\ TokensMatch /\ FiredEntryLives /\ ProbeArmed

\* The variables the alarms' consistency is about keep their types.
AlarmTypes ==
  /\ alarm_map \in SUBSET [node : Nodes, first : Nat, second : Alarms]
  /\ deadline \in [Alarms -> Nat]
  /\ token \in [Alarms -> Nodes]

\* A node chosen for emplace() is one no entry uses.
LEMMA FreeIsFree ==
  ASSUME NEW map, Free(map) # {}
  PROVE  FreeNode(map) \in Nodes /\ \A e \in map : e.node # FreeNode(map)
BY Zenon DEF Free, FreeNode

\* A deadline some seconds away is later than now, so it is not the zero that
\* marks an alarm that is not set, and it is at least a millisecond from zero.
LEMMA Later ==
  ASSUME NEW t \in Nat, NEW s \in Seconds
  PROVE  /\ t + s * kSecond \in Nat
         /\ t + s * kSecond > t
         /\ t + s * kSecond >= kMilli
<1>1. s \in Nat /\ s >= 1 /\ kSecond \in Nat /\ kSecond >= kMilli /\ kMilli \in Nat /\ kMilli >= 1
  BY EpollAssumption
<1>2. s * kSecond \in Nat /\ s * kSecond >= kSecond
  BY ONLY <1>1
<1> QED  BY ONLY <1>1, <1>2, t \in Nat

\* updateNow() yields a time.
LEMMA TimeOfType ==
  ASSUME NEW t \in Nat
  PROVE  TimeOf(t) \in Nat
<1>1. kSecond \in Nat \ {0} /\ kMilli \in Nat \ {0}
  BY EpollAssumption
<1>2. t % kSecond \in Nat /\ t \div kSecond \in Nat
  BY ONLY <1>1, t \in Nat
<1>3. (t % kSecond) \div kMilli \in Nat
  BY ONLY <1>1, <1>2
<1>4. (t \div kSecond) * kSecond \in Nat
  BY ONLY <1>1, <1>2
<1> QED  BY ONLY <1>3, <1>4 DEF TimeOf

\* Arming an alarm, set or not (set(), update() with setImpl() or
\* updateImpl()), at any point of the loop keeps tokens and map in agreement
\* and leaves the entry being fired alone.
LEMMA Rearm ==
  ASSUME Inv, NEW a \in Alarms, NEW t \in Nat \ {0}, NEW m, NEW n \in Nodes,
         m = IF isSet(a) THEN erase(alarm_map, token[a]) ELSE alarm_map,
         \A e \in m : e.node # n,
         deadline' = [deadline EXCEPT ![a] = t],
         alarm_map' = m \cup {Entry(n, t, a)},
         token' = [token EXCEPT ![a] = n],
         UNCHANGED current,
         pc' = pc \/ (pc = "onAlarm" /\ pc' = "erase")
  PROVE  /\ AlarmTypes'
         /\ TokensMatch'
         /\ FiredEntryLives'
<1> USE DEF Inv, TypeOK
<1>1. AlarmTypes'
  BY DEF AlarmTypes, erase, Entry
<1>2. \A e \in alarm_map : InFlight(e)' <=> InFlight(e)
  BY Zenon DEF InFlight
<1>3. \A e \in alarm_map : InFlight(e) => e \in m
  BY DEF TokensMatch, InFlight, erase, Entry
<1>4. FiredEntryLives'
  BY Zenon, <1>3 DEF FiredEntryLives, InFlight
<1>5. ~InFlight(Entry(n, t, a))'
  BY Zenon, <1>3 DEF FiredEntryLives, InFlight, Entry
<1>6. \A b \in Alarms : isSet(b)' => \E e \in alarm_map' :
                     /\ e = Entry(token'[b], deadline'[b], b)
                     /\ ~InFlight(e)'
  <2> SUFFICES ASSUME NEW b \in Alarms, isSet(b)'
               PROVE  \E e \in alarm_map' :
                        e = Entry(token'[b], deadline'[b], b) /\ ~InFlight(e)'
    BY Zenon
  <2>1. CASE b = a
    BY Zenon, <1>5, <2>1
  <2>2. CASE b # a
    <3>1. isSet(b)
      BY Zenon, <2>2 DEF isSet
    <3>2. PICK e \in alarm_map : e = Entry(token[b], deadline[b], b) /\ ~InFlight(e)
      BY Zenon, <3>1 DEF TokensMatch
    <3>3. isSet(a) => e.node # token[a]
      BY <2>2, <3>2 DEF TokensMatch, Entry
    <3>4. e \in m
      BY Zenon, <3>3 DEF erase
    <3> QED  BY Zenon, <1>2, <2>2, <3>2, <3>4
  <2> QED  BY Zenon, <2>1, <2>2
<1>7. \A e \in alarm_map' : ~InFlight(e)' =>
         deadline'[e.second] # 0 /\ token'[e.second] = e.node
  <2> SUFFICES ASSUME NEW e \in alarm_map', ~InFlight(e)'
               PROVE  deadline'[e.second] # 0 /\ token'[e.second] = e.node
    BY Zenon
  <2>1. CASE e = Entry(n, t, a)
    BY Zenon, <2>1 DEF Entry
  <2>2. CASE e \in m
    <3>1. e \in alarm_map /\ ~InFlight(e)
      BY Zenon, <1>2, <2>2 DEF erase
    <3>2. isSet(e.second) /\ token[e.second] = e.node
      BY Zenon, <3>1 DEF TokensMatch
    <3>3. e.second # a
      BY Zenon, <2>2, <3>2 DEF erase
    <3> QED  BY <3>2, <3>3 DEF isSet
  <2> QED  BY Zenon, <2>1, <2>2
<1>8. \A e, f \in alarm_map' : e.node = f.node => e = f
  <2>1. \A e \in m : e \in alarm_map
    BY Zenon DEF erase
  <2>2. Entry(n, t, a).node = n
    BY Zenon DEF Entry
  <2> QED  BY <2>1, <2>2 DEF TokensMatch
<1> QED  BY Zenon, <1>1, <1>4, <1>6, <1>7, <1>8 DEF TokensMatch, isSet

\* Which alarm is being fired does not change when other alarms' entries do.
LEMMA SameFiring ==
  ASSUME Inv, NEW a \in Alarms, a # Probe, UNCHANGED <<pc, current>>,
         FiredEntryLives',
         \A e \in alarm_map' : e \in alarm_map \/ (e.second = a /\ ~InFlight(e)'),
         \A e \in alarm_map : InFlight(e) => e \in alarm_map',
         deadline'[Probe] = deadline[Probe]
  PROVE  ProbeArmed'
BY Zenon DEF Inv, ProbeArmed, Firing, isSet, InFlight

\* The constructors of EpollServer and IPLayer.
LEMMA EpollInit == Init => Inv
<1> SUFFICES ASSUME Init PROVE Inv
  BY Zenon
<1>1. clock \in Nat /\ now \in Nat
  BY Zenon, EpollAssumption, TimeOfType DEF Init
<1>2. PICK s \in Seconds :
       /\ deadline = [a \in Alarms |-> IF a = Probe THEN now + s * kSecond ELSE 0]
       /\ due = [a \in Alarms |-> IF a = Probe THEN clock + s * kSecond ELSE 0]
       /\ alarm_map = {Entry(FreeNode({}), now + s * kSecond, Probe)}
  BY Zenon DEF Init
<1>3. FreeNode({}) \in Nodes
  BY Zenon, EpollAssumption DEF FreeNode, Free
<1>4. /\ now + s * kSecond \in Nat
      /\ now + s * kSecond # 0
      /\ clock + s * kSecond \in Nat
  BY <1>1, Later
<1>5. TypeOK
  BY <1>1, <1>2, <1>3, <1>4, EpollAssumption DEF Init, TypeOK, Entry
<1>6. TokensMatch /\ FiredEntryLives /\ ProbeArmed
  BY <1>2, <1>3, <1>4, EpollAssumption
     DEF Init, TokensMatch, FiredEntryLives, ProbeArmed, InFlight, Entry, isSet
<1> QED  BY Zenon, <1>5, <1>6 DEF Inv

\* Steps that move the loop or the clock and touch no alarm.
LEMMA QuietInv ==
  ASSUME Inv, UNCHANGED <<alarm_map, deadline, token, due, current>>, TypeOK',
         \/ pc = pc'
         \/ pc \notin {"onAlarm", "erase"} /\ pc' \notin {"onAlarm", "erase"}
  PROVE  Inv'
BY Zenon DEF Inv, TokensMatch, FiredEntryLives, ProbeArmed, InFlight, isSet, Firing

\* Arming an alarm other than the probe.
LEMMA ArmInv ==
  ASSUME Inv, NEW a \in Alarms \ {Probe}, NEW s \in Seconds, NEW m,
         m = IF isSet(a) THEN erase(alarm_map, token[a]) ELSE alarm_map,
         deadline' = [deadline EXCEPT ![a] = now + s * kSecond],
         registerAlarm(m, a, now + s * kSecond),
         Arm(a, s),
         UNCHANGED <<now, pc, current, clock, sample, timeout>>
  PROVE  Inv'
<1> DEFINE n == FreeNode(m)
           t == now + s * kSecond
<1>1. n \in Nodes /\ \A e \in m : e.node # n
  BY Zenon, FreeIsFree DEF registerAlarm
<1>2. t \in Nat \ {0} /\ clock + s * kSecond \in Nat
  BY Later DEF Inv, TypeOK
<1>3. alarm_map' = m \cup {Entry(n, t, a)} /\ token' = [token EXCEPT ![a] = n]
  BY Zenon DEF registerAlarm
<1>4. AlarmTypes' /\ TokensMatch' /\ FiredEntryLives'
  <2> HIDE DEF n, t
  <2>1. deadline' = [deadline EXCEPT ![a] = t]
    BY Zenon DEF t
  <2> QED  BY Zenon, <1>1, <1>2, <1>3, <2>1, Rearm
<1>5. TypeOK'
  BY Zenon, <1>2, <1>4 DEF Inv, TypeOK, AlarmTypes, Arm
<1>6. ~InFlight(Entry(n, t, a))'
  BY <1>1, <1>2, <1>3, <1>4 DEF TokensMatch, Entry, InFlight, Inv, TypeOK, isSet
<1>7. \A e \in alarm_map : InFlight(e) => e \in alarm_map'
  BY <1>3 DEF Inv, TokensMatch, InFlight, erase, Entry
<1>8. \A e \in alarm_map' : e \in alarm_map \/ (e.second = a /\ ~InFlight(e)')
  BY <1>3, <1>6 DEF erase, Entry
<1>9. deadline'[Probe] = deadline[Probe]
  BY Zenon, EpollAssumption DEF Inv, TypeOK
<1>10. ProbeArmed'
  BY Zenon, <1>4, <1>7, <1>8, <1>9, SameFiring
<1> QED  BY Zenon, <1>4, <1>5, <1>10 DEF Inv

\* Alarm::cancel() of an alarm other than the probe.
LEMMA CancelInv ==
  ASSUME Inv, NEW a \in Alarms \ {Probe}, cancel(a),
         UNCHANGED <<now, pc, current, clock, sample, timeout>>
  PROVE  Inv'
<1> USE DEF cancel
<1>1. TypeOK'
  BY Zenon DEF Inv, TypeOK, erase
<1>2. \A e \in alarm_map : InFlight(e) => e \in alarm_map'
  BY DEF Inv, TokensMatch, InFlight, erase, Entry
<1>3. FiredEntryLives'
  BY Zenon, <1>2 DEF Inv, FiredEntryLives, InFlight
<1>4. TokensMatch'
  <2>1. \A e \in alarm_map' : e \in alarm_map /\ e.node # token[a] /\ (InFlight(e)' <=> InFlight(e))
    BY Zenon DEF erase, InFlight
  <2>2. \A b \in Alarms : isSet(b)' => b # a /\ isSet(b) /\ deadline'[b] = deadline[b]
    BY Zenon DEF isSet, Inv, TypeOK
  <2>3. \A e \in alarm_map' : ~InFlight(e)' => isSet(e.second)' /\ token'[e.second] = e.node
    BY Zenon, <2>1 DEF Inv, TokensMatch, TypeOK, isSet
  <2>4. \A b \in Alarms : isSet(b)' => \E e \in alarm_map' :
                     /\ e = Entry(token[b], deadline'[b], b)
                     /\ ~InFlight(e)'
    <3> SUFFICES ASSUME NEW b \in Alarms, isSet(b)'
                 PROVE  \E e \in alarm_map' :
                     e = Entry(token[b], deadline'[b], b) /\ ~InFlight(e)'
      BY Zenon
    <3>1. PICK e \in alarm_map : e = Entry(token[b], deadline[b], b) /\ ~InFlight(e)
      BY Zenon, <2>2 DEF Inv, TokensMatch
    <3>2. e.node # token[a]
      BY <2>2, <3>1 DEF Inv, TokensMatch, Entry
    <3>3. e \in alarm_map'
      BY Zenon, <3>2 DEF erase
    <3> QED  BY Zenon, <2>1, <2>2, <3>1, <3>3
  <2>5. \A e, f \in alarm_map' : e.node = f.node => e = f
    BY Zenon, <2>1 DEF Inv, TokensMatch
  <2> QED  BY Zenon, <2>3, <2>4, <2>5 DEF TokensMatch
<1>5. ProbeArmed'
  <2>1. deadline'[Probe] = deadline[Probe]
    BY Zenon, EpollAssumption DEF Inv, TypeOK
  <2>2. \A e \in alarm_map' : e \in alarm_map
    BY Zenon DEF erase
  <2> QED  BY Zenon, <1>2, <1>3, <2>1, <2>2, SameFiring
<1> QED  BY Zenon, <1>1, <1>3, <1>4, <1>5 DEF Inv

\* The probe's own callback re-arms it before its entry is erased.
LEMMA ProbeInv == Inv /\ sendProbePacket => Inv'
<1> SUFFICES ASSUME Inv, sendProbePacket PROVE Inv'
  BY Zenon
<1>1. PICK s \in Seconds : update(Probe, s, kMilli)
  BY Zenon DEF sendProbePacket
<1> DEFINE t == now + s * kSecond
           m == IF isSet(Probe) THEN erase(alarm_map, token[Probe]) ELSE alarm_map
           n == FreeNode(m)
<1>2. t \in Nat /\ t # 0 /\ t >= kMilli /\ clock + s * kSecond \in Nat
  BY Later DEF Inv, TypeOK
<1>3. Probe \in Alarms /\ kMilli \in Nat /\ deadline[Probe] \in Nat
  BY Zenon, EpollAssumption DEF Inv, TypeOK
<1>p. pc = "onAlarm" /\ pc' = "erase" /\ current' = current
  BY Zenon DEF sendProbePacket
<1>4. CASE Distance(t, deadline[Probe]) < kMilli
  <2>1. isSet(Probe)
    <3> HIDE DEF t
    <3>1. SUFFICES deadline[Probe] # 0
      BY Zenon DEF isSet
    <3> QED  BY ONLY <1>2, <1>3, <1>4 DEF Distance
  <2>2. UNCHANGED <<deadline, alarm_map, token, due>>
    BY Zenon, <1>1, <1>4 DEF update
  <2> QED
    BY Zenon, <1>p, <2>1, <2>2 DEF Inv, TypeOK, TokensMatch, FiredEntryLives, ProbeArmed,
                      InFlight, isSet, sendProbePacket
<1>5. CASE ~(Distance(t, deadline[Probe]) < kMilli)
  <2>1. /\ deadline' = [deadline EXCEPT ![Probe] = t]
        /\ registerAlarm(m, Probe, t)
        /\ Arm(Probe, s)
    BY Zenon, <1>1, <1>5 DEF update, Unlinked
  <2>2. n \in Nodes /\ \A e \in m : e.node # n
    BY Zenon, <2>1, FreeIsFree DEF registerAlarm
  <2>3. alarm_map' = m \cup {Entry(n, t, Probe)} /\ token' = [token EXCEPT ![Probe] = n]
    BY Zenon, <2>1 DEF registerAlarm
  <2>4. deadline' = [deadline EXCEPT ![Probe] = t]
    BY Zenon, <2>1
  <2>5. m = IF isSet(Probe) THEN erase(alarm_map, token[Probe]) ELSE alarm_map
    BY Zenon
  <2>6. AlarmTypes' /\ TokensMatch' /\ FiredEntryLives'
    <3> HIDE DEF n, t, m
    <3> QED  BY Zenon, <1>2, <1>3, <1>p, <2>2, <2>3, <2>4, <2>5, Rearm
  <2>7. TypeOK'
    BY Zenon, <1>2, <1>p, <2>1, <2>6 DEF Inv, TypeOK, AlarmTypes, Arm, sendProbePacket
  <2>8. ProbeArmed'
    BY Zenon, <1>2, <1>3, <2>4 DEF ProbeArmed, isSet, Inv, TypeOK
  <2> QED  BY Zenon, <2>6, <2>7, <2>8 DEF Inv
<1> QED  BY Zenon, <1>4, <1>5

\* Between iterations of runAlarmEvent no entry is being fired, so the alarm of
\* the first entry is set.
LEMMA AlarmsSet ==
  ASSUME Inv, pc \notin {"onAlarm", "erase"}, NEW e \in alarm_map
  PROVE  e.second \in Alarms /\ isSet(e.second) /\ token[e.second] = e.node
BY Zenon DEF Inv, TypeOK, TokensMatch, InFlight

\* Alarm::fire() up to the delegate's call.
LEMMA FireInv == Inv /\ runAlarmEvent => Inv' /\ pc' = "onAlarm"
<1> SUFFICES ASSUME Inv, runAlarmEvent PROVE Inv' /\ pc' = "onAlarm"
  BY Zenon
<1>1. PICK e \in alarm_map : fire(e)
  BY Zenon DEF runAlarmEvent
<1>2. pc = "alarms" /\ UNCHANGED <<alarm_map, now, token, clock, sample, timeout, due>>
  BY Zenon DEF runAlarmEvent
<1>3. e.second \in Alarms /\ isSet(e.second) /\ token[e.second] = e.node
  BY Zenon, <1>2, AlarmsSet
<1>4. /\ deadline' = [deadline EXCEPT ![e.second] = 0]
      /\ pc' = "onAlarm"
      /\ current' = e.node
  BY Zenon, <1>1, <1>3 DEF fire
<1>5. TypeOK'
  BY Zenon, <1>2, <1>3, <1>4 DEF Inv, TypeOK
<1>6. FiredEntryLives'
  BY Zenon, <1>2, <1>4 DEF FiredEntryLives
<1>7. ProbeArmed'
  BY Zenon, <1>2, <1>4, EpollAssumption DEF Inv, TypeOK, ProbeArmed, isSet, Firing
<1>8. TokensMatch'
  <2>1. \A f \in alarm_map : InFlight(f)' <=> f = e
    BY Zenon, <1>4 DEF InFlight, Inv, TokensMatch
  <2>2. \A f \in alarm_map : f # e => f.second # e.second
    BY <1>2, <1>3, AlarmsSet DEF Inv, TokensMatch
  <2>3. \A f \in alarm_map : f # e => isSet(f.second)' /\ token'[f.second] = f.node
    BY Zenon, <1>2, <1>4, <2>2, AlarmsSet DEF isSet, Inv, TypeOK
  <2>4. \A b \in Alarms : isSet(b)' => \E f \in alarm_map :
                   f = Entry(token[b], deadline'[b], b) /\ ~InFlight(f)'
    <3> SUFFICES ASSUME NEW b \in Alarms, isSet(b)'
                 PROVE  \E f \in alarm_map :
                   f = Entry(token[b], deadline'[b], b) /\ ~InFlight(f)'
      BY Zenon
    <3>1. b # e.second /\ isSet(b) /\ deadline'[b] = deadline[b]
      BY Zenon, <1>3, <1>4 DEF isSet, Inv, TypeOK
    <3>2. PICK f \in alarm_map : f = Entry(token[b], deadline[b], b)
      BY Zenon, <3>1 DEF Inv, TokensMatch
    <3>3. f # e
      BY <3>1, <3>2 DEF Entry
    <3> QED  BY Zenon, <2>1, <3>1, <3>2, <3>3
  <2> QED  BY Zenon, <1>2, <2>1, <2>3, <2>4 DEF TokensMatch, Inv
<1> QED  BY Zenon, <1>4, <1>5, <1>6, <1>7, <1>8 DEF Inv

\* alarm_map_.erase(alarm) at the end of an iteration.
LEMMA EraseInv == Inv /\ EraseFired => Inv'
<1> SUFFICES ASSUME Inv, EraseFired PROVE Inv'
  BY Zenon
<1> USE DEF EraseFired
<1>1. TypeOK'
  BY Zenon DEF Inv, TypeOK, erase
<1>2. FiredEntryLives' /\ ProbeArmed'
  BY Zenon DEF Inv, FiredEntryLives, ProbeArmed, isSet
<1>3. \A e \in alarm_map' : e \in alarm_map /\ ~InFlight(e) /\ ~InFlight(e)'
  BY Zenon DEF erase, InFlight
<1>4. \A e \in alarm_map : ~InFlight(e) => e \in alarm_map'
  BY Zenon DEF erase, InFlight
<1>5. \A b \in Alarms : isSet(b)' => \E e \in alarm_map' :
                   e = Entry(token[b], deadline[b], b) /\ ~InFlight(e)'
  BY Zenon, <1>3, <1>4 DEF Inv, TokensMatch, isSet
<1>6. \A e \in alarm_map' : isSet(e.second)' /\ token'[e.second] = e.node
  BY Zenon, <1>3 DEF Inv, TokensMatch, isSet
<1>7. TokensMatch'
  BY Zenon, <1>3, <1>5, <1>6 DEF Inv, TokensMatch
<1> QED  BY Zenon, <1>1, <1>2, <1>7 DEF Inv

\* The start of an iteration of the loop computes a timeout.
LEMMA LoopTypes == Inv /\ runEventLoop => TypeOK'
<1> SUFFICES ASSUME Inv, runEventLoop PROVE TypeOK'
  BY Zenon
<1>1. now' \in Nat /\ sample' \in Nat
  BY Zenon, TimeOfType DEF Inv, TypeOK, runEventLoop
<1>2. timeout' \in Nat
  <2>1. PICK e \in alarm_map :
          timeout' = Lesser(kSecond, incomingAlarm(e, now')) \div kMilli
    BY Zenon DEF runEventLoop
  <2>2. e.first \in Nat
    BY Zenon DEF Inv, TypeOK
  <2> DEFINE t == now'
             i == incomingAlarm(e, t)
             l == Lesser(kSecond, i)
  <2>3. i \in Nat
    <3> HIDE DEF t
    <3>1. t \in Nat
      BY Zenon, <1>1 DEF t
    <3> QED  BY ONLY <2>2, <3>1 DEF incomingAlarm, i
  <2>4. l \in Nat
    <3> HIDE DEF i
    <3> QED  BY Zenon, <2>3, EpollAssumption DEF Lesser
  <2> HIDE DEF l
  <2>5. kMilli \in Nat \ {0}
    BY Zenon, EpollAssumption
  <2>6. l \div kMilli \in Nat
    BY ONLY <2>4, <2>5
  <2> QED  BY Zenon, <2>1, <2>6 DEF l
<1> QED  BY Zenon, <1>1, <1>2 DEF Inv, TypeOK, runEventLoop

\* Every step keeps the invariant.
LEMMA EpollStep == Inv /\ [Next]_vars => Inv'
<1> SUFFICES ASSUME Inv, [Next]_vars PROVE Inv'
  BY Zenon
<1>1. CASE runEventLoop
  BY Zenon, <1>1, LoopTypes, QuietInv DEF runEventLoop
<1>2. CASE Tick
  <2>1. TypeOK'
    BY <1>2 DEF Inv, TypeOK, Tick
  <2> QED  BY Zenon, <1>2, <2>1, QuietInv DEF Tick
<1>3. CASE FramesArrive
  <2>1. TypeOK'
    BY Zenon, <1>3 DEF Inv, TypeOK, FramesArrive
  <2> QED  BY Zenon, <1>3, <2>1, QuietInv DEF FramesArrive
<1>4. CASE runReadEvent
  <2>1. TypeOK'
    BY Zenon, <1>4 DEF Inv, TypeOK, runReadEvent
  <2> QED  BY Zenon, <1>4, <2>1, QuietInv DEF runReadEvent
<1>5. CASE runAlarmEvent
  BY Zenon, <1>5, FireInv
<1>6. CASE sendProbePacket
  BY Zenon, <1>6, ProbeInv
<1>7. CASE AlarmReturns
  BY Zenon, <1>7 DEF Inv, TypeOK, TokensMatch, FiredEntryLives, ProbeArmed, InFlight,
              isSet, AlarmReturns
<1>8. CASE EraseFired
  BY Zenon, <1>8, EraseInv
<1>9. CASE LoopReturns
  <2>1. TypeOK'
    BY Zenon, <1>9 DEF Inv, TypeOK, LoopReturns
  <2> QED  BY Zenon, <1>9, <2>1, QuietInv DEF LoopReturns
<1>10. CASE UserSets
  <2>1. PICK a \in Alarms \ {Probe}, s \in Seconds : set(a, s)
    BY Zenon, <1>10 DEF UserSets
  <2>2. UNCHANGED <<now, pc, current, clock, sample, timeout>>
    BY Zenon, <1>10 DEF UserSets
  <2>3. alarm_map = IF isSet(a) THEN erase(alarm_map, token[a]) ELSE alarm_map
    BY Zenon, <2>1 DEF set
  <2> QED  BY Zenon, <2>1, <2>2, <2>3, ArmInv DEF set
<1>11. CASE UserUpdates
  <2>1. PICK a \in Alarms \ {Probe}, s \in Seconds, g \in {kMilli, kSecond} :
          update(a, s, g)
    BY Zenon, <1>11 DEF UserUpdates
  <2>2. UNCHANGED <<now, pc, current, clock, sample, timeout>>
    BY Zenon, <1>11 DEF UserUpdates
  <2>3. CASE Distance(now + s * kSecond, deadline[a]) < g
    <3>1. UNCHANGED <<deadline, alarm_map, token, due>>
      BY Zenon, <2>1, <2>3 DEF update
    <3>2. TypeOK'
      BY Zenon, <2>2, <3>1 DEF Inv, TypeOK
    <3> QED  BY Zenon, <2>2, <3>1, <3>2, QuietInv
  <2>4. CASE ~(Distance(now + s * kSecond, deadline[a]) < g)
    <3> DEFINE m == IF isSet(a) THEN erase(alarm_map, token[a]) ELSE alarm_map
    <3>1. /\ deadline' = [deadline EXCEPT ![a] = now + s * kSecond]
          /\ registerAlarm(m, a, now + s * kSecond)
          /\ Arm(a, s)
      BY Zenon, <2>1, <2>4 DEF update, Unlinked
    <3>2. m = IF isSet(a) THEN erase(alarm_map, token[a]) ELSE alarm_map
      BY Zenon
    <3> HIDE DEF m
    <3> QED  BY Zenon, <2>2, <3>1, <3>2, ArmInv
  <2> QED  BY Zenon, <2>3, <2>4
<1>12. CASE UserCancels
  BY Zenon, <1>12, CancelInv DEF UserCancels
<1>13. CASE UNCHANGED vars
  BY Zenon, <1>13, QuietInv DEF vars, Inv, TypeOK
<1> QED
  BY Zenon, <1>1, <1>2, <1>3, <1>4, <1>5, <1>6, <1>7, <1>8, <1>9, <1>10, <1>11, <1>12,
     <1>13 DEF Next

\* The invariant holds throughout.
THEOREM EpollInvariant == Spec => []Inv
BY EpollInit, EpollStep, PTL DEF Spec

\* alarm_map_, the alarms' deadlines and their tokens agree at every step of
\* the loop and of the callbacks, and runAlarmEvent's iterator stays valid.
THEOREM EpollTokens == Spec => [](TypeOK /\ TokensMatch /\ FiredEntryLives)
<1>1. Inv => TypeOK /\ TokensMatch /\ FiredEntryLives
  BY Zenon DEF Inv
<1> QED  BY <1>1, EpollInvariant, PTL

\* incomingAlarm() never dereferences begin() of an empty map.
THEOREM EpollMap == Spec => []MapNeverEmpty
<1>1. Inv => MapNeverEmpty
  BY Zenon, EpollAssumption DEF Inv, ProbeArmed, TokensMatch, MapNeverEmpty
<1> QED  BY <1>1, EpollInvariant, PTL

\* Alarm::fire() never takes its early return.
THEOREM EpollFires == Spec => FiresSetAlarms
<1>1. Inv /\ [Next]_vars => [pc = "alarms" => pc' # "erase"]_vars
  <2> SUFFICES ASSUME Inv, Next, pc = "alarms" PROVE pc' # "erase"
    BY Zenon DEF vars
  <2>1. CASE runAlarmEvent
    BY Zenon, <2>1, FireInv
  <2>2. CASE LoopReturns
    BY Zenon, <2>2 DEF LoopReturns
  <2> QED
    BY Zenon, <2>1, <2>2 DEF Next, runEventLoop, Tick, FramesArrive, runReadEvent,
       sendProbePacket, AlarmReturns, EraseFired, UserSets, UserUpdates,
       UserCancels, UserCanRun
<1> QED  BY <1>1, EpollInvariant, PTL DEF Spec, FiresSetAlarms

-----------------------------------------------------------------------------
(* Times of the loop and real times.                                       *)

(* The constants as numbers.                                               *)
LEMMA Units ==
  /\ kSecond \in Nat \ {0} /\ kMilli \in Nat \ {0}
  /\ kSecond >= kMilli /\ kSecond >= kMilli * kMilli /\ kSecond >= 2 * kMilli - 1
<1>1. kMilli \in Nat /\ kMilli >= 1 /\ kSecond \in Nat /\ kSecond >= kMilli
      /\ kSecond >= kMilli * kMilli
  BY EpollAssumption
<1>2. kMilli * kMilli >= 2 * kMilli - 1
  <2>1. CASE kMilli = 1
    BY ONLY <2>1
  <2>2. CASE kMilli >= 2
    <3>1. kMilli * kMilli >= 2 * kMilli
      BY ONLY <1>1, <2>2
    <3> QED BY ONLY <1>1, <3>1
  <2> QED BY ONLY <1>1, <2>1, <2>2
<1>3. kMilli * kMilli \in Nat
  BY <1>1
<1> QED BY ONLY <1>1, <1>2, <1>3

(* Quotient and remainder.                                                 *)
LEMMA DivMod ==
  ASSUME NEW n \in Nat, NEW d \in Nat \ {0}
  PROVE  /\ n \div d \in Nat /\ n % d \in 0..(d - 1)
         /\ n = (n \div d) * d + (n % d)
OBVIOUS

(* They are the only ones.                                                 *)
LEMMA DivModUnique ==
  ASSUME NEW d \in Nat \ {0}, NEW q \in Nat, NEW r \in 0..(d - 1)
  PROVE  (q * d + r) \div d = q /\ (q * d + r) % d = r
<1> DEFINE n == q * d + r
           p == n \div d
           x == n % d
<1>1. n \in Nat
  OBVIOUS
<1>2. p \in Nat /\ x \in 0..(d - 1) /\ n = p * d + x
  BY Zenon, <1>1, DivMod
<1>3. q * d + r = p * d + x
  BY Zenon, <1>2
<1> SUFFICES p = q /\ x = r
  BY Zenon
<1> HIDE DEF p, x, n
<1>4. ~(p < q)
  <2> SUFFICES ASSUME p < q PROVE FALSE
    BY Zenon
  <2>1. PICK k \in Nat : q = p + 1 + k
    <3>1. q - p - 1 \in Nat
      BY <1>2
    <3> QED BY <1>2, <3>1
  <2>2. q * d = p * d + d + k * d
    BY <1>2, <2>1
  <2>3. k * d \in Nat /\ p * d \in Nat /\ q * d \in Nat
    BY <1>2
  <2> QED BY ONLY <1>2, <1>3, <2>2, <2>3, r \in 0..(d - 1), d \in Nat
<1>5. ~(q < p)
  <2> SUFFICES ASSUME q < p PROVE FALSE
    BY Zenon
  <2>1. PICK k \in Nat : p = q + 1 + k
    <3>1. p - q - 1 \in Nat
      BY <1>2
    <3> QED BY <1>2, <3>1
  <2>2. p * d = q * d + d + k * d
    BY <1>2, <2>1
  <2>3. k * d \in Nat /\ p * d \in Nat /\ q * d \in Nat
    BY <1>2
  <2> QED BY ONLY <1>2, <1>3, <2>2, <2>3, r \in 0..(d - 1), d \in Nat
<1>6. p = q
  BY <1>2, <1>4, <1>5
<1>7. q * d \in Nat
  OBVIOUS
<1> QED BY <1>2, <1>3, <1>6, <1>7
(* A time that updateNow() can give, whose milliseconds are fewer than a   *)
(* second has.                                                             *)
Exact(t) == t \in Nat /\ (t % kSecond) * kMilli < kSecond

(* The numbers a time of the loop is made of.                              *)
LEMMA ExactParts ==
  ASSUME NEW t, Exact(t)
  PROVE  \E q \in Nat, m \in Nat :
           /\ t = q * kSecond + m /\ RealTime(t) = q * kSecond + m * kMilli
           /\ m < kSecond /\ m * kMilli < kSecond
<1> DEFINE q == t \div kSecond
           m == t % kSecond
<1>1. q \in Nat /\ m \in 0..(kSecond - 1) /\ t = q * kSecond + m
  BY Zenon, Units, DivMod DEF Exact
<1>2. m * kMilli < kSecond /\ RealTime(t) = m * kMilli + q * kSecond
  BY Zenon DEF Exact, RealTime
<1> HIDE DEF q, m
<1>3. m \in Nat /\ m < kSecond /\ m * kMilli \in Nat /\ q * kSecond \in Nat
  BY <1>1, Units
<1>4. m * kMilli + q * kSecond = q * kSecond + m * kMilli
  BY <1>3
<1> QED BY Zenon, <1>1, <1>2, <1>3, <1>4

(* And what those numbers make.                                            *)
LEMMA PartsExact ==
  ASSUME NEW q \in Nat, NEW m \in Nat, m < kSecond, m * kMilli < kSecond
  PROVE  /\ Exact(q * kSecond + m)
         /\ RealTime(q * kSecond + m) = q * kSecond + m * kMilli
<1> DEFINE t == q * kSecond + m
<1>1. m \in 0..(kSecond - 1) /\ kSecond \in Nat \ {0}
  BY Units
<1>2. t \div kSecond = q /\ t % kSecond = m
  BY Zenon, <1>1, DivModUnique
<1>3. t \in Nat /\ q * kSecond \in Nat /\ m * kMilli \in Nat
  BY Units
<1> HIDE DEF t
<1>4. Exact(t) /\ RealTime(t) = m * kMilli + q * kSecond
  BY Zenon, <1>2, <1>3 DEF Exact, RealTime
<1> QED BY <1>3, <1>4 DEF t

(* The numbers a real time is made of.                                     *)
LEMMA ClockParts ==
  ASSUME NEW u \in Nat
  PROVE  \E q \in Nat, m \in Nat, r \in Nat :
           /\ u = q * kSecond + m * kMilli + r /\ r < kMilli
           /\ m * kMilli + r < kSecond /\ m < kSecond /\ m * kMilli < kSecond
           /\ TimeOf(u) = q * kSecond + m
<1> DEFINE q == u \div kSecond
           x == u % kSecond
           m == x \div kMilli
           r == x % kMilli
<1>1. q \in Nat /\ x \in 0..(kSecond - 1) /\ u = q * kSecond + x
  BY Zenon, Units, DivMod
<1>2. x \in Nat
  BY <1>1, Units
<1>3. m \in Nat /\ r \in 0..(kMilli - 1) /\ x = m * kMilli + r
  BY Zenon, <1>2, Units, DivMod
<1>4. TimeOf(u) = m + q * kSecond
  BY Zenon DEF TimeOf
<1> HIDE DEF q, x, m, r
<1>5. m * kMilli \in Nat /\ m * kMilli >= m /\ q * kSecond \in Nat
  BY <1>1, <1>3, Units
<1>6. r \in Nat /\ r < kMilli
  BY <1>3, Units
<1>7. /\ u = q * kSecond + m * kMilli + r /\ m * kMilli + r < kSecond
      /\ m < kSecond /\ m * kMilli < kSecond
      /\ TimeOf(u) = q * kSecond + m
  BY <1>1, <1>2, <1>3, <1>4, <1>5, <1>6, Units
<1> QED BY Zenon, <1>1, <1>3, <1>6, <1>7

(* The time updateNow() reads stands for the real time, to the millisecond.*)
LEMMA TimeOfExact ==
  ASSUME NEW u \in Nat
  PROVE  /\ Exact(TimeOf(u)) /\ RealTime(TimeOf(u)) \in Nat
         /\ RealTime(TimeOf(u)) <= u /\ u < RealTime(TimeOf(u)) + kMilli
<1>1. PICK q \in Nat, m \in Nat, r \in Nat :
           /\ u = q * kSecond + m * kMilli + r /\ r < kMilli
           /\ m * kMilli + r < kSecond /\ m < kSecond /\ m * kMilli < kSecond
           /\ TimeOf(u) = q * kSecond + m
  BY Zenon, ClockParts
<1>2. Exact(TimeOf(u)) /\ RealTime(TimeOf(u)) = q * kSecond + m * kMilli
  BY Zenon, <1>1, PartsExact
<1>3. q * kSecond \in Nat /\ m * kMilli \in Nat
  BY Units
<1> QED BY <1>1, <1>2, <1>3, Units

(* Whole seconds are the same in both.                                     *)
LEMMA SecondsLater ==
  ASSUME NEW t, Exact(t), NEW s \in Nat
  PROVE  Exact(t + s * kSecond) /\ RealTime(t + s * kSecond) = RealTime(t) + s * kSecond
<1>1. PICK q \in Nat, m \in Nat :
           /\ t = q * kSecond + m /\ RealTime(t) = q * kSecond + m * kMilli
           /\ m < kSecond /\ m * kMilli < kSecond
  BY Zenon, ExactParts
<1>2. t + s * kSecond = (q + s) * kSecond + m
  BY <1>1, Units
<1>3. /\ Exact((q + s) * kSecond + m)
      /\ RealTime((q + s) * kSecond + m) = (q + s) * kSecond + m * kMilli
  BY <1>1, PartsExact
<1>4. (q + s) * kSecond + m * kMilli = q * kSecond + m * kMilli + s * kSecond
  BY Units
<1> QED BY Zenon, <1>1, <1>2, <1>3, <1>4

(* One second more is more than all of a second's milliseconds.            *)
LEMMA SecondsOrder ==
  ASSUME NEW p \in Nat, NEW q \in Nat, p < q
  PROVE  p * kSecond + kSecond <= q * kSecond
<1>1. PICK k \in Nat : q = p + 1 + k
  <2>1. q - p - 1 \in Nat
    OBVIOUS
  <2> QED BY <2>1
<1>2. q * kSecond = p * kSecond + kSecond + k * kSecond
  BY <1>1, Units
<1>3. k * kSecond \in Nat /\ p * kSecond \in Nat
  BY Units
<1> QED BY ONLY <1>2, <1>3, Units

(* The loop compares its times as it would compare the real ones.          *)
LEMMA SameOrder ==
  ASSUME NEW t, Exact(t), NEW u \in Nat
  PROVE  t <= TimeOf(u) <=> RealTime(t) <= u
<1>1. PICK p \in Nat, n \in Nat :
           /\ t = p * kSecond + n /\ RealTime(t) = p * kSecond + n * kMilli
           /\ n < kSecond /\ n * kMilli < kSecond
  BY Zenon, ExactParts
<1>2. PICK q \in Nat, m \in Nat, r \in Nat :
           /\ u = q * kSecond + m * kMilli + r /\ r < kMilli
           /\ m * kMilli + r < kSecond /\ m < kSecond /\ m * kMilli < kSecond
           /\ TimeOf(u) = q * kSecond + m
  BY Zenon, ClockParts
<1>3. /\ p * kSecond \in Nat /\ q * kSecond \in Nat /\ n * kMilli \in Nat
      /\ m * kMilli \in Nat /\ kSecond \in Nat
  BY Units
<1>4. CASE p < q
  <2>1. p * kSecond + kSecond <= q * kSecond
    BY Zenon, <1>4, SecondsOrder
  <2> QED BY <1>1, <1>2, <1>3, <2>1
<1>5. CASE q < p
  <2>1. q * kSecond + kSecond <= p * kSecond
    BY Zenon, <1>5, SecondsOrder
  <2> QED BY <1>1, <1>2, <1>3, <2>1
<1>6. CASE p = q
  <2>1. n <= m <=> n * kMilli <= m * kMilli + r
    <3>1. CASE n <= m
      <4>1. PICK k \in Nat : m = n + k
        <5>1. m - n \in Nat
          BY <3>1
        <5> QED BY <5>1
      <4>2. m * kMilli = n * kMilli + k * kMilli /\ k * kMilli \in Nat
        BY <4>1, Units
      <4> QED BY <1>3, <3>1, <4>2
    <3>2. CASE m < n
      <4>1. PICK k \in Nat : n = m + 1 + k
        <5>1. n - m - 1 \in Nat
          BY <3>2
        <5> QED BY <5>1
      <4>2. n * kMilli = m * kMilli + kMilli + k * kMilli /\ k * kMilli \in Nat
        BY <4>1, Units
      <4> QED BY <1>2, <1>3, <3>2, <4>2, Units
    <3> QED BY <3>1, <3>2
  <2> QED BY <1>1, <1>2, <1>3, <1>6, <2>1
<1> QED BY <1>4, <1>5, <1>6

(* A timeout w, in real time, that the loop computes at time u for a       *)
(* deadline t to come ends less than a second after the deadline.          *)
LEMMA SleepBound ==
  ASSUME NEW t, Exact(t), NEW u \in Nat, u < RealTime(t), NEW w \in Nat,
         w <= kSecond, w <= t - TimeOf(u)
  PROVE  u + w + kMilli <= RealTime(t) + kSecond
<1>1. PICK p \in Nat, n \in Nat :
           /\ t = p * kSecond + n /\ RealTime(t) = p * kSecond + n * kMilli
           /\ n < kSecond /\ n * kMilli < kSecond
  BY Zenon, ExactParts
<1>2. PICK q \in Nat, m \in Nat, r \in Nat :
           /\ u = q * kSecond + m * kMilli + r /\ r < kMilli
           /\ m * kMilli + r < kSecond /\ m < kSecond /\ m * kMilli < kSecond
           /\ TimeOf(u) = q * kSecond + m
  BY Zenon, ClockParts
<1>3. /\ p * kSecond \in Nat /\ q * kSecond \in Nat /\ n * kMilli \in Nat
      /\ m * kMilli \in Nat /\ kSecond \in Nat /\ n * kMilli >= n
  BY Units
<1>4. ~(p < q)
  <2> SUFFICES ASSUME p < q PROVE FALSE
    BY Zenon
  <2>1. p * kSecond + kSecond <= q * kSecond
    BY Zenon, SecondsOrder
  <2> QED BY <1>1, <1>2, <1>3, <2>1
<1>5. CASE p = q
  <2>1. w <= n - m
    BY <1>1, <1>2, <1>3, <1>5
  <2>2. n + kMilli <= kSecond + 1
    <3>1. CASE kMilli = 1
      BY <1>1, <3>1, Units
    <3>2. CASE kMilli >= 2
      <4>1. n * kMilli >= 2 * n
        BY <3>2, Units
      <4>2. kMilli * kMilli >= 2 * kMilli /\ kMilli * kMilli \in Nat
        BY <3>2, Units
      <4> QED BY <1>1, <1>3, <4>1, <4>2, Units
    <3> QED BY <3>1, <3>2, Units
  <2>3. u + 1 <= RealTime(t)
    BY <1>1, <1>2, <1>3
  <2> QED BY <1>1, <1>2, <1>3, <2>1, <2>2, <2>3, Units
<1>6. CASE p = q + 1
  <2>1. p * kSecond = q * kSecond + kSecond
    BY <1>6, Units
  <2>2. w <= kSecond + n - m
    BY <1>1, <1>2, <1>3, <2>1
  <2>3. m * kMilli + r + kMilli - m <= kSecond
    <3>1. CASE m >= kMilli - 1
      BY <1>2, <1>3, <3>1, Units
    <3>2. CASE m <= kMilli - 2
      <4>1. kMilli - 2 - m \in Nat
        BY <3>2, Units
      <4>2. PICK k \in Nat : kMilli = m + 2 + k
        <5>1. kMilli = m + 2 + (kMilli - 2 - m)
          BY Units
        <5> QED BY Zenon, <4>1, <5>1
      <4>3. kMilli * kMilli = m * kMilli + 2 * kMilli + k * kMilli /\ k * kMilli \in Nat
        BY <4>2, Units
      <4> QED BY <1>2, <1>3, <4>3, Units
    <3> QED BY <3>1, <3>2, Units
  <2> QED BY <1>1, <1>2, <1>3, <2>1, <2>2, <2>3, Units
<1>7. CASE q + 1 < p
  <2>1. (q + 1) * kSecond + kSecond <= p * kSecond
    BY <1>7, SecondsOrder
  <2>2. (q + 1) * kSecond = q * kSecond + kSecond
    BY Units
  <2> QED BY <1>1, <1>2, <1>3, <2>1, <2>2, Units
<1> QED BY <1>4, <1>5, <1>6, <1>7
-----------------------------------------------------------------------------
(* The invariant of the times.                                             *)

Wait == timeout * kMilli

(* The alarm a is due when the loop has to have it: the loop has seen that *)
(* its time has come and does not sleep, or it will be awake less than a   *)
(* second after that time.                                                 *)
Punctual(a) ==
  LET x == RealTime(deadline[a])
  IN  /\ Exact(deadline[a])
      /\ due[a] < x + Staleness(a) + 2 * kMilli
      /\ pc = "top" => sample < x
      /\ sample < x => sample + Wait + kMilli <= x + kSecond
      /\ x <= sample => timeout = 0 /\ sample <= x + kSecond

LoopTime ==
  /\ now = TimeOf(sample)
  /\ sample <= clock /\ clock <= sample + Wait + kMilli
  /\ Wait <= kSecond
  /\ pc = "onAlarm" => timeout = 0

Timing == LoopTime /\ \A a \in Alarms : isSet(a) => Punctual(a)
(* The numbers of a state.                                                 *)
LEMMA TimingTypes ==
  ASSUME Inv, Timing
  PROVE  /\ now \in Nat /\ clock \in Nat /\ sample \in Nat /\ timeout \in Nat /\ Wait \in Nat
         /\ deadline \in [Alarms -> Nat] /\ due \in [Alarms -> Nat]
         /\ \A a \in Alarms : isSet(a) => RealTime(deadline[a]) \in Nat \ {0}
         /\ \A a \in Alarms : Staleness(a) \in Nat
<1>1. /\ now \in Nat /\ clock \in Nat /\ sample \in Nat /\ timeout \in Nat
      /\ deadline \in [Alarms -> Nat] /\ due \in [Alarms -> Nat]
  BY Zenon DEF Inv, TypeOK
<1>2. Wait \in Nat
  BY <1>1, Units DEF Wait
<1>3. ASSUME NEW a \in Alarms, isSet(a) PROVE RealTime(deadline[a]) \in Nat \ {0}
  <2>1. deadline[a] # 0 /\ Exact(deadline[a])
    BY Zenon, <1>3 DEF isSet, Timing, Punctual
  <2>2. PICK q \in Nat, m \in Nat :
           deadline[a] = q * kSecond + m /\ RealTime(deadline[a]) = q * kSecond + m * kMilli
    BY Zenon, <2>1, ExactParts
  <2>3. q * kSecond \in Nat /\ m * kMilli \in Nat /\ m * kMilli >= m
    BY Units
  <2> QED BY <2>1, <2>2, <2>3
<1>4. \A a \in Alarms : Staleness(a) \in Nat
  BY Zenon, Units DEF Staleness
<1> QED BY Zenon, <1>1, <1>2, <1>3, <1>4

(* The real time of a new deadline.                                        *)
LEMMA NewDeadline ==
  ASSUME Inv, Timing, NEW s \in Seconds
  PROVE  LET x == RealTime(now + s * kSecond)
         IN  /\ Exact(now + s * kSecond) /\ x \in Nat \ {0} /\ s * kSecond \in Nat
             /\ x <= sample + s * kSecond /\ sample + s * kSecond < x + kMilli
             /\ sample + kSecond < x + kMilli
<1>1. sample \in Nat /\ now = TimeOf(sample) /\ s \in Nat /\ s >= 1
  BY EpollAssumption DEF Inv, TypeOK, Timing, LoopTime
<1>2. /\ Exact(now) /\ RealTime(now) \in Nat
      /\ RealTime(now) <= sample /\ sample < RealTime(now) + kMilli
  BY Zenon, <1>1, TimeOfExact
<1>3. Exact(now + s * kSecond) /\ RealTime(now + s * kSecond) = RealTime(now) + s * kSecond
  BY Zenon, <1>1, <1>2, SecondsLater
<1>4. s * kSecond \in Nat /\ s * kSecond >= kSecond
  BY <1>1, Units
<1> QED BY <1>1, <1>2, <1>3, <1>4, Units

(* Arming an alarm: now_ may be as old as the loop has slept, and is fresh *)
(* in the callback of the probe.                                           *)
LEMMA ArmTiming ==
  ASSUME Inv, Timing, NEW a \in Alarms, NEW s \in Seconds,
         deadline' = [deadline EXCEPT ![a] = now + s * kSecond], Arm(a, s),
         UNCHANGED <<now, clock, sample, timeout>>,
         pc # "top", pc' = pc \/ pc' = "erase", a = Probe => timeout = 0
  PROVE  Timing'
<1> DEFINE x == RealTime(now + s * kSecond)
<1>1. /\ Exact(now + s * kSecond) /\ x \in Nat \ {0} /\ s * kSecond \in Nat
      /\ sample + s * kSecond < x + kMilli /\ sample + kSecond < x + kMilli
  BY Zenon, NewDeadline
<1>2. /\ now \in Nat /\ clock \in Nat /\ sample \in Nat /\ timeout \in Nat /\ Wait \in Nat
      /\ deadline \in [Alarms -> Nat] /\ due \in [Alarms -> Nat] /\ Staleness(a) \in Nat
  BY Zenon, TimingTypes
<1>3. LoopTime'
  BY Zenon DEF Timing, LoopTime, Wait
<1>4. ASSUME NEW b \in Alarms, b # a, isSet(b)' PROVE Punctual(b)'
  <2>1. isSet(b) /\ deadline'[b] = deadline[b] /\ due'[b] = due[b] /\ pc' # "top"
    BY Zenon, <1>2, <1>4 DEF isSet, Arm
  <2>2. Punctual(b)
    BY Zenon, <2>1 DEF Timing
  <2> QED BY Zenon, <2>1, <2>2 DEF Punctual, Wait, Staleness
<1>5. Punctual(a)'
  <2>1. deadline'[a] = now + s * kSecond /\ due'[a] = clock + s * kSecond /\ pc' # "top"
    BY Zenon, <1>2 DEF Arm
  <2>2. Wait <= kSecond /\ clock <= sample + Wait + kMilli
    BY Zenon DEF Timing, LoopTime
  <2>3. sample < x /\ sample + Wait + kMilli <= x + kSecond
    <3> HIDE DEF x
    <3> QED BY <1>1, <1>2, <2>2, Units
  <2>4. clock + s * kSecond < x + Staleness(a) + 2 * kMilli
    <3> HIDE DEF x
    <3>1. CASE a = Probe
      <4>1. Wait = 0 /\ Staleness(a) = 0
        BY <3>1, Units DEF Wait, Staleness
      <4> QED BY <1>1, <1>2, <2>2, <4>1, Units
    <3>2. CASE a # Probe
      <4>1. Staleness(a) = kSecond
        BY Zenon, <3>2 DEF Staleness
      <4> QED BY <1>1, <1>2, <2>2, <4>1, Units
    <3> QED BY Zenon, <3>1, <3>2
  <2>5. Staleness(a)' = Staleness(a) /\ Wait' = Wait
    BY Zenon DEF Staleness, Wait
  <2>6. ~(x <= sample)
    <3> HIDE DEF x
    <3> QED BY <1>1, <1>2, <2>3
  <2> QED BY Zenon, <1>1, <2>1, <2>3, <2>4, <2>5, <2>6 DEF Punctual
<1> QED BY Zenon, <1>3, <1>4, <1>5 DEF Timing

(* Steps that change neither deadlines nor times.                          *)
LEMMA QuietTiming ==
  ASSUME Timing, UNCHANGED <<now, clock, sample, timeout, due>>, pc' # "top" \/ pc = "top",
         \A a \in Alarms : isSet(a)' => isSet(a) /\ deadline'[a] = deadline[a],
         pc' = "onAlarm" => timeout = 0
  PROVE  Timing'
<1>1. LoopTime'
  BY Zenon DEF Timing, LoopTime, Wait
<1>2. ASSUME NEW a \in Alarms, isSet(a)' PROVE Punctual(a)'
  <2>1. Punctual(a) /\ deadline'[a] = deadline[a]
    BY Zenon, <1>2 DEF Timing
  <2> QED BY Zenon, <2>1 DEF Punctual, Wait, Staleness
<1> QED BY Zenon, <1>1, <1>2 DEF Timing

(* Every set alarm has its entry.                                          *)
LEMMA HasEntry ==
  ASSUME Inv, NEW a \in Alarms, isSet(a)
  PROVE  \E e \in alarm_map : e.first = deadline[a] /\ e.second = a
BY DEF Inv, TokensMatch, Entry

(* The first entry is that of a set alarm, at its deadline.                *)
LEMMA EntryIsSet ==
  ASSUME Inv, pc \notin {"onAlarm", "erase"}, NEW e \in alarm_map
  PROVE  e.second \in Alarms /\ isSet(e.second) /\ deadline[e.second] = e.first
<1>1. e.second \in Alarms /\ isSet(e.second) /\ token[e.second] = e.node
  BY Zenon, AlarmsSet
<1>2. PICK f \in alarm_map : f = Entry(token[e.second], deadline[e.second], e.second)
  BY Zenon, <1>1 DEF Inv, TokensMatch
<1>3. f.node = e.node
  BY Zenon, <1>1, <1>2 DEF Entry
<1>4. f = e
  BY Zenon, <1>3 DEF Inv, TokensMatch
<1> QED BY <1>1, <1>2, <1>4 DEF Entry

(* The loop looks at the time and computes how long it may sleep.          *)
LEMMA LoopTiming == Inv /\ Timing /\ runEventLoop => Timing'
<1> SUFFICES ASSUME Inv, Timing, runEventLoop PROVE Timing'
  BY Zenon
<1>1. /\ now \in Nat /\ clock \in Nat /\ sample \in Nat /\ Wait \in Nat
      /\ deadline \in [Alarms -> Nat]
  BY Zenon, TimingTypes
<1>2. /\ pc = "top" /\ pc' = "wait" /\ sample' = clock /\ now' = TimeOf(clock)
      /\ UNCHANGED <<alarm_map, deadline, clock, due>>
  BY Zenon DEF runEventLoop
<1> DEFINE n == TimeOf(clock)
<1>3. n \in Nat
  BY Zenon, <1>1, TimeOfType
<1>4. PICK e \in alarm_map :
        IsBegin(alarm_map, e) /\ timeout' = Lesser(kSecond, incomingAlarm(e, n)) \div kMilli
  BY Zenon, <1>2 DEF runEventLoop
<1>5. e.first \in Nat
  BY Zenon DEF Inv, TypeOK
<1> DEFINE l == Lesser(kSecond, incomingAlarm(e, n))
<1>6. l \in Nat /\ l <= kSecond /\ (e.first <= n => l = 0) /\ (n < e.first => l <= e.first - n)
  <2> HIDE DEF n
  <2> QED BY <1>3, <1>5, Units DEF Lesser, incomingAlarm
<1>7. timeout' \in Nat /\ Wait' \in Nat /\ Wait' <= l /\ (l = 0 => timeout' = 0)
  <2> HIDE DEF l
  <2>1. timeout' = l \div kMilli
    BY Zenon, <1>4 DEF l
  <2>2. l \div kMilli \in Nat /\ l % kMilli \in 0..(kMilli - 1)
        /\ l = (l \div kMilli) * kMilli + (l % kMilli)
    BY Zenon, <1>6, Units, DivMod
  <2> DEFINE k == l \div kMilli
             r == l % kMilli
  <2>3. k \in Nat /\ r \in Nat /\ l = k * kMilli + r
    BY <2>2, Units
  <2>4. timeout' = k /\ Wait' = k * kMilli
    BY Zenon, <2>1 DEF Wait
  <2> HIDE DEF k, r
  <2>5. k * kMilli \in Nat /\ k * kMilli >= k
    BY <2>3, Units
  <2>6. k * kMilli <= l /\ (l = 0 => k = 0)
    BY <1>6, <2>3, <2>5
  <2> QED BY Zenon, <2>3, <2>4, <2>5, <2>6
<1> HIDE DEF l
<1>8. LoopTime'
  <2>1. Wait' <= kSecond /\ clock <= clock + Wait' + kMilli
    <3> HIDE DEF n
    <3>1. l \in Nat /\ l <= kSecond
      BY Zenon, <1>6
    <3>2. PICK w \in Nat : w = Wait' /\ w <= l
      BY Zenon, <1>7
    <3>3. clock \in Nat /\ kMilli \in Nat /\ kSecond \in Nat
      BY Zenon, <1>1, Units
    <3>4. w <= kSecond
      BY ONLY <3>1, <3>2, <3>3
    <3>5. clock <= clock + w + kMilli
      BY ONLY <3>3, w \in Nat
    <3> QED BY Zenon, <3>2, <3>4, <3>5
  <2> QED BY <1>1, <1>2, <2>1 DEF LoopTime
<1>9. ASSUME NEW a \in Alarms, isSet(a)' PROVE Punctual(a)'
  <2> DEFINE t == deadline[a]
             x == RealTime(t)
  <2>1. isSet(a) /\ Punctual(a) /\ t \in Nat /\ x \in Nat
    BY Zenon, <1>1, <1>2, <1>9, TimingTypes DEF isSet, Timing
  <2>2. Exact(t) /\ due[a] < x + Staleness(a) + 2 * kMilli
    BY Zenon, <2>1 DEF Punctual
  <2>3. clock <= x + kSecond
    <3>1. sample + Wait + kMilli <= x + kSecond
      BY Zenon, <1>2, <2>1 DEF Punctual
    <3>2. clock <= sample + Wait + kMilli
      BY Zenon DEF Timing, LoopTime
    <3> HIDE DEF x
    <3> QED BY <1>1, <2>1, <3>1, <3>2, Units
  <2>4. e.first <= t
    <3>1. PICK f \in alarm_map : f.first = t
      BY Zenon, <2>1, HasEntry
    <3> QED BY Zenon, <1>4, <3>1 DEF IsBegin
  <2>5. t <= n <=> x <= clock
    BY Zenon, <1>1, <2>2, SameOrder
  <2>6. x <= clock => timeout' = 0
    <3> HIDE DEF n, x, t
    <3> QED BY <1>3, <1>5, <1>6, <1>7, <2>1, <2>4, <2>5
  <2>7. clock < x => clock + Wait' + kMilli <= x + kSecond
    <3> SUFFICES ASSUME clock < x PROVE clock + Wait' + kMilli <= x + kSecond
      BY Zenon
    <3>1. Wait' <= t - n /\ Wait' <= kSecond
      <4> HIDE DEF n, x, t
      <4>1. n < t
        BY <1>1, <1>3, <2>1, <2>5
      <4>2. CASE e.first <= n
        BY <1>3, <1>6, <1>7, <2>1, <4>1, <4>2, Units
      <4>3. CASE n < e.first
        BY <1>3, <1>5, <1>6, <1>7, <2>1, <2>4, <4>1, <4>3, Units
      <4> QED BY <1>3, <1>5, <4>2, <4>3
    <3> QED BY Zenon, <1>1, <1>7, <2>2, <3>1, SleepBound
  <2>8. deadline'[a] = t /\ due'[a] = due[a] /\ Staleness(a)' = Staleness(a)
    BY Zenon, <1>2 DEF Staleness
  <2> HIDE DEF n, x
  <2>9. x = RealTime(deadline'[a])
    BY Zenon, <2>8 DEF x
  <2> QED BY Zenon, <1>2, <2>2, <2>3, <2>6, <2>7, <2>8, <2>9 DEF Punctual
<1> QED BY Zenon, <1>8, <1>9 DEF Timing
(* The real time at which an alarm is to fire, as the promise has it.      *)
Expiry == [a \in Alarms |-> IF isSet(a) THEN RealTime(deadline[a]) ELSE 0]

(* An alarm the loop has found to be due: it has seen its time, and has    *)
(* not slept since.                                                        *)
LEMMA FireTiming ==
  ASSUME Inv, Timing, runAlarmEvent
  PROVE  \E a \in Alarms :
           /\ isSet(a) /\ RealTime(deadline[a]) <= sample /\ timeout = 0
           /\ deadline' = [deadline EXCEPT ![a] = 0]
           /\ pc' = "onAlarm" /\ UNCHANGED <<now, clock, sample, timeout, due>>
<1>1. PICK e \in alarm_map : Elapsed(e) /\ fire(e)
  BY Zenon DEF runAlarmEvent
<1>2. pc = "alarms" /\ UNCHANGED <<now, clock, sample, timeout, due>>
  BY Zenon DEF runAlarmEvent
<1>3. e.second \in Alarms /\ isSet(e.second) /\ deadline[e.second] = e.first
  BY Zenon, <1>2, EntryIsSet
<1>4. Punctual(e.second) /\ now = TimeOf(sample) /\ sample \in Nat
  BY Zenon, <1>3 DEF Timing, LoopTime, Inv, TypeOK
<1>5. e.first <= TimeOf(sample)
  <2>1. now >= e.first /\ now \in Nat /\ e.first \in Nat
    BY Zenon, <1>1 DEF Elapsed, Inv, TypeOK
  <2> QED BY Zenon, <1>4, <2>1
<1>6. Exact(e.first)
  BY Zenon, <1>3, <1>4 DEF Punctual
<1>7. RealTime(e.first) <= sample
  BY Zenon, <1>4, <1>5, <1>6, SameOrder
<1>8. timeout = 0
  BY Zenon, <1>3, <1>4, <1>7 DEF Punctual
<1>9. deadline' = [deadline EXCEPT ![e.second] = 0] /\ pc' = "onAlarm"
  BY Zenon, <1>1, <1>3 DEF fire
<1> QED BY Zenon, <1>2, <1>3, <1>7, <1>8, <1>9

(* Time passes while the loop sleeps.                                      *)
LEMMA TickTiming == Inv /\ Timing /\ Tick => Timing'
<1> SUFFICES ASSUME Inv, Timing, Tick PROVE Timing'
  BY Zenon
<1>1. /\ pc = "wait" /\ clock < sample + (timeout + 1) * kMilli /\ clock' = clock + 1
      /\ UNCHANGED <<now, pc, deadline, sample, timeout, due>>
  BY Zenon DEF Tick
<1>2. clock \in Nat /\ sample \in Nat /\ Wait \in Nat /\ timeout \in Nat
  BY Zenon, TimingTypes
<1>3. (timeout + 1) * kMilli = Wait + kMilli
  BY <1>2, Units DEF Wait
<1>4. sample <= clock + 1 /\ clock + 1 <= sample + Wait + kMilli
  BY <1>1, <1>2, <1>3, Units DEF Timing, LoopTime
<1>5. LoopTime'
  BY Zenon, <1>1, <1>4 DEF Timing, LoopTime, Wait
<1>6. ASSUME NEW a \in Alarms, isSet(a)' PROVE Punctual(a)'
  <2>1. Punctual(a)
    BY Zenon, <1>1, <1>6 DEF Timing, isSet
  <2> QED BY Zenon, <1>1, <2>1 DEF Punctual, Wait, Staleness
<1> QED BY Zenon, <1>5, <1>6 DEF Timing

(* The loop goes round when no alarm is due.                               *)
LEMMA ReturnTiming == Inv /\ Timing /\ LoopReturns => Timing'
<1> SUFFICES ASSUME Inv, Timing, LoopReturns PROVE Timing'
  BY Zenon
<1>1. /\ pc = "alarms" /\ pc' = "top" /\ \A e \in alarm_map : ~Elapsed(e)
      /\ UNCHANGED <<now, deadline, clock, sample, timeout, due>>
  BY Zenon DEF LoopReturns
<1>2. LoopTime'
  BY Zenon, <1>1 DEF Timing, LoopTime, Wait
<1>3. ASSUME NEW a \in Alarms, isSet(a)' PROVE Punctual(a)'
  <2>1. isSet(a) /\ Punctual(a)
    BY Zenon, <1>1, <1>3 DEF Timing, isSet
  <2>2. PICK e \in alarm_map : e.first = deadline[a]
    BY Zenon, <2>1, HasEntry
  <2>3. ~(deadline[a] <= TimeOf(sample)) /\ sample \in Nat
    <3>1. now \in Nat /\ deadline[a] \in Nat /\ sample \in Nat
      BY Zenon DEF Inv, TypeOK
    <3>2. now = TimeOf(sample)
      BY Zenon DEF Timing, LoopTime
    <3> QED BY Zenon, <1>1, <2>2, <3>1, <3>2 DEF Elapsed
  <2>4. Exact(deadline[a]) /\ RealTime(deadline[a]) \in Nat
    BY Zenon, <2>1, TimingTypes DEF Punctual
  <2>5. ~(RealTime(deadline[a]) <= sample)
    BY Zenon, <2>3, <2>4, SameOrder
  <2>6. sample < RealTime(deadline[a])
    BY <2>3, <2>4, <2>5
  <2> QED BY Zenon, <1>1, <2>1, <2>6 DEF Punctual, Wait, Staleness
<1> QED BY Zenon, <1>2, <1>3 DEF Timing

(* A call of update() leaves everything alone or arms the alarm.           *)
LEMMA UpdateCases ==
  ASSUME Inv, NEW a \in Alarms, NEW s \in Seconds, NEW g, update(a, s, g)
  PROVE  \/ UNCHANGED <<deadline, due>>
         \/ deadline' = [deadline EXCEPT ![a] = now + s * kSecond] /\ Arm(a, s)
BY Zenon DEF update

(* The times agree at the start: nothing is armed but the probe.           *)
LEMMA TimingInit == Init => Timing
<1> SUFFICES ASSUME Init PROVE Timing
  BY Zenon
<1>1. /\ clock = kSecond /\ sample = clock /\ now = TimeOf(sample) /\ timeout = 0
      /\ pc = "top"
  BY Zenon DEF Init
<1>2. PICK s \in Seconds :
       /\ deadline = [a \in Alarms |-> IF a = Probe THEN now + s * kSecond ELSE 0]
       /\ due = [a \in Alarms |-> IF a = Probe THEN clock + s * kSecond ELSE 0]
  BY Zenon DEF Init
<1>3. sample \in Nat /\ clock \in Nat /\ Wait = 0
  BY <1>1, Units DEF Wait
<1>4. LoopTime
  BY <1>1, <1>3, Units DEF LoopTime
<1>5. s \in Nat /\ s >= 1 /\ s * kSecond \in Nat /\ s * kSecond >= kSecond
  <2>1. s \in Nat /\ s >= 1
    BY EpollAssumption
  <2> QED BY <2>1, Units
<1>6. /\ Exact(now) /\ RealTime(now) \in Nat
      /\ RealTime(now) <= sample /\ sample < RealTime(now) + kMilli
  BY Zenon, <1>1, <1>3, TimeOfExact
<1>7. Exact(now + s * kSecond) /\ RealTime(now + s * kSecond) = RealTime(now) + s * kSecond
  BY Zenon, <1>5, <1>6, SecondsLater
<1>8. ASSUME NEW a \in Alarms, isSet(a) PROVE Punctual(a)
  <2>1. a = Probe
    BY Zenon, <1>2, <1>8 DEF isSet
  <2>2. deadline[a] = now + s * kSecond /\ due[a] = clock + s * kSecond /\ Staleness(a) = 0
    BY Zenon, <1>2, <2>1 DEF Staleness
  <2> DEFINE x == RealTime(deadline[a])
  <2>3. x = RealTime(now) + s * kSecond
    BY Zenon, <1>7, <2>2
  <2> HIDE DEF x
  <2>4. /\ due[a] < x + Staleness(a) + 2 * kMilli /\ sample < x
        /\ sample + Wait + kMilli <= x + kSecond
    BY <1>1, <1>3, <1>5, <1>6, <2>2, <2>3, Units
  <2>5. ~(x <= sample)
    BY <1>3, <1>5, <1>6, <2>3, <2>4
  <2> QED BY Zenon, <1>7, <2>2, <2>4, <2>5 DEF Punctual, x
<1> QED BY Zenon, <1>4, <1>8 DEF Timing

(* Every step keeps the times in order.                                    *)
LEMMA TimingStep == Inv /\ Timing /\ [Next]_vars => Timing'
<1> SUFFICES ASSUME Inv, Timing, [Next]_vars PROVE Timing'
  BY Zenon
<1>1. CASE runEventLoop
  BY Zenon, <1>1, LoopTiming
<1>2. CASE Tick
  BY Zenon, <1>2, TickTiming
<1>3. CASE FramesArrive \/ runReadEvent \/ AlarmReturns \/ EraseFired \/ UNCHANGED vars
  BY Zenon, <1>3, QuietTiming
     DEF FramesArrive, runReadEvent, AlarmReturns, EraseFired, vars, isSet, Timing, LoopTime
<1>4. CASE runAlarmEvent
  <2>1. PICK a \in Alarms :
           /\ timeout = 0 /\ deadline' = [deadline EXCEPT ![a] = 0]
           /\ pc' = "onAlarm" /\ UNCHANGED <<now, clock, sample, timeout, due>>
    BY Zenon, <1>4, FireTiming
  <2>2. \A b \in Alarms : isSet(b)' => isSet(b) /\ deadline'[b] = deadline[b]
    BY Zenon, <2>1 DEF isSet, Inv, TypeOK
  <2> QED BY Zenon, <2>1, <2>2, QuietTiming
<1>5. CASE sendProbePacket
  <2>1. PICK s \in Seconds : update(Probe, s, kMilli)
    BY Zenon, <1>5 DEF sendProbePacket
  <2>2. /\ pc = "onAlarm" /\ pc' = "erase" /\ timeout = 0
        /\ UNCHANGED <<now, clock, sample, timeout>>
    BY Zenon, <1>5 DEF sendProbePacket, Timing, LoopTime
  <2>3. Probe \in Alarms
    BY Zenon, EpollAssumption
  <2>4. CASE UNCHANGED <<deadline, due>>
    BY Zenon, <2>2, <2>4, QuietTiming DEF isSet
  <2>5. CASE deadline' = [deadline EXCEPT ![Probe] = now + s * kSecond] /\ Arm(Probe, s)
    BY Zenon, <2>2, <2>3, <2>5, ArmTiming
  <2> QED BY Zenon, <2>1, <2>3, <2>4, <2>5, UpdateCases
<1>6. CASE LoopReturns
  BY Zenon, <1>6, ReturnTiming
<1>7. CASE UserSets
  <2>1. PICK a \in Alarms \ {Probe}, s \in Seconds : set(a, s)
    BY Zenon, <1>7 DEF UserSets
  <2>2. pc # "top" /\ UNCHANGED <<pc, now, clock, sample, timeout>>
    BY Zenon, <1>7 DEF UserSets, UserCanRun
  <2> QED BY Zenon, <2>1, <2>2, ArmTiming DEF set
<1>8. CASE UserUpdates
  <2>1. PICK a \in Alarms \ {Probe}, s \in Seconds, g \in {kMilli, kSecond} : update(a, s, g)
    BY Zenon, <1>8 DEF UserUpdates
  <2>2. pc # "top" /\ UNCHANGED <<pc, now, clock, sample, timeout>>
    BY Zenon, <1>8 DEF UserUpdates, UserCanRun
  <2>3. CASE UNCHANGED <<deadline, due>>
    BY Zenon, <2>2, <2>3, QuietTiming DEF isSet, Timing, LoopTime
  <2>4. CASE deadline' = [deadline EXCEPT ![a] = now + s * kSecond] /\ Arm(a, s)
    BY Zenon, <2>2, <2>4, ArmTiming
  <2> QED BY Zenon, <2>1, <2>3, <2>4, UpdateCases
<1>9. CASE UserCancels
  <2>1. PICK a \in Alarms : cancel(a)
    BY Zenon, <1>9 DEF UserCancels
  <2>2. pc # "top" /\ UNCHANGED <<pc, now, clock, sample, timeout>>
    BY Zenon, <1>9 DEF UserCancels, UserCanRun
  <2>3. \A b \in Alarms : isSet(b)' => isSet(b) /\ deadline'[b] = deadline[b]
    BY Zenon, <2>1 DEF isSet, cancel, Inv, TypeOK
  <2> QED BY Zenon, <2>1, <2>2, <2>3, QuietTiming DEF cancel, Timing, LoopTime
<1> QED BY Zenon, <1>1, <1>2, <1>3, <1>4, <1>5, <1>6, <1>7, <1>8, <1>9 DEF Next
-----------------------------------------------------------------------------
(* The loop and the promise.                                               *)

(* What it means for the promise that an alarm is armed.                   *)
LEMMA ExpiryArmed ==
  ASSUME Inv, Timing
  PROVE  \A a \in Alarms : Expiry[a] # 0 <=> isSet(a)
BY Zenon, TimingTypes DEF Expiry

(* A new deadline is one the promise allows.                               *)
LEMMA ArmExpiry ==
  ASSUME Inv, Timing, NEW a \in Alarms, NEW s \in Seconds,
         deadline' = [deadline EXCEPT ![a] = now + s * kSecond]
  PROVE  \E r \in 0..(kMilli - 1) :
           Expiry' = [Expiry EXCEPT ![a] = sample + s * kSecond - r]
<1> DEFINE t == now + s * kSecond
           x == RealTime(t)
           r == sample + s * kSecond - x
<1>1. /\ x \in Nat \ {0} /\ s * kSecond \in Nat /\ sample \in Nat
      /\ x <= sample + s * kSecond /\ sample + s * kSecond < x + kMilli
  BY Zenon, NewDeadline, TimingTypes
<1>2. r \in 0..(kMilli - 1) /\ x = sample + s * kSecond - r
  <2> HIDE DEF x
  <2> QED BY <1>1, Units
<1>3. deadline \in [Alarms -> Nat] /\ t # 0
  BY Later, TimingTypes
<1>4. Expiry' = [Expiry EXCEPT ![a] = x]
  <2> HIDE DEF t
  <2>1. deadline' = [deadline EXCEPT ![a] = t]
    BY Zenon DEF t
  <2>2. \A b \in Alarms : Expiry'[b] = IF b = a THEN x ELSE Expiry[b]
    BY Zenon, <1>3, <2>1 DEF Expiry, isSet
  <2> QED BY Zenon, <2>2 DEF Expiry
<1> HIDE DEF x, r
<1> QED BY Zenon, <1>2, <1>4

(* Disarming.                                                              *)
LEMMA DisarmExpiry ==
  ASSUME Inv, NEW a \in Alarms, deadline' = [deadline EXCEPT ![a] = 0]
  PROVE  Expiry' = [Expiry EXCEPT ![a] = 0]
<1>1. deadline \in [Alarms -> Nat]
  BY Zenon DEF Inv, TypeOK
<1>2. \A b \in Alarms : Expiry'[b] = IF b = a THEN 0 ELSE Expiry[b]
  BY Zenon, <1>1 DEF Expiry, isSet
<1> QED BY Zenon, <1>2 DEF Expiry

(* The promise allows time to pass while the loop sleeps.                  *)
LEMMA TickIsPass == Inv /\ Timing /\ Tick => Promise!Pass
<1> SUFFICES ASSUME Inv, Timing, Tick PROVE Promise!Pass
  BY Zenon
<1>1. /\ clock < sample + (timeout + 1) * kMilli /\ clock' = clock + 1
      /\ UNCHANGED <<deadline, sample>>
  BY Zenon DEF Tick
<1>2. clock \in Nat /\ sample \in Nat /\ Wait \in Nat /\ timeout \in Nat
  BY Zenon, TimingTypes
<1>3. (timeout + 1) * kMilli = Wait + kMilli
  BY <1>2, Units DEF Wait
<1>4. clock < sample + kSecond + kMilli
  BY <1>1, <1>2, <1>3, Units DEF Timing, LoopTime
<1>5. ASSUME NEW a \in Alarms, isSet(a)
      PROVE  clock < RealTime(deadline[a]) + kSecond + kMilli
  <2> DEFINE x == RealTime(deadline[a])
  <2>1. x \in Nat
    BY Zenon, <1>5, TimingTypes
  <2>2. /\ sample < x => sample + Wait + kMilli <= x + kSecond
        /\ x <= sample => timeout = 0 /\ sample <= x + kSecond
    BY Zenon, <1>5 DEF Timing, Punctual
  <2>3. timeout = 0 => Wait = 0
    BY Units DEF Wait
  <2> HIDE DEF x
  <2>4. clock < x + kSecond + kMilli
    BY <1>1, <1>2, <1>3, <2>1, <2>2, <2>3, Units
  <2> QED BY Zenon, <2>4 DEF x
<1>6. Promise!MayPass
  BY Zenon, <1>4, <1>5 DEF Promise!MayPass, Promise!Armed
<1>7. Expiry' = Expiry
  BY Zenon, <1>1 DEF Expiry, isSet
<1> QED BY Zenon, <1>1, <1>6, <1>7 DEF Promise!Pass, Expiry

(* An alarm that is armed is set or updated, for the promise.              *)
LEMMA ArmIsUpdate ==
  ASSUME Inv, Timing, NEW a \in Alarms, NEW s \in Seconds,
         deadline' = [deadline EXCEPT ![a] = now + s * kSecond],
         UNCHANGED <<clock, sample>>
  PROVE  Promise!Update("loop", a, s)
<1>1. PICK r \in 0..(kMilli - 1) : Expiry' = [Expiry EXCEPT ![a] = sample + s * kSecond - r]
  BY Zenon, ArmExpiry
<1>2. sample + s * kSecond - r \in Promise!Expiries("loop", s)
  BY Zenon DEF Promise!Expiries
<1> QED BY Zenon, <1>1, <1>2 DEF Promise!Update, Expiry

(* Every step of the loop and of the users of alarms is one of the promise.*)
LEMMA PromiseStep ==
  Inv /\ Timing /\ [Next]_vars => [Promise!ANext]_(Promise!alarmVars)
<1> SUFFICES ASSUME Inv, Timing, [Next]_vars
             PROVE  Promise!ANext \/ UNCHANGED <<clock, sample, Expiry>>
  BY Zenon DEF Promise!alarmVars, Expiry
<1>1. CASE runEventLoop
  <2>1. sample' = clock /\ UNCHANGED <<clock, deadline>>
    BY Zenon, <1>1 DEF runEventLoop
  <2>2. Promise!Look("loop")
    BY Zenon, <2>1 DEF Promise!Look, isSet
  <2> QED BY Zenon, <2>2 DEF Promise!ANext
<1>2. CASE Tick
  BY Zenon, <1>2, TickIsPass DEF Promise!ANext
<1>3. CASE FramesArrive \/ runReadEvent \/ AlarmReturns \/ EraseFired \/ LoopReturns
           \/ UNCHANGED vars
  BY Zenon, <1>3 DEF FramesArrive, runReadEvent, AlarmReturns, EraseFired, LoopReturns, vars,
              Expiry, isSet
<1>4. CASE runAlarmEvent
  <2>1. PICK a \in Alarms :
           /\ isSet(a) /\ RealTime(deadline[a]) <= sample /\ timeout = 0
           /\ deadline' = [deadline EXCEPT ![a] = 0] /\ UNCHANGED <<clock, sample>>
    BY Zenon, <1>4, FireTiming
  <2>2. clock <= sample + kMilli
    <3>1. Wait = 0
      BY <2>1, Units DEF Wait
    <3>2. clock \in Nat /\ sample \in Nat /\ clock <= sample + Wait + kMilli
      BY Zenon, TimingTypes DEF Timing, LoopTime
    <3> QED BY <3>1, <3>2, Units
  <2>3. RealTime(deadline[a]) \in Nat \ {0} /\ sample \in Nat
    BY Zenon, <2>1, TimingTypes
  <2>4. Promise!MayFire("loop", a)
    BY Zenon, <2>1, <2>2, <2>3 DEF Promise!MayFire, Promise!Armed
  <2>5. Expiry' = [Expiry EXCEPT ![a] = 0]
    BY Zenon, <2>1, DisarmExpiry
  <2>6. Promise!Fire("loop", a)
    BY Zenon, <2>1, <2>4, <2>5 DEF Promise!Fire, Expiry
  <2> QED BY Zenon, <2>6 DEF Promise!ANext
<1>5. CASE sendProbePacket
  <2>1. PICK s \in Seconds : update(Probe, s, kMilli)
    BY Zenon, <1>5 DEF sendProbePacket
  <2>2. UNCHANGED <<clock, sample>> /\ Probe \in Alarms
    BY Zenon, <1>5, EpollAssumption DEF sendProbePacket
  <2>3. CASE UNCHANGED deadline
    BY Zenon, <2>2, <2>3 DEF Expiry, isSet
  <2>4. CASE deadline' = [deadline EXCEPT ![Probe] = now + s * kSecond]
    BY Zenon, <2>2, <2>4, ArmIsUpdate DEF Promise!ANext
  <2> QED BY Zenon, <2>1, <2>2, <2>3, <2>4, UpdateCases
<1>6. CASE UserSets
  <2>1. PICK a \in Alarms, s \in Seconds : set(a, s)
    BY Zenon, <1>6 DEF UserSets
  <2>2. UNCHANGED <<clock, sample>>
    BY Zenon, <1>6 DEF UserSets
  <2>3. Promise!Update("loop", a, s)
    BY Zenon, <2>1, <2>2, ArmIsUpdate DEF set
  <2> QED BY Zenon, <2>3 DEF Promise!ANext
<1>7. CASE UserUpdates
  <2>1. PICK a \in Alarms, s \in Seconds, g \in {kMilli, kSecond} : update(a, s, g)
    BY Zenon, <1>7 DEF UserUpdates
  <2>2. UNCHANGED <<clock, sample>>
    BY Zenon, <1>7 DEF UserUpdates
  <2>3. CASE UNCHANGED deadline
    BY Zenon, <2>2, <2>3 DEF Expiry, isSet
  <2>4. CASE deadline' = [deadline EXCEPT ![a] = now + s * kSecond]
    BY Zenon, <2>2, <2>4, ArmIsUpdate DEF Promise!ANext
  <2> QED BY Zenon, <2>1, <2>3, <2>4, UpdateCases
<1>8. CASE UserCancels
  <2>1. PICK a \in Alarms : cancel(a)
    BY Zenon, <1>8 DEF UserCancels
  <2>2. /\ isSet(a) /\ deadline' = [deadline EXCEPT ![a] = 0]
        /\ UNCHANGED <<clock, sample>>
    BY Zenon, <1>8, <2>1 DEF UserCancels, cancel
  <2>3. Expiry' = [Expiry EXCEPT ![a] = 0] /\ Expiry[a] # 0
    BY Zenon, <2>2, DisarmExpiry, ExpiryArmed
  <2>4. Promise!Cancel(a)
    BY Zenon, <2>2, <2>3 DEF Promise!Cancel, Promise!Armed, Expiry
  <2> QED BY Zenon, <2>4 DEF Promise!ANext
<1> QED BY Zenon, <1>1, <1>2, <1>3, <1>4, <1>5, <1>6, <1>7, <1>8 DEF Next

(* The constructors leave a state the promise allows.                      *)
LEMMA PromiseInit == Init => Promise!AInit
<1> SUFFICES ASSUME Init PROVE Promise!AInit
  BY Zenon
<1>1. Inv /\ Timing
  BY Zenon, EpollInit, TimingInit
<1>2. clock \in Nat \ {0} /\ sample = clock
  BY Zenon, Units DEF Init
<1>3. ASSUME NEW a \in Alarms, Expiry[a] # 0
      PROVE  \E s \in Seconds : Expiry[a] \in Promise!Expiries("loop", s)
  <2>1. PICK s \in Seconds :
          deadline = [b \in Alarms |-> IF b = Probe THEN now + s * kSecond ELSE 0]
    BY Zenon DEF Init
  <2>2. isSet(a)
    BY Zenon, <1>1, <1>3, ExpiryArmed
  <2>3. deadline[a] = now + s * kSecond
    BY Zenon, <2>1, <2>2 DEF isSet
  <2> DEFINE x == RealTime(now + s * kSecond)
  <2>4. /\ x \in Nat \ {0} /\ s * kSecond \in Nat /\ sample \in Nat
        /\ x <= sample + s * kSecond /\ sample + s * kSecond < x + kMilli
    BY Zenon, <1>1, NewDeadline, TimingTypes
  <2>5. Expiry[a] = x
    BY Zenon, <2>2, <2>3 DEF Expiry
  <2> HIDE DEF x
  <2>6. PICK r \in 0..(kMilli - 1) : x = sample + s * kSecond - r
    <3>1. sample + s * kSecond - x \in 0..(kMilli - 1)
      BY <2>4, Units
    <3>2. x = sample + s * kSecond - (sample + s * kSecond - x)
      BY <2>4
    <3> QED BY Zenon, <3>1, <3>2
  <2> QED BY Zenon, <2>5, <2>6 DEF Promise!Expiries
<1> QED BY Zenon, <1>2, <1>3 DEF Promise!AInit, Promise!Armed, Expiry

(* The times of the loop are in order throughout.                          *)
THEOREM EpollTimes == Spec => [](Inv /\ Timing)
BY EpollInit, EpollStep, TimingInit, TimingStep, PTL DEF Spec

(* The event loop keeps the promise of AlarmClock, on which the routes of  *)
(* module Routing rely: in real time, no sleep and no alarm is more than a *)
(* second and a millisecond late, and no alarm fires before the loop has   *)
(* seen its time (EpollServer::runEventLoop, updateNow, Alarm).            *)
THEOREM EpollPromise == Spec => KeepsPromise
BY EpollTimes, PromiseInit, PromiseStep, PTL DEF Spec, KeepsPromise, Promise!ASpec

(* An alarm does not fire before its delay is over, but for the age of     *)
(* now_ when it was armed and two roundings (EpollServer::now, Alarm).     *)
THEOREM EpollEarly == Spec => NeverTooEarly
<1>1. Inv /\ Timing /\ [Next]_vars =>
        [\A a \in Alarms :
           pc' = "onAlarm" /\ isSet(a) /\ deadline'[a] = 0 /\ pc = "alarms"
             => clock + Staleness(a) + 2 * kMilli >= due[a]]_vars
  <2> SUFFICES ASSUME Inv, Timing, Next, NEW a \in Alarms, pc' = "onAlarm",
                      isSet(a), deadline'[a] = 0, pc = "alarms"
               PROVE  clock + Staleness(a) + 2 * kMilli >= due[a]
    BY Zenon
  <2>1. runAlarmEvent
    BY Zenon DEF Next, runEventLoop, Tick, FramesArrive, runReadEvent, sendProbePacket, AlarmReturns,
           EraseFired, LoopReturns, UserSets, UserUpdates, UserCancels, UserCanRun
  <2>2. PICK b \in Alarms :
          RealTime(deadline[b]) <= sample /\ deadline' = [deadline EXCEPT ![b] = 0]
    BY Zenon, <2>1, FireTiming
  <2>3. a = b
    BY Zenon, <2>2 DEF isSet, Inv, TypeOK
  <2> DEFINE x == RealTime(deadline[a])
  <2>4. x <= sample /\ due[a] < x + Staleness(a) + 2 * kMilli /\ sample <= clock
    BY Zenon, <2>2, <2>3 DEF Timing, LoopTime, Punctual
  <2>5. /\ x \in Nat /\ sample \in Nat /\ clock \in Nat /\ due[a] \in Nat
        /\ Staleness(a) \in Nat
    BY Zenon, TimingTypes
  <2> HIDE DEF x
  <2> QED BY <2>4, <2>5, Units
<1> QED BY <1>1, EpollTimes, PTL DEF Spec, NeverTooEarly
=============================================================================
