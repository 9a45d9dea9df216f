---------------------------- MODULE RoutingProofs ----------------------------
(***************************************************************************)
(* For every set of neighbours and destinations, every unit of time and    *)
(* all intervals at least as far apart as those of the code: a route has a *)
(* timer, dies with its neighbour, lives while it is heard, and leads to a *)
(* peer whose address is known.                                            *)
(***************************************************************************)
EXTENDS Routing, TLAPS

Late == Second + Rounding
ProbeTime == probeInterval * Second
ValidTime == validInterval * Second

(* The constants as numbers.  The products are opaque to the provers from  *)
(* here on: the four inequalities are all that is used of them.            *)
LEMMA Times ==
  /\ Second \in Nat \ {0} /\ Rounding \in Nat \ {0} /\ Late = Second + Rounding
  /\ Second >= 3 * Rounding /\ Second >= 4 * Rounding - 2
  /\ ProbeTime \in Nat /\ ValidTime \in Nat
  /\ ProbeTime >= 3 * Second /\ ValidTime >= ProbeTime + 3 * Second
  /\ (validInterval + 1) * Second = ValidTime + Second
<1>1. /\ Second \in Nat \ {0} /\ Rounding \in Nat \ {0}
      /\ probeInterval \in Nat /\ validInterval \in Nat
  BY Zenon, AlarmClockAssumption, RoutingAssumption
<1>2. ProbeTime \in Nat /\ ValidTime \in Nat
  BY <1>1 DEF ProbeTime, ValidTime
<1>3. PICK p \in Nat, q \in Nat : probeInterval = 3 + p /\ validInterval = probeInterval + 3 + q
  <2>1. probeInterval - 3 \in Nat /\ validInterval - probeInterval - 3 \in Nat
    BY <1>1, IntervalsAssumption
  <2> QED BY <1>1, <2>1
<1>4. ProbeTime = 3 * Second + p * Second
  BY <1>1, <1>3 DEF ProbeTime
<1>5. ValidTime = ProbeTime + 3 * Second + q * Second
  BY <1>1, <1>3 DEF ValidTime, ProbeTime
<1>6. p * Second \in Nat /\ q * Second \in Nat
  BY <1>1
<1>7. (validInterval + 1) * Second = ValidTime + Second
  BY <1>1 DEF ValidTime
<1> HIDE DEF Late, ProbeTime, ValidTime
<1> QED BY <1>1, <1>2, <1>4, <1>5, <1>6, <1>7, IntervalsAssumption DEF Late

-----------------------------------------------------------------------------
(* The inductive invariant.                                                *)

(* No loop has slept, and no alarm has waited, for too long.               *)
InTime ==
  /\ \A l \in Loops : seen[l] <= time /\ time <= seen[l] + Late
  /\ \A a \in Alarms : Armed(a) => time <= expiry[a] + Late
  /\ \A v \in Devices : heard[v] <= time

(* An entry that is not there has no timer, and a deadline is not later    *)
(* than the last vector allows.                                            *)
Deadlines ==
  \A d \in Dests :
    /\ entries[d].device = NoDevice => entries[d].metric = Infinity /\ ~Armed(d)
    /\ entries[d].device # NoDevice /\ Armed(d) =>
         expiry[d] <= heard[entries[d].device] + ValidTime

(* For a device that a route goes over: when its next probe is due, and    *)
(* that the deadline of the route is later than that.                      *)
Probes ==
  \A d \in Dests, v \in Devices : entries[d].device = v =>
    /\ Armed(v) => expiry[v] >= heard[v] + ProbeTime - 2 * Rounding + 1
    /\ ~missed[v] => Armed(v) /\ expiry[v] <= heard[v] + ProbeTime
    /\ Armed(d) /\ ~inherited[d] =>
         expiry[d] >= heard[v] + ValidTime - Second - 2 * Rounding + 1

(* A neighbour that has stopped sends no probes.                           *)
Down == \A v \in Devices : ~up[v] => missed[v] /\ ~Armed(v)

Inv == TypeOK /\ InTime /\ Deadlines /\ Probes /\ Down /\ PeerKnown /\ RouteHasTimer

(* What a vector of device v does, in one place: who gets which entry, and *)
(* the bounds of the two deadlines that are set from times a loop has seen.*)
LEMMA VectorEffect ==
  ASSUME Inv, NEW v \in Devices, MayFire(v, v), NEW ds \in (SUBSET Dests) \ {{}},
         NEW m \in Metrics, NEW others \in Rearmed(v), Read(Probe(v), ds, m, others)
  PROVE  /\ UNCHANGED <<time, seen, up>>
         /\ peer' = [peer EXCEPT ![v] = TRUE]
         /\ heard' = [heard EXCEPT ![v] = time]
         /\ missed' = [missed EXCEPT ![v] = FALSE]
         /\ entries' = addEntry(v, ds, m)
         /\ inherited' = [d \in Dests |->
                            /\ expiry'[d] = expiry[d]
                            /\ inherited[d] \/ entries'[d].device # entries[d].device]
         /\ \E e \in Expiries(Self, validInterval), p \in Expiries(v, probeInterval) :
              expiry' = [a \in Alarms |-> IF a \in Refreshed(v, ds, entries')
                                          THEN keepAlive(a, e)
                                          ELSE [expiry EXCEPT ![v] = p][a]]
<1>1. Learns(Probe(v)) /\ decodeFrame(Probe(v)) /\ onReceive(Probe(v)) /\ Probe(v).device = v
  BY DEF Learns, decodeFrame, onReceive, subtractTTL, Probe
<1>2. /\ UNCHANGED <<time, seen, up>>
      /\ peer' = [peer EXCEPT ![v] = TRUE]
      /\ updateTable(v, ds, m, others)
      /\ heard' = [heard EXCEPT ![v] = time]
      /\ missed' = [missed EXCEPT ![v] = FALSE]
  BY Zenon, <1>1 DEF Read
<1>3. PICK p \in Expiries(v, probeInterval) : others = [expiry EXCEPT ![v] = p]
  BY Zenon DEF Rearmed
<1> QED BY <1>2, <1>3 DEF updateTable

(* The deadlines that arming gives, as numbers.                            *)
LEMMA ExpiryBounds ==
  ASSUME Inv, NEW l \in Loops
  PROVE  /\ \A e \in Expiries(l, validInterval) :
              /\ e \in Nat \ {0} /\ e <= seen[l] + ValidTime
              /\ e >= seen[l] + ValidTime - Rounding + 1
         /\ \A e \in Expiries(l, probeInterval) :
              /\ e \in Nat \ {0} /\ e <= seen[l] + ProbeTime
              /\ e >= seen[l] + ProbeTime - Rounding + 1
<1>1. seen[l] \in Nat
  BY Zenon DEF Inv, TypeOK
<1>2. ASSUME NEW e \in Expiries(l, validInterval)
      PROVE  /\ e \in Nat \ {0} /\ e <= seen[l] + ValidTime
             /\ e >= seen[l] + ValidTime - Rounding + 1
  <2>1. PICK r \in 0..(Rounding - 1) : e = seen[l] + ValidTime - r
    BY Zenon DEF Expiries, ValidTime
  <2> QED BY <1>1, <2>1, Times
<1>3. ASSUME NEW e \in Expiries(l, probeInterval)
      PROVE  /\ e \in Nat \ {0} /\ e <= seen[l] + ProbeTime
             /\ e >= seen[l] + ProbeTime - Rounding + 1
  <2>1. PICK r \in 0..(Rounding - 1) : e = seen[l] + ProbeTime - r
    BY Zenon DEF Expiries, ProbeTime
  <2> QED BY <1>1, <2>1, Times
<1> QED BY Zenon, <1>2, <1>3

(* The same, per entry and per device, with the bounds as times.           *)
LEMMA VectorTimes ==
  ASSUME Inv, NEW v \in Devices, Advertise(v)
  PROVE  \E e \in Nat, p \in Nat :
           /\ e # 0 /\ e <= time + ValidTime /\ e >= time + ValidTime - Second - 2 * Rounding + 1
           /\ p # 0 /\ p <= time + ProbeTime /\ p >= time + ProbeTime - 2 * Rounding + 1
           /\ expiry[v] # 0 /\ expiry[v] <= time
           /\ UNCHANGED <<time, seen, up>>
           /\ peer' = [peer EXCEPT ![v] = TRUE]
           /\ heard' = [heard EXCEPT ![v] = time]
           /\ missed' = [missed EXCEPT ![v] = FALSE]
           /\ inherited' = [d \in Dests |->
                              /\ expiry'[d] = expiry[d]
                              /\ inherited[d] \/ entries'[d].device # entries[d].device]
           /\ entries' \in [Dests -> [device : Devices \cup {NoDevice}, metric : 0..Infinity]]
           /\ expiry' \in [Alarms -> Nat]
           /\ \A d \in Dests :
                IF entries'[d].device = v
                THEN expiry'[d] = e \/ (expiry[d] # 0 /\ Apart(expiry[d], e) < Second
                                          /\ expiry'[d] = expiry[d])
                ELSE expiry'[d] = expiry[d] /\ entries'[d] = entries[d]
           /\ \A w \in Devices : expiry'[w] = IF w = v THEN p ELSE expiry[w]
<1>1. PICK ds \in (SUBSET Dests) \ {{}}, m \in Metrics, others \in Rearmed(v) :
        Read(Probe(v), ds, m, others)
  BY Zenon DEF Advertise
<1>2. MayFire(v, v)
  BY Zenon DEF Advertise
<1>3. PICK e \in Expiries(Self, validInterval), p \in Expiries(v, probeInterval) :
        expiry' = [a \in Alarms |-> IF a \in Refreshed(v, ds, entries')
                                    THEN keepAlive(a, e)
                                    ELSE [expiry EXCEPT ![v] = p][a]]
  BY Zenon, <1>1, <1>2, VectorEffect
<1>4. /\ UNCHANGED <<time, seen, up>>
      /\ peer' = [peer EXCEPT ![v] = TRUE]
      /\ heard' = [heard EXCEPT ![v] = time]
      /\ missed' = [missed EXCEPT ![v] = FALSE]
      /\ entries' = addEntry(v, ds, m)
      /\ inherited' = [d \in Dests |->
                         /\ expiry'[d] = expiry[d]
                         /\ inherited[d] \/ entries'[d].device # entries[d].device]
  BY Zenon, <1>1, <1>2, VectorEffect
<1>t. /\ time \in Nat /\ seen \in [Loops -> Nat] /\ expiry \in [Alarms -> Nat]
      /\ entries \in [Dests -> [device : Devices \cup {NoDevice}, metric : 0..Infinity]]
      /\ v \in Loops /\ Self \in Loops /\ v \in Alarms
      /\ Alarms = Dests \cup Devices /\ Dests \cap Devices = {}
      /\ Metrics \subseteq Nat /\ Infinity \in Nat
  BY Zenon, RoutingAssumption DEF Inv, TypeOK
<1>5. /\ e \in Nat /\ e # 0 /\ e <= seen[Self] + ValidTime
      /\ e >= seen[Self] + ValidTime - Rounding + 1
      /\ p \in Nat /\ p # 0 /\ p <= seen[v] + ProbeTime
      /\ p >= seen[v] + ProbeTime - Rounding + 1
  BY Zenon, <1>t, ExpiryBounds
<1>6. /\ seen[Self] <= time /\ time <= seen[Self] + Late
      /\ seen[v] <= time /\ time <= seen[v] + Rounding
      /\ expiry[v] # 0 /\ expiry[v] <= seen[v]
  BY Zenon, <1>2, <1>t DEF Inv, InTime, MayFire, Armed
<1>7. /\ seen[Self] \in Nat /\ seen[v] \in Nat /\ expiry[v] \in Nat
  BY Zenon, <1>t
<1>8. /\ e <= time + ValidTime /\ e >= time + ValidTime - Second - 2 * Rounding + 1
      /\ p <= time + ProbeTime /\ p >= time + ProbeTime - 2 * Rounding + 1
      /\ expiry[v] <= time
  BY <1>t, <1>5, <1>6, <1>7, Times
<1>9. \A d \in Dests : entries'[d] = IF d \in ds /\ (entries[d] = Absent \/ Replaces(v, d, m))
                                     THEN [device |-> v, metric |-> Through(m)]
                                     ELSE entries[d]
  BY Zenon, <1>4 DEF addEntry
<1>10. Through(m) \in 0..Infinity
  BY <1>t DEF Through
<1>11. entries' \in [Dests -> [device : Devices \cup {NoDevice}, metric : 0..Infinity]]
  BY Zenon, <1>4, <1>10, <1>t DEF addEntry
<1>12. expiry' \in [Alarms -> Nat]
  BY Zenon, <1>3, <1>5, <1>t DEF keepAlive
<1>13. ASSUME NEW d \in Dests
       PROVE  IF entries'[d].device = v
              THEN expiry'[d] = e \/ (expiry[d] # 0 /\ Apart(expiry[d], e) < Second
                                        /\ expiry'[d] = expiry[d])
              ELSE expiry'[d] = expiry[d] /\ entries'[d] = entries[d]
  <2>1. d \in Alarms /\ d # v
    BY Zenon, <1>t
  <2>2. CASE entries'[d].device = v
    <3>0. ds # {}
      BY Zenon, <1>1
    <3>1. d \in Refreshed(v, ds, entries')
      BY Zenon, <2>2, <3>0 DEF Refreshed
    <3>2. expiry'[d] = keepAlive(d, e)
      BY Zenon, <1>3, <2>1, <3>1
    <3> QED BY Zenon, <2>2, <3>2 DEF keepAlive, MayStay, Armed
  <2>3. CASE entries'[d].device # v
    <3>1. d \notin Refreshed(v, ds, entries')
      BY Zenon, <2>3 DEF Refreshed
    <3>2. expiry'[d] = [expiry EXCEPT ![v] = p][d]
      BY Zenon, <1>3, <2>1, <3>1
    <3>3. expiry'[d] = expiry[d]
      BY Zenon, <1>t, <2>1, <3>2
    <3>4. entries'[d] = entries[d]
      BY <1>9, <2>3
    <3> QED BY Zenon, <2>3, <3>3, <3>4
  <2> QED BY Zenon, <2>2, <2>3
<1>14. ASSUME NEW w \in Devices
       PROVE  expiry'[w] = IF w = v THEN p ELSE expiry[w]
  <2>1. w \in Alarms /\ w \notin Dests
    BY Zenon, <1>t
  <2>2. expiry'[w] = [expiry EXCEPT ![v] = p][w]
    BY Zenon, <1>3, <2>1 DEF Refreshed
  <2> QED BY Zenon, <1>t, <2>1, <2>2
<1> QED BY Zenon, <1>4, <1>5, <1>6, <1>8, <1>11, <1>12, <1>13, <1>14

(* A vector keeps the invariant.  The heart of it is the bound in Probes:  *)
(* the device's probes are so far apart that keepAlive always moves the    *)
(* deadline of a route that was already over the device.                   *)
LEMMA AdvertiseInv ==
  ASSUME Inv, NEW v \in Devices, Advertise(v)
  PROVE  Inv'
<1>1. PICK e \in Nat, p \in Nat :
        /\ e # 0 /\ e <= time + ValidTime /\ e >= time + ValidTime - Second - 2 * Rounding + 1
        /\ p # 0 /\ p <= time + ProbeTime /\ p >= time + ProbeTime - 2 * Rounding + 1
        /\ expiry[v] # 0 /\ expiry[v] <= time
        /\ UNCHANGED <<time, seen, up>>
        /\ peer' = [peer EXCEPT ![v] = TRUE]
        /\ heard' = [heard EXCEPT ![v] = time]
        /\ missed' = [missed EXCEPT ![v] = FALSE]
        /\ inherited' = [d \in Dests |->
                           /\ expiry'[d] = expiry[d]
                           /\ inherited[d] \/ entries'[d].device # entries[d].device]
        /\ entries' \in [Dests -> [device : Devices \cup {NoDevice}, metric : 0..Infinity]]
        /\ expiry' \in [Alarms -> Nat]
        /\ \A d \in Dests :
             IF entries'[d].device = v
             THEN expiry'[d] = e \/ (expiry[d] # 0 /\ Apart(expiry[d], e) < Second
                                       /\ expiry'[d] = expiry[d])
             ELSE expiry'[d] = expiry[d] /\ entries'[d] = entries[d]
        /\ \A w \in Devices : expiry'[w] = IF w = v THEN p ELSE expiry[w]
  BY Zenon, VectorTimes
<1>t. /\ time \in Nat /\ seen \in [Loops -> Nat] /\ expiry \in [Alarms -> Nat]
      /\ entries \in [Dests -> [device : Devices \cup {NoDevice}, metric : 0..Infinity]]
      /\ peer \in [Devices -> BOOLEAN] /\ missed \in [Devices -> BOOLEAN]
      /\ heard \in [Devices -> Nat] /\ inherited \in [Dests -> BOOLEAN]
      /\ Alarms = Dests \cup Devices /\ NoDevice \notin Devices
  BY Zenon, RoutingAssumption DEF Inv, TypeOK
<1>n. \A a \in Alarms : expiry[a] \in Nat
  BY Zenon, <1>t
<1>h. \A w \in Devices : heard[w] \in Nat /\ heard[w] <= time
  BY Zenon, <1>t DEF Inv, InTime
<1>g. \A w \in Devices : heard'[w] = IF w = v THEN time ELSE heard[w]
  BY Zenon, <1>1, <1>t
<1>2. TypeOK'
  <2>1. inherited' \in [Dests -> BOOLEAN]
    BY Zenon, <1>1, <1>t
  <2> QED BY Zenon, <1>1, <1>t, <2>1 DEF Inv, TypeOK
<1>3. InTime'
  <2>1. ASSUME NEW a \in Alarms, expiry'[a] # 0 PROVE time <= expiry'[a] + Late
    <3>1. CASE expiry'[a] = expiry[a]
      BY Zenon, <2>1, <3>1 DEF Inv, InTime, Armed
    <3>2. CASE expiry'[a] # expiry[a]
      <4>1. expiry'[a] = e \/ expiry'[a] = p
        BY Zenon, <1>1, <1>t, <3>2
      <4> QED BY <1>1, <1>t, <4>1, Times
    <3> QED BY Zenon, <3>1, <3>2
  <2>2. \A w \in Devices : heard'[w] <= time
    BY <1>g, <1>h, <1>t
  <2> QED BY Zenon, <1>1, <2>1, <2>2 DEF Inv, InTime, Armed
<1>4. Deadlines'
  <2> SUFFICES ASSUME NEW d \in Dests
               PROVE  /\ entries'[d].device = NoDevice =>
                           entries'[d].metric = Infinity /\ expiry'[d] = 0
                      /\ entries'[d].device # NoDevice /\ expiry'[d] # 0 =>
                           expiry'[d] <= heard'[entries'[d].device] + ValidTime
    BY Zenon DEF Deadlines, Armed
  <2>1. CASE entries'[d].device = v
    <3>1. heard'[v] = time /\ v # NoDevice
      BY Zenon, <1>g, <1>t
    <3>2. expiry[d] \in Nat /\ (expiry[d] # 0 => expiry[d] <= time + ValidTime)
      <4>1. CASE expiry[d] # 0
        <5>1. entries[d].device # NoDevice /\ entries[d].device \in Devices
          BY Zenon, <1>t, <4>1 DEF Inv, Deadlines, Armed
        <5>2. expiry[d] <= heard[entries[d].device] + ValidTime
          BY Zenon, <4>1, <5>1 DEF Inv, Deadlines, Armed
        <5> QED BY <1>n, <1>h, <1>t, <5>1, <5>2, Times
      <4> QED BY Zenon, <1>n, <1>t, <4>1
    <3> QED BY Zenon, <1>1, <2>1, <3>1, <3>2
  <2>2. CASE entries'[d].device # v
    <3>1. expiry'[d] = expiry[d] /\ entries'[d] = entries[d]
      BY Zenon, <1>1, <2>2
    <3>2. entries[d].device # NoDevice => heard'[entries[d].device] = heard[entries[d].device]
      BY Zenon, <1>g, <1>t, <2>2, <3>1
    <3> QED BY Zenon, <3>1, <3>2 DEF Inv, Deadlines, Armed
  <2> QED BY Zenon, <2>1, <2>2
<1>5. Probes'
  <2> SUFFICES ASSUME NEW d \in Dests, NEW w \in Devices, entries'[d].device = w
               PROVE  /\ expiry'[w] # 0 => expiry'[w] >= heard'[w] + ProbeTime - 2 * Rounding + 1
                      /\ ~missed'[w] => expiry'[w] # 0 /\ expiry'[w] <= heard'[w] + ProbeTime
                      /\ expiry'[d] # 0 /\ ~inherited'[d] =>
                           expiry'[d] >= heard'[w] + ValidTime - Second - 2 * Rounding + 1
    BY Zenon DEF Probes, Armed
  <2>1. CASE w = v
    <3>1. heard'[v] = time /\ expiry'[v] = p
      BY Zenon, <1>1, <1>g
    <3>2. CASE expiry'[d] = e
      BY Zenon, <1>1, <2>1, <3>1, <3>2
    <3>3. CASE expiry'[d] # e
      <4>1. expiry[d] # 0 /\ Apart(expiry[d], e) < Second /\ expiry'[d] = expiry[d]
        BY Zenon, <1>1, <2>1, <3>3
      <4>2. inherited'[d] = (inherited[d] \/ v # entries[d].device)
        BY Zenon, <1>1, <2>1, <4>1
      <4>3. entries[d].device = v => inherited[d]
        <5> SUFFICES ASSUME entries[d].device = v PROVE FALSE
          BY Zenon
        <5>1. expiry[d] <= heard[v] + ValidTime
          BY Zenon, <1>t, <4>1 DEF Inv, Deadlines, Armed
        <5>2. expiry[v] >= heard[v] + ProbeTime - 2 * Rounding + 1
          BY Zenon, <1>1 DEF Inv, Probes, Armed
        <5>3. heard[v] \in Nat /\ expiry[v] \in Nat /\ expiry[d] \in Nat
          BY Zenon, <1>h, <1>n, <1>t
        <5>4. e - expiry[d] >= Second
          BY <1>1, <1>t, <5>1, <5>2, <5>3, Times
        <5> QED BY <1>1, <4>1, <5>3, <5>4, Times DEF Apart
      <4>4. inherited'[d]
        BY Zenon, <4>2, <4>3
      <4> QED BY Zenon, <1>1, <2>1, <3>1, <4>4
    <3> QED BY Zenon, <3>2, <3>3
  <2>2. CASE w # v
    <3>1. expiry'[d] = expiry[d] /\ entries'[d] = entries[d] /\ expiry'[w] = expiry[w]
      BY Zenon, <1>1, <2>2
    <3>2. heard'[w] = heard[w] /\ missed'[w] = missed[w] /\ inherited'[d] = inherited[d]
      <4>1. heard'[w] = heard[w] /\ missed'[w] = missed[w]
        BY Zenon, <1>1, <1>g, <1>t, <2>2
      <4>2. inherited'[d] = inherited[d]
        BY Zenon, <1>1, <1>t, <3>1
      <4> QED BY Zenon, <4>1, <4>2
    <3> QED BY Zenon, <3>1, <3>2 DEF Inv, Probes, Armed
  <2> QED BY Zenon, <2>1, <2>2
<1>6. PeerKnown'
  <2> SUFFICES ASSUME NEW d \in Dests, entries'[d] # Absent PROVE peer'[entries'[d].device]
    BY Zenon DEF PeerKnown
  <2>1. CASE entries'[d].device = v
    BY Zenon, <1>1, <1>t, <2>1
  <2>2. CASE entries'[d].device # v
    <3>1. entries'[d] = entries[d]
      BY Zenon, <1>1, <2>2
    <3>2. peer[entries[d].device]
      BY Zenon, <3>1 DEF Inv, PeerKnown
    <3> QED BY <1>1, <1>t, <2>2, <3>1, <3>2
  <2> QED BY Zenon, <2>1, <2>2
<1>7. RouteHasTimer'
  <2> SUFFICES ASSUME NEW d \in Dests, entries'[d].metric < Infinity PROVE expiry'[d] # 0
    BY Zenon DEF RouteHasTimer, Valid, Armed
  <2>1. CASE entries'[d].device = v
    BY Zenon, <1>1, <2>1
  <2>2. CASE entries'[d].device # v
    BY Zenon, <1>1, <2>2 DEF Inv, RouteHasTimer, Valid, Armed
  <2> QED BY Zenon, <2>1, <2>2
<1>8. Down'
  <2>1. up[v]
    BY Zenon, <1>1 DEF Inv, Down, Armed
  <2> QED BY Zenon, <1>1, <1>t, <2>1 DEF Inv, Down, Armed
<1> QED BY Zenon, <1>2, <1>3, <1>4, <1>5, <1>6, <1>7, <1>8 DEF Inv

(* A lost probe and a neighbour that stops or starts keep the invariant.   *)
LEMMA NeighbourInv ==
  ASSUME Inv, NEW v \in Devices, ProbeIsLost(v) \/ Stops(v) \/ Starts(v)
  PROVE  Inv'
<1>t. /\ time \in Nat /\ seen \in [Loops -> Nat] /\ expiry \in [Alarms -> Nat]
      /\ entries \in [Dests -> [device : Devices \cup {NoDevice}, metric : 0..Infinity]]
      /\ up \in [Devices -> BOOLEAN] /\ missed \in [Devices -> BOOLEAN]
      /\ heard \in [Devices -> Nat] /\ inherited \in [Dests -> BOOLEAN]
      /\ Alarms = Dests \cup Devices /\ Dests \cap Devices = {} /\ v \in Alarms
      /\ v \in Loops /\ NoDevice \notin Devices
  BY Zenon, RoutingAssumption DEF Inv, TypeOK
<1>n. seen[v] \in Nat /\ heard[v] \in Nat /\ heard[v] <= time /\ seen[v] <= time
  BY Zenon, <1>t DEF Inv, InTime
<1>1. PICK e \in Nat :
        /\ expiry' = [expiry EXCEPT ![v] = e]
        /\ e # 0 => time <= e + Late /\ e >= heard[v] + ProbeTime - 2 * Rounding + 1
        /\ UNCHANGED <<time, entries, peer, heard, inherited>>
        /\ missed' \in [Devices -> BOOLEAN] /\ up' \in [Devices -> BOOLEAN]
        /\ \A w \in Devices : w # v => missed'[w] = missed[w]
        /\ missed'[v] /\ (~up'[v] => e = 0)
        /\ \A w \in Devices : w # v => up'[w] = up[w]
        /\ seen' \in [Loops -> Nat]
        /\ \A l \in Loops : seen'[l] = seen[l] \/ seen'[l] = time
  <2>1. CASE ProbeIsLost(v)
    <3>1. PICK e \in Expiries(v, probeInterval) : expiry' = [expiry EXCEPT ![v] = e]
      BY Zenon, <2>1 DEF ProbeIsLost, Rearmed
    <3>2. /\ e \in Nat \ {0} /\ e >= seen[v] + ProbeTime - Rounding + 1
      BY Zenon, <1>t, ExpiryBounds
    <3>3. time <= seen[v] + Rounding
      BY Zenon, <2>1 DEF ProbeIsLost, MayFire
    <3>4. time <= e + Late /\ e >= heard[v] + ProbeTime - 2 * Rounding + 1
      BY <1>n, <1>t, <3>2, <3>3, Times
    <3>5. up[v]
      BY Zenon, <2>1 DEF ProbeIsLost, MayFire, Inv, Down
    <3> QED BY Zenon, <1>t, <2>1, <3>1, <3>2, <3>4, <3>5 DEF ProbeIsLost
  <2>2. CASE Stops(v)
    BY Zenon, <1>t, <2>2 DEF Stops
  <2>3. CASE Starts(v)
    <3> DEFINE e == time + ProbeTime
    <3>1. e \in Nat /\ time <= e + Late /\ e >= heard[v] + ProbeTime - 2 * Rounding + 1
      BY <1>n, <1>t, Times
    <3>2. expiry' = [expiry EXCEPT ![v] = e]
      BY Zenon, <2>3 DEF Starts, ProbeTime
    <3> HIDE DEF e
    <3>3. seen' = [seen EXCEPT ![v] = time] /\ UNCHANGED <<time, entries, peer, missed, heard, inherited>>
      BY Zenon, <2>3 DEF Starts, history
    <3>4. up' = [up EXCEPT ![v] = TRUE] /\ missed[v]
      BY Zenon, <1>t, <2>3 DEF Starts, Inv, Down
    <3> QED BY Zenon, <1>t, <2>3, <3>1, <3>2, <3>3, <3>4
  <2> QED BY Zenon, <2>1, <2>2, <2>3
<1>2. \A a \in Alarms : expiry'[a] = IF a = v THEN e ELSE expiry[a]
  BY Zenon, <1>1, <1>t
<1>3. TypeOK'
  BY Zenon, <1>1, <1>t DEF Inv, TypeOK
<1>4. InTime'
  <2>1. \A a \in Alarms : expiry'[a] # 0 => time <= expiry'[a] + Late
    BY <1>1, <1>2 DEF Inv, InTime, Armed
  <2>2. ASSUME NEW l \in Loops PROVE seen'[l] <= time /\ time <= seen'[l] + Late
    BY <1>1, <1>t, Times DEF Inv, InTime
  <2> QED BY Zenon, <1>1, <2>1, <2>2 DEF Inv, InTime, Armed
<1>5. \A d \in Dests : expiry'[d] = expiry[d]
  BY Zenon, <1>2, <1>t
<1>6. Deadlines' /\ PeerKnown' /\ RouteHasTimer'
  BY Zenon, <1>1, <1>5 DEF Inv, Deadlines, PeerKnown, RouteHasTimer, Valid, Armed
<1>7. Probes'
  <2> SUFFICES ASSUME NEW d \in Dests, NEW w \in Devices, entries[d].device = w
               PROVE  /\ expiry'[w] # 0 => expiry'[w] >= heard[w] + ProbeTime - 2 * Rounding + 1
                      /\ ~missed'[w] => expiry'[w] # 0 /\ expiry'[w] <= heard[w] + ProbeTime
                      /\ expiry[d] # 0 /\ ~inherited[d] =>
                           expiry[d] >= heard[w] + ValidTime - Second - 2 * Rounding + 1
    BY <1>1, <1>5 DEF Probes, Armed
  <2>1. /\ expiry[w] # 0 => expiry[w] >= heard[w] + ProbeTime - 2 * Rounding + 1
        /\ ~missed[w] => expiry[w] # 0 /\ expiry[w] <= heard[w] + ProbeTime
        /\ expiry[d] # 0 /\ ~inherited[d] =>
             expiry[d] >= heard[w] + ValidTime - Second - 2 * Rounding + 1
    BY Zenon DEF Inv, Probes, Armed
  <2>2. CASE w = v
    BY Zenon, <1>1, <1>2, <1>t, <2>1, <2>2
  <2>3. CASE w # v
    BY Zenon, <1>1, <1>2, <1>t, <2>1, <2>3
  <2> QED BY Zenon, <2>2, <2>3
<1>8. Down'
  BY <1>1, <1>2, <1>t DEF Inv, Down, Armed
<1> QED BY Zenon, <1>3, <1>4, <1>6, <1>7, <1>8 DEF Inv

(* A frame that is no vector, an expired route, the passing of time and a  *)
(* loop that looks at it keep the invariant.                               *)
LEMMA NodeInv ==
  ASSUME Inv,
         OtherFrame \/ (\E d \in Dests : EntryTimeout(d)) \/ Passes \/ \E l \in Loops : Looks(l)
  PROVE  Inv'
<1>t. /\ time \in Nat /\ seen \in [Loops -> Nat] /\ expiry \in [Alarms -> Nat]
      /\ entries \in [Dests -> [device : Devices \cup {NoDevice}, metric : 0..Infinity]]
      /\ peer \in [Devices -> BOOLEAN] /\ heard \in [Devices -> Nat]
      /\ Alarms = Dests \cup Devices /\ Dests \cap Devices = {} /\ NoDevice \notin Devices
      /\ Infinity \in Nat
  BY Zenon, RoutingAssumption DEF Inv, TypeOK
<1>1. CASE OtherFrame
  <2>1. PICK f \in Headers : ~(decodeFrame(f) /\ onReceive(f)) /\ Read(f, {}, 0, expiry)
    BY Zenon, <1>1 DEF OtherFrame
  <2>2. /\ UNCHANGED <<time, seen, expiry, entries, up, missed, heard, inherited>>
        /\ peer' = IF Learns(f) THEN [peer EXCEPT ![f.device] = TRUE] ELSE peer
    BY Zenon, <2>1 DEF Read, history
  <2>3. peer' \in [Devices -> BOOLEAN] /\ \A v \in Devices : peer[v] => peer'[v]
    BY Zenon, <1>t, <2>2
  <2>4. PeerKnown'
    <3> SUFFICES ASSUME NEW d \in Dests, entries[d] # Absent PROVE peer'[entries[d].device]
      BY Zenon, <2>2 DEF PeerKnown
    <3>1. peer[entries[d].device]
      BY Zenon DEF Inv, PeerKnown
    <3>2. entries[d].device \in Devices
      <4>1. entries[d] \in [device : Devices \cup {NoDevice}, metric : 0..Infinity]
        BY Zenon, <1>t
      <4>2. CASE entries[d].device = NoDevice
        <5>1. entries[d].metric = Infinity
          BY Zenon, <4>2 DEF Inv, Deadlines
        <5> QED BY Zenon, <4>1, <4>2, <5>1 DEF Absent
      <4> QED BY Zenon, <4>1, <4>2
    <3> QED BY Zenon, <2>3, <3>1, <3>2
  <2> QED BY <2>2, <2>3, <2>4
          DEF Inv, TypeOK, InTime, Deadlines, Probes, Down, RouteHasTimer, Valid, Armed
<1>2. ASSUME NEW d \in Dests, EntryTimeout(d) PROVE Inv'
  <2>1. /\ expiry' = [expiry EXCEPT ![d] = 0] /\ entries' = [entries EXCEPT ![d].metric = Infinity]
        /\ UNCHANGED <<time, seen, peer, up, missed, heard, inherited>>
    BY Zenon, <1>2 DEF EntryTimeout, Fire, revokeRoute, history
  <2>2. /\ \A a \in Alarms : expiry'[a] = IF a = d THEN 0 ELSE expiry[a]
        /\ \A c \in Dests : /\ entries'[c].device = entries[c].device
                             /\ entries'[c].metric = (IF c = d THEN Infinity ELSE entries[c].metric)
                             /\ (entries[c] = Absent => entries'[c] = Absent)
    BY <1>t, <2>1 DEF Absent
  <2>3. TypeOK'
    <3>1. expiry' \in [Alarms -> Nat]
      BY Zenon, <1>t, <2>1
    <3>2. entries' \in [Dests -> [device : Devices \cup {NoDevice}, metric : 0..Infinity]]
      BY <1>t, <2>1
    <3> QED BY Zenon, <2>1, <3>1, <3>2 DEF Inv, TypeOK
  <2>4. InTime' /\ Deadlines' /\ Probes' /\ Down'
    BY <1>t, <2>1, <2>2 DEF Inv, InTime, Deadlines, Probes, Down, Armed
  <2>5. PeerKnown'
    BY Zenon, <2>1, <2>2 DEF Inv, PeerKnown
  <2>6. RouteHasTimer'
    BY <1>t, <2>2 DEF Inv, RouteHasTimer, Valid, Armed
  <2> QED BY Zenon, <2>3, <2>4, <2>5, <2>6 DEF Inv
<1>3. CASE Passes
  <2>1. /\ MayPass /\ time' = time + 1
        /\ UNCHANGED <<seen, expiry, entries, peer, up, missed, heard, inherited>>
    BY Zenon, <1>3 DEF Passes, Pass, history
  <2>2. InTime'
    <3>1. ASSUME NEW l \in Loops PROVE seen[l] <= time + 1 /\ time + 1 <= seen[l] + Late
      BY <1>t, <2>1, Times DEF Inv, InTime, MayPass
    <3>2. ASSUME NEW a \in Alarms, Armed(a) PROVE time + 1 <= expiry[a] + Late
      BY <1>t, <2>1, <3>2, Times DEF MayPass
    <3>3. ASSUME NEW v \in Devices PROVE heard[v] <= time + 1
      BY <1>t DEF Inv, InTime
    <3> QED BY Zenon, <2>1, <3>1, <3>2, <3>3 DEF InTime, Armed
  <2> QED BY <1>t, <2>1, <2>2
          DEF Inv, TypeOK, Deadlines, Probes, Down, PeerKnown, RouteHasTimer, Valid, Armed
<1>4. ASSUME NEW l \in Loops, Looks(l) PROVE Inv'
  <2>1. /\ seen' = [seen EXCEPT ![l] = time]
        /\ UNCHANGED <<time, expiry, entries, peer, up, missed, heard, inherited>>
    BY Zenon, <1>4 DEF Looks, Look, history
  <2>2. InTime'
    BY <1>t, <2>1, Times DEF Inv, InTime, Armed
  <2> QED BY <1>t, <2>1, <2>2
          DEF Inv, TypeOK, Deadlines, Probes, Down, PeerKnown, RouteHasTimer, Valid, Armed
<1> QED BY Zenon, <1>1, <1>2, <1>3, <1>4

(* A node starts without dynamic routes.                                   *)
LEMMA InitInv == Init => Inv
<1> SUFFICES ASSUME Init PROVE Inv
  BY Zenon
<1>1. /\ time \in Nat /\ time = Second /\ Infinity \in Nat /\ NoDevice \notin Devices
      /\ Alarms = Dests \cup Devices /\ Dests \cap Devices = {}
  BY Zenon, RoutingAssumption, Times DEF Init
<1>2. TypeOK
  BY <1>1 DEF Init, TypeOK, Absent
<1>3. \A d \in Dests : entries[d] = Absent /\ expiry[d] = 0
  BY Zenon, <1>1 DEF Init
<1>4. Absent.device = NoDevice /\ Absent.metric = Infinity
  BY Zenon DEF Absent
<1>5. \A a \in Alarms : expiry[a] # 0 => expiry[a] = time + 1
  BY Zenon, <1>1 DEF Init
<1>6. InTime
  <2>1. \A l \in Loops : seen[l] = time
    BY Zenon DEF Init
  <2>2. \A v \in Devices : heard[v] = time
    BY Zenon DEF Init
  <2> QED BY <1>1, <1>5, <2>1, <2>2, Times DEF InTime, Armed
<1>7. Down
  BY Zenon DEF Init, Down
<1> QED BY <1>1, <1>2, <1>3, <1>4, <1>6, <1>7
        DEF Inv, Deadlines, Probes, PeerKnown, RouteHasTimer, Valid, Armed

-----------------------------------------------------------------------------
(* The inductive invariant of the routes, the neighbours' probes and the   *)
(* timers, for every number of neighbours and destinations.                *)
THEOREM RoutingInvariant == Spec => []Inv
<1>1. Inv /\ [Next]_vars => Inv'
  <2> SUFFICES ASSUME Inv, [Next]_vars PROVE Inv'
    BY Zenon
  <2>1. CASE UNCHANGED vars
    BY <2>1 DEF vars, alarmVars, history, Inv, TypeOK, InTime, Deadlines, Probes, Down,
                PeerKnown, RouteHasTimer, Valid, Armed
  <2>2. CASE Next
    BY Zenon, <2>2, AdvertiseInv, NeighbourInv, NodeInv DEF Next
  <2> QED BY Zenon, <2>1, <2>2
<1> QED BY <1>1, InitInv, PTL DEF Spec

(* A route that lookup() would give has a timer that is set, also when it  *)
(* was revoked and learnt again (routing_table.cpp, addEntry, keepAlive).  *)
THEOREM RoutingTimers == Spec => []RouteHasTimer
<1>1. Inv => RouteHasTimer
  BY Zenon DEF Inv
<1> QED BY <1>1, RoutingInvariant, PTL

(* The peer of the device of every dynamic route has been learnt           *)
(* (Device::decodeFrame).                                                  *)
THEOREM RoutingPeers == Spec => []PeerKnown
<1>1. Inv => PeerKnown
  BY Zenon DEF Inv
<1> QED BY <1>1, RoutingInvariant, PTL

(* A route dies with its neighbour, at most a second and the rounding      *)
(* after validInterval (RoutingTable::Entry::revokeRoute).                 *)
THEOREM RoutingDies == Spec => []RouteDies
<1>1. Inv => RouteDies
  <2> SUFFICES ASSUME Inv, NEW d \in Dests, Valid(d)
               PROVE  time <= heard[entries[d].device] + (validInterval + 1) * Second + Rounding
    BY Zenon DEF RouteDies
  <2>1. /\ entries[d].device \in Devices \cup {NoDevice} /\ entries[d].metric \in 0..Infinity
        /\ Infinity \in Nat /\ d \in Alarms /\ time \in Nat /\ expiry[d] \in Nat
        /\ heard \in [Devices -> Nat]
    BY Zenon, RoutingAssumption DEF Inv, TypeOK
  <2>2. Armed(d) /\ entries[d].device \in Devices /\ entries[d].device # NoDevice
    BY Zenon, <2>1 DEF Inv, RouteHasTimer, Deadlines, Valid
  <2>3. time <= expiry[d] + Late /\ expiry[d] <= heard[entries[d].device] + ValidTime
    BY Zenon, <2>1, <2>2 DEF Inv, InTime, Deadlines
  <2>4. heard[entries[d].device] \in Nat
    BY Zenon, <2>1, <2>2
  <2> QED BY <2>1, <2>3, <2>4, Times
<1> QED BY <1>1, RoutingInvariant, PTL

(* A route lives while its neighbour is heard: the time at which it could  *)
(* be revoked lies behind the one by which the next probe has to be sent   *)
(* (RoutingTable::Entry::keepAlive, IPLayer::sendProbePacket).             *)
THEOREM RoutingKeeps == Spec => KeptWhileHeard
<1>1. Inv /\ [Next]_vars =>
        [\A d \in Dests :
           Armed(d) /\ expiry'[d] = 0 => missed[entries[d].device] \/ inherited[d]]_vars
  <2> SUFFICES ASSUME Inv, Next, NEW d \in Dests, Armed(d), expiry'[d] = 0,
                      ~missed[entries[d].device], ~inherited[d]
               PROVE  FALSE
    BY Zenon
  <2>t. /\ time \in Nat /\ seen \in [Loops -> Nat] /\ expiry \in [Alarms -> Nat]
        /\ heard \in [Devices -> Nat] /\ d \in Alarms /\ Self \in Loops
        /\ Alarms = Dests \cup Devices /\ Dests \cap Devices = {} /\ NoDevice \notin Devices
        /\ entries[d].device \in Devices \cup {NoDevice}
    BY Zenon, RoutingAssumption DEF Inv, TypeOK
  <2>1. EntryTimeout(d)
    <3>1. ASSUME NEW v \in Devices, Advertise(v) PROVE FALSE
      <4>1. expiry'[d] = expiry[d] \/ expiry'[d] # 0
        BY Zenon, <3>1, VectorTimes
      <4> QED BY Zenon, <4>1 DEF Armed
    <3>2. ASSUME NEW v \in Devices, ProbeIsLost(v) \/ Stops(v) \/ Starts(v) PROVE FALSE
      <4>1. \E e : expiry' = [expiry EXCEPT ![v] = e]
        BY Zenon, <3>2 DEF ProbeIsLost, Stops, Starts, Rearmed
      <4> QED BY Zenon, <2>t, <4>1 DEF Armed
    <3>3. ASSUME NEW c \in Dests, EntryTimeout(c), c # d PROVE FALSE
      BY Zenon, <2>t, <3>3 DEF EntryTimeout, Fire, Armed
    <3>4. CASE OtherFrame \/ Passes \/ \E l \in Loops : Looks(l)
      BY Zenon, <3>4 DEF OtherFrame, Read, Passes, Pass, Looks, Look, Armed
    <3> QED BY Zenon, <3>1, <3>2, <3>3, <3>4 DEF Next
  <2> DEFINE v == entries[d].device
  <2>2. v \in Devices
    BY Zenon, <2>t DEF Inv, Deadlines
  <2>3. seen[Self] >= expiry[d] /\ seen[Self] <= time
    BY Zenon, <2>1, <2>t DEF EntryTimeout, Fire, MayFire, Inv, InTime
  <2>4. /\ Armed(v) /\ expiry[v] <= heard[v] + ProbeTime
        /\ expiry[d] >= heard[v] + ValidTime - Second - 2 * Rounding + 1
    BY Zenon, <2>2 DEF Inv, Probes
  <2>5. time <= expiry[v] + Late
    BY Zenon, <2>2, <2>4, <2>t DEF Inv, InTime
  <2>6. expiry[v] \in Nat /\ expiry[d] \in Nat /\ heard[v] \in Nat /\ seen[Self] \in Nat
    BY Zenon, <2>2, <2>t
  <2> HIDE DEF v
  <2> QED BY <2>3, <2>4, <2>5, <2>6, <2>t, Times
<1> QED BY <1>1, RoutingInvariant, PTL DEF Spec, KeptWhileHeard
=============================================================================
