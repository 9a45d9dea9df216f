------------------------------- MODULE Routing -------------------------------
(***************************************************************************)
(* A node's routes and its neighbours: the frames Device::decodeFrame      *)
(* (device.cpp) takes, the packets IPLayer::onReceive (ip_layer.cpp) lets  *)
(* through, the distance vectors RoutingTable (routing_table.cpp) learns   *)
(* from and the timers of its entries, on event loops that keep the        *)
(* promise of AlarmClock, which EpollServer implements.                    *)
(*                                                                         *)
(* The neighbour on device v runs the same program: v also names its loop  *)
(* and its probe alarm.  The ttl_alarm_ of the entry for destination d is  *)
(* the alarm d.  The bodies of the loops in addEntry and sendProbePacket   *)
(* are not in the repository: the rule of addEntry is the one of RFC 1058  *)
(* its comment quotes, with the metrics and the keeping alive that         *)
(* routing_table_test.cpp expects.  All routes are to hosts, and each      *)
(* destination has at most one dynamic entry.                              *)
(*                                                                         *)
(* A probe may be lost, a neighbour may stop and start, and other frames   *)
(* arrive at any time.  The wire takes no time.                            *)
(***************************************************************************)
EXTENDS AlarmClock

CONSTANTS Devices, Dests,
          Self,            \* the loop of this node
          NoDevice,        \* the device of an entry that is not there
          Metrics,         \* the metrics a neighbour advertises
          Infinity,        \* RoutingTable::Entry::Infinity()
          probeInterval, validInterval,  \* in seconds
          MaxTime          \* bound on the time of a behaviour

ASSUME RoutingAssumption ==
  /\ Alarms = Dests \cup Devices /\ Dests \cap Devices = {}
  /\ Loops = Devices \cup {Self} /\ Self \notin Devices
  /\ NoDevice \notin Devices
  /\ Metrics \subseteq Nat /\ Infinity \in Nat
  /\ {probeInterval, validInterval} \subseteq Delays
  /\ MaxTime \in Nat

\* 3 and 6 in the code, whose second has a thousand milliseconds
ASSUME IntervalsAssumption ==
  /\ probeInterval >= 3 /\ validInterval >= probeInterval + 3
  /\ Second >= 3 * Rounding /\ Second >= 4 * Rounding - 2

VARIABLES
  entries,       \* RoutingTable::entries_, the dynamic ones
  peer,          \* whether Device::peer_address_ is specified
  up,            \* whether the neighbour is running
  missed, heard, \* history: a probe has been missing; when one was last taken
  inherited      \* history: keepAlive() left an entry the deadline it had when
                 \* its route went over another device

history == <<missed, heard, inherited>>
vars == <<alarmVars, entries, peer, up, history>>

Absent == [device |-> NoDevice, metric |-> Infinity]

\* this node starts while its neighbours, which have armed their probe alarms,
\* are about to send a probe
Init ==
  /\ time = Second
  /\ seen = [l \in Loops |-> time]
  /\ expiry = [a \in Alarms |-> IF a \in Devices THEN time + 1 ELSE 0]
  /\ entries = [d \in Dests |-> Absent]
  /\ peer = [v \in Devices |-> FALSE]
  /\ up = [v \in Devices |-> TRUE]
  /\ missed = [v \in Devices |-> FALSE]
  /\ heard = [v \in Devices |-> time]
  /\ inherited = [d \in Dests |-> FALSE]

-----------------------------------------------------------------------------
(* A frame is read.                                                        *)

\* A frame without its vector: its device, whom it is addressed to, whether it
\* gives a source, and its type; whether the version, the TTL and the protocol
\* of the packet in it are those of a probe, and whether it is for this host.
Headers == [device : Devices, to : {"me", "all", "other"}, from : {"one", "all"},
            type : {"IP", "ARP", "unknown"},
            version : {4, 6}, ttl : {0, 1}, probe : BOOLEAN, mine : BOOLEAN]

\* Variant for mutation: a peer is learnt from frames to this host only.
LearnsFromUnicast(f) == f.to = "me" /\ f.from # "all"

\* decodeFrame: it remembers whom the frame came from
Learns(f) == f.to # "other" /\ f.from # "all"

\* decodeFrame hands the packet on
decodeFrame(f) == f.to # "other" /\ f.type = "IP"

\* subtractTTL finds a TTL to subtract from
subtractTTL(f) == f.ttl > 0

\* onReceive and processProbePacket hand the vector to the routing table
onReceive(f) == f.version = 4 /\ subtractTTL(f) /\ f.probe /\ ~f.mine

\* the metric of a route through the neighbour that advertises m
Through(m) == IF m < Infinity THEN m + 1 ELSE Infinity

\* the rule of RFC 1058
Replaces(v, d, m) == entries[d].device = v \/ Through(m) < entries[d].metric

\* addEntry, for the destinations ds of a vector from device v
addEntry(v, ds, m) ==
  [d \in Dests |-> IF d \in ds /\ (entries[d] = Absent \/ Replaces(v, d, m))
                   THEN [device |-> v, metric |-> Through(m)]
                   ELSE entries[d]]

\* Variant for mutation: an alarm that has fired is not armed again.
KeepIfArmed(d, e) == IF Armed(d) \/ entries[d] = Absent THEN e ELSE expiry[d]

\* the expiry after the Entry constructor, or Entry::keepAlive, whose update()
\* has a granularity of a second
keepAlive(d, e) == IF MayStay(d, e) THEN expiry[d] ELSE e

\* Variant for mutation: only the routes the vector names.
RefreshAdvertised(v, ds, after) == {d \in ds : after[d].device = v}

\* the entries addEntry keeps alive: all those over the device of the vector
Refreshed(v, ds, after) == {d \in Dests : ds # {} /\ after[d].device = v}

\* updateTable, given how the alarms of the neighbours are changed
updateTable(v, ds, m, others) ==
  /\ entries' = addEntry(v, ds, m)
  /\ \E e \in Expiries(Self, validInterval) :
       expiry' = [a \in Alarms |-> IF a \in Refreshed(v, ds, entries')
                                   THEN keepAlive(a, e)
                                   ELSE others[a]]
  /\ inherited' = [d \in Dests |->
                     /\ expiry'[d] = expiry[d]
                     /\ inherited[d] \/ entries'[d].device # entries[d].device]

\* onReadable: a frame with header f and vector <<ds, m>>
Read(f, ds, m, others) ==
  /\ peer' = IF Learns(f) THEN [peer EXCEPT ![f.device] = TRUE] ELSE peer
  /\ IF decodeFrame(f) /\ onReceive(f)
     THEN /\ updateTable(f.device, ds, m, others)
          /\ heard' = [heard EXCEPT ![f.device] = time]
          /\ missed' = [missed EXCEPT ![f.device] = FALSE]
     ELSE expiry' = others /\ UNCHANGED <<entries, history>>
  /\ UNCHANGED <<time, seen, up>>

-----------------------------------------------------------------------------
(* The neighbours.                                                         *)

Probe(v) == [device |-> v, to |-> "all", from |-> "one", type |-> "IP",
             version |-> 4, ttl |-> 1, probe |-> TRUE, mine |-> FALSE]

\* the alarms after sendProbePacket of the neighbour on v
Rearmed(v) == {[expiry EXCEPT ![v] = e] : e \in Expiries(v, probeInterval)}

\* sendProbePacket: a vector with at least one destination; or it is lost
Advertise(v) ==
  /\ MayFire(v, v)
  /\ \E ds \in (SUBSET Dests) \ {{}}, m \in Metrics, others \in Rearmed(v) :
       Read(Probe(v), ds, m, others)

ProbeIsLost(v) ==
  /\ MayFire(v, v)
  /\ expiry' \in Rearmed(v)
  /\ missed' = [missed EXCEPT ![v] = TRUE]
  /\ UNCHANGED <<time, seen, entries, peer, up, heard, inherited>>

Stops(v) ==
  /\ up[v]
  /\ up' = [up EXCEPT ![v] = FALSE]
  /\ missed' = [missed EXCEPT ![v] = TRUE]
  /\ expiry' = [expiry EXCEPT ![v] = 0]
  /\ UNCHANGED <<time, seen, entries, peer, heard, inherited>>

Starts(v) ==
  /\ ~up[v]
  /\ up' = [up EXCEPT ![v] = TRUE]
  /\ seen' = [seen EXCEPT ![v] = time]
  /\ expiry' = [expiry EXCEPT ![v] = time + probeInterval * Second]
  /\ UNCHANGED <<time, entries, peer, history>>

\* a frame that is no distance vector; once the peer is known it changes nothing
OtherFrame ==
  \E f \in Headers :
    /\ ~peer[f.device]
    /\ ~(decodeFrame(f) /\ onReceive(f))
    /\ Read(f, {}, 0, expiry)

-----------------------------------------------------------------------------
(* This node.                                                              *)

\* Variant for mutation: an expired route stays.
Forgets(d) == entries

\* Entry::revokeRoute
revokeRoute(d) == [entries EXCEPT ![d].metric = Infinity]

EntryTimeout(d) ==
  /\ Fire(Self, d)
  /\ entries' = revokeRoute(d)
  /\ UNCHANGED <<peer, up, history>>

Passes ==
  /\ time < MaxTime
  /\ Pass
  /\ UNCHANGED <<entries, peer, up, history>>

Looks(l) == Look(l) /\ UNCHANGED <<entries, peer, up, history>>

Next ==
  \/ \E v \in Devices : Advertise(v) \/ ProbeIsLost(v) \/ Stops(v) \/ Starts(v)
  \/ OtherFrame
  \/ \E d \in Dests : EntryTimeout(d)
  \/ Passes \/ \E l \in Loops : Looks(l)

Spec == Init /\ [][Next]_vars

-----------------------------------------------------------------------------
(* Properties.                                                             *)

\* The routes and their timers have the types of the code's members.
TypeOK ==
  /\ time \in Nat /\ seen \in [Loops -> Nat] /\ expiry \in [Alarms -> Nat]
  /\ entries \in [Dests -> [device : Devices \cup {NoDevice}, metric : 0..Infinity]]
  /\ peer \in [Devices -> BOOLEAN]
  /\ up \in [Devices -> BOOLEAN] /\ missed \in [Devices -> BOOLEAN]
  /\ heard \in [Devices -> Nat] /\ inherited \in [Dests -> BOOLEAN]

Valid(d) == entries[d].metric < Infinity

\* A route that lookup() would give has a timer that is set, also when it was
\* revoked and then learnt again from the same or from another neighbour.
RouteHasTimer == \A d \in Dests : Valid(d) => Armed(d)

\* A route dies with its neighbour: validInterval, and the second and the
\* rounding an alarm may be late, after the last vector of its device.
RouteDies ==
  \A d \in Dests :
    Valid(d) => time <= heard[entries[d].device] + (validInterval + 1) * Second + Rounding

\* A route lives with its neighbour: it is revoked only if a probe of its
\* device has been missing, however old the time was that the loop had seen and
\* however late the neighbour's probe was.  The exception is a route that moved
\* to another device less than a second after a vector of the old one: keepAlive
\* leaves the old deadline, which may then come before the next probe.
KeptWhileHeard ==
  [][\A d \in Dests :
       Armed(d) /\ expiry'[d] = 0 => missed[entries[d].device] \/ inherited[d]]_vars

\* A packet is never routed to an address that is not known: decodeFrame has
\* learnt the peer of the device of every dynamic route.
PeerKnown == \A d \in Dests : entries[d] # Absent => peer[entries[d].device]
=============================================================================
