----------------------------- MODULE AlarmClock -----------------------------
(***************************************************************************)
(* What an event loop and its alarms promise the code that uses them: an   *)
(* abstract specification, implemented by EpollServer.                     *)
(*                                                                         *)
(* A loop looks at the time now and then, at least once a second.  An      *)
(* alarm is armed for a delay after the time its loop last saw.  It fires  *)
(* when the loop sees that this time has come, and at most a second after  *)
(* it has.  Times are real and in units of Second to the second; Rounding  *)
(* of them make a millisecond, to which the code rounds.                   *)
(***************************************************************************)
EXTENDS Integers

CONSTANTS Loops, Alarms,
          Delays,             \* in seconds
          Second, Rounding

ASSUME AlarmClockAssumption ==
  /\ Second \in Nat \ {0} /\ Rounding \in Nat \ {0}
  /\ Delays \subseteq Nat \ {0}

VARIABLES time,
          seen,    \* the time each loop last saw
          expiry   \* when an alarm is to fire, 0 when it is not armed

alarmVars == <<time, seen, expiry>>

Armed(a) == expiry[a] # 0

\* the times at which an alarm armed now for s seconds may expire
Expiries(l, s) == {seen[l] + s * Second - r : r \in 0..(Rounding - 1)}

Apart(t, u) == IF t < u THEN u - t ELSE t - u

\* update() may leave an alarm alone that would move by less than a second
MayStay(a, e) == Armed(a) /\ Apart(expiry[a], e) < Second

AInit ==
  /\ time \in Nat \ {0}
  /\ seen = [l \in Loops |-> time]
  /\ \A a \in Alarms : Armed(a) => \E l \in Loops, s \in Delays : expiry[a] \in Expiries(l, s)

Look(l) == seen' = [seen EXCEPT ![l] = time] /\ UNCHANGED <<time, expiry>>

Set(l, a, s) ==
  /\ ~Armed(a)
  /\ \E e \in Expiries(l, s) : expiry' = [expiry EXCEPT ![a] = e]
  /\ UNCHANGED <<time, seen>>

Update(l, a, s) ==
  /\ \E e \in Expiries(l, s) :
       \/ expiry' = [expiry EXCEPT ![a] = e]
       \/ MayStay(a, e) /\ UNCHANGED expiry
  /\ UNCHANGED <<time, seen>>

Cancel(a) ==
  /\ Armed(a)
  /\ expiry' = [expiry EXCEPT ![a] = 0]
  /\ UNCHANGED <<time, seen>>

\* the loop has just looked, and seen that the time has come
MayFire(l, a) == Armed(a) /\ seen[l] >= expiry[a] /\ time <= seen[l] + Rounding

Fire(l, a) ==
  /\ MayFire(l, a)
  /\ expiry' = [expiry EXCEPT ![a] = 0]
  /\ UNCHANGED <<time, seen>>

\* no loop sleeps, and no alarm waits, for more than a second
MayPass ==
  /\ \A l \in Loops : time < seen[l] + Second + Rounding
  /\ \A a \in Alarms : Armed(a) => time < expiry[a] + Second + Rounding

Pass == MayPass /\ time' = time + 1 /\ UNCHANGED <<seen, expiry>>

ANext ==
  \/ \E l \in Loops : Look(l)
  \/ \E l \in Loops, a \in Alarms, s \in Delays : Set(l, a, s) \/ Update(l, a, s)
  \/ \E l \in Loops, a \in Alarms : Fire(l, a)
  \/ \E a \in Alarms : Cancel(a)
  \/ Pass

ASpec == AInit /\ [][ANext]_alarmVars
=============================================================================
