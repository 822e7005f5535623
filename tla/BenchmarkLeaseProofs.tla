------------------------- MODULE BenchmarkLeaseProofs -------------------------
(***************************************************************************)
(* Lemmas about the operators of BenchmarkLease, for every module that     *)
(* takes its steps: what each operation of the service keeps, and how it   *)
(* may move the run.                                                       *)
(***************************************************************************)
EXTENDS BenchmarkLease, TLAPS

-----------------------------------------------------------------------------
(* The invariant of the service, as a predicate on its states so that the    *)
(* lemmas can speak of the states between two operations of one call.        *)

Unexpired(s) ==
  Active(s) =>
    /\ s.last_time < s.lease.expiry
    /\ s.lease.expiry <= s.last_time + s.lease.config.lease * UsPerMs

Following(s) ==
  /\ Active(s) =>
       /\ configuration_valid(s.lease.config)
       /\ \A i \in Streams : s.schedules[i].period = s.lease.config.period[i]
       /\ ~s.exhausted
  /\ ~Active(s) => s.schedules = IdleSchedules
  /\ s.exhausted => s.epoch = MaxEpoch

Sound(s) == s \in ServiceState /\ Unexpired(s) /\ Following(s)

\* The part of a service state that says which run it is in.
RunOf(s) == <<s.epoch, s.exhausted, s.lease>>

-----------------------------------------------------------------------------
(* Types of the components.                                                  *)

LEMMA IdleType == IdleSchedules \in [Streams -> Publication]
<1>1. 0 \in 0..(SequenceMod - 1)
  BY LeaseAssumption
<1> QED
  BY <1>1 DEF IdleSchedules, Publication, Times

LEMMA CounterTypes ==
  ASSUME NEW c \in CounterState
  PROVE  /\ NewCounters \in CounterState
         /\ Received(c) \in CounterState
         /\ \A crc \in BOOLEAN : Rejected(c, crc) \in CounterState
         /\ \A n \in Nat : Skip(c, n) \in CounterState
<1>1. \A n \in CounterRange, k \in Nat : SatAdd(n, k) \in CounterRange
  BY CounterAssumption DEF SatAdd, CounterRange
<1>2. 0 \in CounterRange
  BY CounterAssumption DEF CounterRange
<1> QED
  BY <1>1, <1>2 DEF NewCounters, Received, Rejected, Skip, CounterState, Sockets

LEMMA SaturationTypes ==
  ASSUME NEW a \in Nat, NEW b \in Nat
  PROVE  SatSub(a, b) \in Nat /\ SatSub(a, b) <= a /\ AtMost(a, b) \in 0..a
BY DEF SatSub, AtMost

-----------------------------------------------------------------------------
(* Ending a run.                                                             *)

\* End() turns the streams off, frees the board and moves on to the next epoch.
LEMMA EndSound ==
  ASSUME NEW s \in ServiceState, Following(s)
  PROVE  /\ End(s) \in ServiceState
         /\ ~Active(End(s))
         /\ Following(End(s))
         /\ End(s).last_time = s.last_time
         /\ ~Active(s) => End(s) = s
<1>1. CASE ~Active(s)
  BY <1>1 DEF End
<1>2. CASE Active(s)
  <2> DEFINE e == [s EXCEPT !.lease = None, !.schedules = IdleSchedules,
                            !.exhausted = @ \/ s.epoch = MaxEpoch,
                            !.epoch = IF @ = MaxEpoch THEN @ ELSE @ + 1]
  <2>1. End(s) = e
    BY <1>2 DEF End
  <2>2. e.epoch \in Epochs /\ e.exhausted \in BOOLEAN
    BY LeaseAssumption DEF ServiceState, Epochs
  <2>3. e \in ServiceState
    BY <2>2, IdleType DEF ServiceState
  <2>4. e.lease = None /\ e.schedules = IdleSchedules /\ e.last_time = s.last_time
    BY DEF ServiceState
  <2>5. e.exhausted => e.epoch = MaxEpoch
    BY <1>2 DEF Following, ServiceState
  <2> QED
    BY <1>2, <2>1, <2>3, <2>4, <2>5 DEF Following, Active
<1> QED
  BY <1>1, <1>2

-----------------------------------------------------------------------------
(* The passing of time.                                                      *)

\* A rollback ends the run, if there is one, and moves no other clock.
LEMMA RollbackSound ==
  ASSUME NEW s \in ServiceState, Following(s), NEW now \in Times
  PROVE  LET r == [RolledBack(s, now) EXCEPT !.last_time = now] IN
         /\ r \in ServiceState
         /\ Following(r)
         /\ r.last_time = now
         /\ Active(r) => RunOf(r) = RunOf(s) /\ now >= s.last_time
         /\ ~Active(r) => RunOf(r) = RunOf(End(s))
<1> DEFINE r == [RolledBack(s, now) EXCEPT !.last_time = now]
<1>1. CASE now < s.last_time
  <2> DEFINE e == End(s)
  <2>1. e \in ServiceState /\ ~Active(e) /\ Following(e)
    BY EndSound
  <2> HIDE DEF e
  <2>2. r = [[e EXCEPT !.token_time = now] EXCEPT !.last_time = now]
    BY <1>1 DEF RolledBack, e
  <2>3. r \in ServiceState /\ r.last_time = now
    BY <2>1, <2>2 DEF ServiceState
  <2>4. RunOf(r) = RunOf(e) /\ r.schedules = e.schedules /\ r.lease = e.lease
        /\ r.exhausted = e.exhausted /\ r.epoch = e.epoch
    BY <2>1, <2>2 DEF ServiceState, RunOf
  <2>5. ~Active(r) /\ Following(r)
    BY <2>1, <2>4 DEF Active, Following
  <2> QED
    BY <2>3, <2>4, <2>5 DEF e
<1>2. CASE ~(now < s.last_time)
  <2>1. r = [s EXCEPT !.last_time = now]
    BY <1>2 DEF RolledBack
  <2>2. r \in ServiceState /\ r.last_time = now
    BY <2>1 DEF ServiceState
  <2>3. RunOf(r) = RunOf(s) /\ r.schedules = s.schedules /\ r.lease = s.lease
        /\ r.exhausted = s.exhausted /\ r.epoch = s.epoch
    BY <2>1 DEF ServiceState, RunOf
  <2>4. Following(r)
    BY <2>3 DEF Following, Active
  <2>5. now >= s.last_time
    BY <1>2 DEF ServiceState, Times
  <2>6. ~Active(s) => End(s) = s
    BY EndSound
  <2> QED
    BY <2>2, <2>3, <2>4, <2>5, <2>6 DEF Active
<1> QED
  BY <1>1, <1>2

\* The bucket refills within its capacity and touches nothing else.
LEMMA RefillSound ==
  ASSUME NEW s \in ServiceState, NEW now \in Times
  PROVE  /\ Refilled(s, now) \in ServiceState
         /\ RunOf(Refilled(s, now)) = RunOf(s)
         /\ Refilled(s, now).lease = s.lease
         /\ Refilled(s, now).epoch = s.epoch
         /\ Refilled(s, now).exhausted = s.exhausted
         /\ Refilled(s, now).schedules = s.schedules
         /\ Refilled(s, now).counters = s.counters
         /\ Refilled(s, now).last_time = s.last_time
<1> DEFINE sub == SatSub(now, s.token_time)
           refill == sub \div TokenPeriod
           tokens == AtMost(Burst, s.tokens + AtMost(Burst, refill))
           time == IF refill > 0 THEN now - (sub % TokenPeriod) ELSE s.token_time
<1>1. now \in Nat /\ s.token_time \in Nat /\ s.tokens \in Nat
  BY LeaseAssumption DEF ServiceState, Times
<1>2. sub \in Nat /\ sub <= now
  BY <1>1, SaturationTypes
<1>3. refill \in Nat /\ sub % TokenPeriod \in 0..sub
  <2> HIDE DEF sub
  <2>1. \A n \in Nat, d \in Nat \ {0} : n \div d \in Nat /\ n % d \in 0..n
    OBVIOUS
  <2> QED
    BY <1>2, <2>1, LeaseAssumption
<1>4. AtMost(Burst, refill) \in Nat
  BY <1>3, LeaseAssumption DEF AtMost
<1>5. tokens \in 0..Burst
  BY <1>1, <1>4, LeaseAssumption DEF AtMost
<1>6. time \in Times
  <2> HIDE DEF sub, refill
  <2> QED
    BY <1>1, <1>2, <1>3 DEF Times
<1> DEFINE r == [s EXCEPT !.tokens = tokens, !.token_time = time]
<1>7. Refilled(s, now) = r
  BY DEF Refilled
<1> HIDE DEF tokens, time
<1>8. r \in ServiceState
  BY <1>5, <1>6 DEF ServiceState
<1>9. r.lease = s.lease /\ r.epoch = s.epoch /\ r.exhausted = s.exhausted
      /\ r.schedules = s.schedules /\ r.last_time = s.last_time
  BY DEF ServiceState
<1> QED
  BY <1>7, <1>8, <1>9 DEF RunOf

\* After tick() the state is sound at the new time, and the run is the one that
\* was there unless it ended, in which case it ended properly.
LEMMA TickSound ==
  ASSUME NEW s, Sound(s), NEW now \in Times
  PROVE  /\ Sound(Tick(s, now))
         /\ Tick(s, now).last_time = now
         /\ Active(Tick(s, now)) => RunOf(Tick(s, now)) = RunOf(s)
         /\ ~Active(Tick(s, now)) => RunOf(Tick(s, now)) = RunOf(End(s))
<1> DEFINE r == [RolledBack(s, now) EXCEPT !.last_time = now]
           e == IF Expired(r, now) THEN End(r) ELSE r
           t == Tick(s, now)
<1>1. /\ r \in ServiceState /\ Following(r) /\ r.last_time = now
      /\ Active(r) => RunOf(r) = RunOf(s) /\ now >= s.last_time
      /\ ~Active(r) => RunOf(r) = RunOf(End(s))
  BY RollbackSound DEF Sound
<1>2. t = Refilled(e, now)
  BY DEF Tick
<1> HIDE DEF r, t
<1>3. /\ e \in ServiceState /\ Following(e) /\ e.last_time = now
      /\ Active(e) => e = r /\ now < r.lease.expiry
      /\ ~Active(e) => RunOf(e) = RunOf(End(r))
  <2>1. CASE Expired(r, now)
    BY <2>1, <1>1, EndSound
  <2>2. CASE ~Expired(r, now)
    <3>1. Active(r) => r.lease \in Lease
      BY <1>1 DEF Active, ServiceState
    <3>2. Active(r) => now < r.lease.expiry
      BY <2>2, <3>1 DEF Expired, Lease, Times
    <3>3. ~Active(r) => End(r) = r
      BY <1>1, EndSound
    <3> QED
      BY <1>1, <2>2, <3>2, <3>3
  <2> QED
    BY <2>1, <2>2
<1> HIDE DEF e
<1>4. /\ t \in ServiceState /\ RunOf(t) = RunOf(e) /\ t.lease = e.lease
      /\ t.epoch = e.epoch /\ t.exhausted = e.exhausted
      /\ t.schedules = e.schedules /\ t.last_time = now
  BY <1>2, <1>3, RefillSound
<1>5. Following(t) /\ (Active(t) <=> Active(e))
  BY <1>3, <1>4 DEF Following, Active
<1>6. Active(t) => RunOf(t) = RunOf(s) /\ t.lease = s.lease /\ now >= s.last_time
                  /\ now < s.lease.expiry /\ Active(s)
  BY <1>1, <1>3, <1>4, <1>5 DEF RunOf, Active
<1>7. Unexpired(t)
  <2> SUFFICES ASSUME Active(t)
               PROVE  /\ now < s.lease.expiry
                      /\ s.lease.expiry <= now + s.lease.config.lease * UsPerMs
    BY <1>4, <1>6 DEF Unexpired
  <2> DEFINE worth == s.lease.config.lease * UsPerMs
  <2>1. s.lease \in Lease /\ s.lease.config \in Configuration
    BY <1>6 DEF Sound, ServiceState, Active, Lease
  <2>2. worth \in Nat /\ s.last_time \in Nat /\ s.lease.expiry \in Nat
    BY <2>1, LeaseAssumption DEF Sound, ServiceState, Times, Lease, Configuration
  <2>3. s.lease.expiry <= s.last_time + worth
    BY <1>6 DEF Sound, Unexpired
  <2> HIDE DEF worth
  <2>4. s.lease.expiry <= now + worth
    BY <1>6, <2>2, <2>3 DEF Times
  <2> QED
    BY <1>6, <2>4 DEF worth
<1>8. ~Active(t) => RunOf(t) = RunOf(End(s))
  <2> SUFFICES ASSUME ~Active(t) PROVE RunOf(End(r)) = RunOf(End(s))
    BY <1>3, <1>4, <1>5
  <2>1. CASE Active(r)
    BY <2>1, <1>1 DEF RunOf, End, Active, Sound, ServiceState
  <2>2. CASE ~Active(r)
    BY <2>2, <1>1, EndSound
  <2> QED
    BY <2>1, <2>2
<1> QED
  BY <1>4, <1>5, <1>6, <1>7, <1>8 DEF Sound, t

-----------------------------------------------------------------------------
(* Controls.                                                                 *)

\* How one operation may move the run: not at all, or by the end of the run, an
\* acquisition of the idle board, or a renewal with a larger identity.
Ends(s, t) == Active(s) /\ RunOf(t) = RunOf(End(s))
Grants(s, t) ==
  /\ ~Active(s) /\ ~s.exhausted
  /\ Active(t) /\ ~t.exhausted /\ t.epoch = s.epoch
Renews(s, t) ==
  /\ Active(s) /\ Active(t)
  /\ t.epoch = s.epoch /\ t.exhausted = s.exhausted
  /\ t.lease.client = s.lease.client
  /\ t.lease.last.id > s.lease.last.id
Moves(s, t) == RunOf(t) = RunOf(s) \/ Ends(s, t) \/ Grants(s, t) \/ Renews(s, t)

\* The leases an accepted configuration and an accepted renewal leave.
Granted(m, now) ==
  [client |-> m.client, config |-> m.config, last |-> ControlOf(m),
   expiry |-> now + m.config.lease * UsPerMs]
Renewed(lease, m, now) ==
  [lease EXCEPT !.last = ControlOf(m), !.expiry = now + lease.config.lease * UsPerMs]

\* The effect of a control, by the code it is answered with.
CarriesOut(s, m, now, t) ==
  \/ /\ Assess(s, m) = "APPLIED" /\ m.kind = "configure"
     /\ Grants(s, t) /\ t.lease = Granted(m, now)
  \/ /\ Assess(s, m) = "APPLIED" /\ m.kind = "renew"
     /\ Renews(s, t) /\ t.lease = Renewed(s.lease, m, now)
  \/ Assess(s, m) = "STOPPED" /\ m.kind = "stop" /\ Ends(s, t)
  \/ Assess(s, m) \notin {"APPLIED", "STOPPED"} /\ RunOf(t) = RunOf(s)

\* What the operators need to know of a request.
WellFormed(m) ==
  /\ m.client \in Clients
  /\ m.id \in Nat
  /\ m.addressed \in BOOLEAN
  /\ m.kind \in {"configure", "renew", "stop", "capabilities", "probe"}
  /\ m.kind = "configure" => m.config \in Configuration
  /\ m.kind \in {"configure", "renew", "stop"} => ControlOf(m) \in Control

\* What Assess has checked when it accepts a control.
LEMMA AcceptedMeans ==
  ASSUME NEW s, NEW m, Assess(s, m) \in {"APPLIED", "STOPPED"},
         m.kind \in {"configure", "renew", "stop"},
         Active(s) => s.lease.last.id \in Nat, m.id \in Nat
  PROVE  /\ m.epoch = s.epoch
         /\ ~s.exhausted
         /\ m.kind = "configure" => ~Active(s) /\ configuration_valid(m.config)
         /\ m.kind # "configure" =>
              Active(s) /\ s.lease.client = m.client /\ m.id > s.lease.last.id
BY DEF Assess, Owner

LEMMA AcquireSound ==
  ASSUME NEW s, Sound(s), NEW m, WellFormed(m), NEW now \in Times,
         m.kind = "configure", Assess(s, m) = "APPLIED", s.last_time = now
  PROVE  /\ Sound(Applied(s, m, now)) /\ Applied(s, m, now).last_time = now
         /\ Grants(s, Applied(s, m, now)) /\ Applied(s, m, now).lease = Granted(m, now)
<1> DEFINE worth == m.config.lease * UsPerMs
           lease == [client |-> m.client, config |-> m.config, last |-> ControlOf(m),
                     expiry |-> now + worth]
           schedules == [i \in Streams |-> [due |-> now + m.config.period[i],
                                            period |-> m.config.period[i],
                                            sequence |-> 0]]
           a == Applied(s, m, now)
<1>1. /\ s \in ServiceState /\ ~s.exhausted /\ ~Active(s)
      /\ configuration_valid(m.config)
      /\ m.config \in Configuration /\ ControlOf(m) \in Control /\ m.client \in Clients
  <2>1. s \in ServiceState /\ (Active(s) => s.lease.last.id \in Nat)
    BY DEF Sound, ServiceState, Active, Lease, Control
  <2>2. m.id \in Nat /\ m.config \in Configuration /\ ControlOf(m) \in Control
        /\ m.client \in Clients
    BY DEF WellFormed
  <2> QED
    BY <2>1, <2>2, AcceptedMeans
<1>2. a = [s EXCEPT !.schedules = schedules, !.counters = Received(NewCounters), !.lease = lease]
  <2> HIDE DEF worth, schedules
  <2> DEFINE q == [s EXCEPT !.schedules = schedules, !.counters = NewCounters,
                      !.lease = [client |-> m.client, config |-> m.config,
                                 last |-> ControlOf(m), expiry |-> 0]]
  <2>1. Acquired(s, m, now) = q
    BY DEF Acquired, schedules
  <2>2. q.lease = [client |-> m.client, config |-> m.config,
                   last |-> ControlOf(m), expiry |-> 0] /\ q.counters = NewCounters
    BY <1>1 DEF ServiceState
  <2>3. a = [[q EXCEPT !.counters = Received(@)]
                EXCEPT !.lease.last = ControlOf(m),
                       !.lease.expiry = now + q.lease.config.lease * UsPerMs]
    BY <2>1 DEF Applied
  <2> QED
    BY <1>1, <2>2, <2>3, ZenonT(30) DEF ServiceState, worth
<1>3. worth \in Nat \ {0}
  <2>1. m.config.lease \in Nat \ {0}
    BY <1>1, LeaseAssumption DEF Configuration, configuration_valid
  <2>2. \A x, y \in Nat \ {0} : x * y \in Nat \ {0}
    OBVIOUS
  <2> QED
    BY <2>1, <2>2, LeaseAssumption
<1>4. lease \in Lease
  <2> HIDE DEF worth
  <2> QED
    BY <1>1, <1>3 DEF Lease, Times
<1>5. schedules \in [Streams -> Publication]
  <2>1. 0 \in 0..(SequenceMod - 1)
    BY LeaseAssumption
  <2> QED
    BY <1>1, <2>1 DEF Configuration, Publication, Times
<1>6. Received(NewCounters) \in CounterState
  BY <1>1, CounterTypes DEF ServiceState
<1> HIDE DEF lease, schedules, a
<1>7. a \in ServiceState
  BY <1>1, <1>2, <1>4, <1>5, <1>6 DEF ServiceState
<1>8. /\ a.lease = lease /\ a.schedules = schedules /\ a.epoch = s.epoch
      /\ a.exhausted = s.exhausted /\ a.last_time = now
  BY <1>1, <1>2 DEF ServiceState
<1>9. Active(a)
  BY <1>4, <1>8, NoneAssumption DEF Active
<1>10. Unexpired(a)
  <2> HIDE DEF worth
  <2> QED
    BY <1>3, <1>8 DEF Unexpired, lease, worth, Times
<1>11. Following(a)
  BY <1>1, <1>8, <1>9 DEF Following, lease, schedules
<1> QED
  BY <1>1, <1>7, <1>8, <1>9, <1>10, <1>11 DEF Sound, Grants, Granted, lease, a

LEMMA RenewSound ==
  ASSUME NEW s, Sound(s), NEW m, WellFormed(m), NEW now \in Times,
         m.kind = "renew", Assess(s, m) = "APPLIED", s.last_time = now
  PROVE  /\ Sound(Applied(s, m, now)) /\ Applied(s, m, now).last_time = now
         /\ Renews(s, Applied(s, m, now))
         /\ Applied(s, m, now).lease = Renewed(s.lease, m, now)
<1> DEFINE worth == s.lease.config.lease * UsPerMs
           lease == [s.lease EXCEPT !.last = ControlOf(m), !.expiry = now + worth]
           a == Applied(s, m, now)
<1>1. s \in ServiceState /\ (Active(s) => s.lease \in Lease)
  BY DEF Sound, ServiceState, Active
<1>2. /\ ~s.exhausted /\ Active(s) /\ s.lease \in Lease /\ m.id > s.lease.last.id
      /\ ControlOf(m) \in Control
  BY <1>1, AcceptedMeans DEF Lease, Control, WellFormed
<1>3. a = [s EXCEPT !.counters = Received(@), !.lease = lease]
  BY <1>1, <1>2 DEF Applied, ServiceState, Lease
<1>4. worth \in Nat \ {0}
  <2>1. s.lease.config.lease \in Nat \ {0}
    BY <1>2, LeaseAssumption DEF Sound, Following, Lease, Configuration, configuration_valid
  <2>2. \A x, y \in Nat \ {0} : x * y \in Nat \ {0}
    OBVIOUS
  <2> QED
    BY <2>1, <2>2, LeaseAssumption
<1>5. /\ lease \in Lease /\ lease.client = s.lease.client /\ lease.config = s.lease.config
      /\ lease.last = ControlOf(m) /\ lease.expiry = now + worth
  <2> HIDE DEF worth
  <2>1. now + worth \in Nat
    BY <1>4 DEF Times
  <2> DEFINE expiry == now + worth
  <2> HIDE DEF expiry
  <2>2. lease = [s.lease EXCEPT !.last = ControlOf(m), !.expiry = expiry] /\ expiry \in Nat
    BY <2>1 DEF expiry
  <2> HIDE DEF lease
  <2>3. /\ lease \in Lease /\ lease.client = s.lease.client /\ lease.config = s.lease.config
        /\ lease.last = ControlOf(m) /\ lease.expiry = expiry
    BY <1>2, <2>2 DEF Lease, Times
  <2> QED
    BY <2>3 DEF expiry
<1>6. Received(s.counters) \in CounterState
  BY <1>1, CounterTypes DEF ServiceState
<1> HIDE DEF lease, a
<1>7. a \in ServiceState
  BY <1>1, <1>3, <1>5, <1>6 DEF ServiceState
<1>8. /\ a.lease = lease /\ a.schedules = s.schedules /\ a.epoch = s.epoch
      /\ a.exhausted = s.exhausted /\ a.last_time = now
  BY <1>1, <1>3 DEF ServiceState
<1>9. Active(a)
  BY <1>5, <1>8, NoneAssumption DEF Active
<1>10. Unexpired(a)
  <2>1. a.lease.expiry = now + worth /\ a.lease.config.lease * UsPerMs = worth
    BY <1>5, <1>8
  <2> HIDE DEF worth
  <2> QED
    BY <1>4, <1>8, <2>1 DEF Unexpired, Times
<1>11. Following(a)
  BY <1>2, <1>5, <1>8, <1>9 DEF Following, Sound
<1>12. a.lease.last.id > s.lease.last.id
  BY <1>2, <1>5, <1>8 DEF ControlOf
<1>13. a.lease = Renewed(s.lease, m, now)
  BY <1>8 DEF Renewed, lease
<1> QED
  BY <1>2, <1>5, <1>7, <1>8, <1>9, <1>10, <1>11, <1>12, <1>13 DEF Sound, Renews, a

LEMMA StopSound ==
  ASSUME NEW s, Sound(s), NEW m, WellFormed(m), NEW now \in Times,
         m.kind = "stop", Assess(s, m) = "STOPPED", s.last_time = now
  PROVE  /\ Sound(Applied(s, m, now)) /\ Applied(s, m, now).last_time = now
         /\ Ends(s, Applied(s, m, now))
<1> DEFINE c == [s EXCEPT !.counters = Received(@)]
<1>1. s \in ServiceState /\ (Active(s) => s.lease \in Lease)
  BY DEF Sound, ServiceState, Active
<1>2. Active(s)
  BY <1>1, AcceptedMeans DEF Lease, Control, WellFormed
<1>3. Received(s.counters) \in CounterState
  BY <1>1, CounterTypes DEF ServiceState
<1>4. c \in ServiceState
  BY <1>1, <1>3 DEF ServiceState
<1>5. c.lease = s.lease /\ c.epoch = s.epoch /\ c.exhausted = s.exhausted
      /\ c.schedules = s.schedules /\ c.last_time = now
  BY <1>1 DEF ServiceState
<1>6. Following(c)
  BY <1>5 DEF Following, Active, Sound
<1>7. Applied(s, m, now) = End(c)
  BY DEF Applied
<1>8. RunOf(End(c)) = RunOf(End(s))
  BY <1>1, <1>2, <1>4, <1>5 DEF RunOf, End, Active, ServiceState
<1> HIDE DEF c
<1>9. Sound(End(c)) /\ End(c).last_time = now
  BY <1>4, <1>5, <1>6, EndSound DEF Sound, Unexpired
<1> QED
  BY <1>2, <1>7, <1>8, <1>9 DEF Ends

-----------------------------------------------------------------------------
(* Operations that leave the run alone.                                      *)

\* Changing only the counters, the bucket or the diagnostics keeps a sound state.
Bookkeep(s, counters, tokens, suppressed) ==
  [s EXCEPT !.counters = counters, !.tokens = tokens, !.suppressed_replies = suppressed]

LEMMA BookkeepingSound ==
  ASSUME NEW s, Sound(s), NEW counters \in CounterState, NEW tokens \in 0..Burst,
         NEW suppressed \in CounterRange
  PROVE  /\ Sound(Bookkeep(s, counters, tokens, suppressed))
         /\ RunOf(Bookkeep(s, counters, tokens, suppressed)) = RunOf(s)
         /\ Bookkeep(s, counters, tokens, suppressed).last_time = s.last_time
<1> DEFINE b == Bookkeep(s, counters, tokens, suppressed)
<1>1. b \in ServiceState
  BY DEF Sound, ServiceState, Bookkeep
<1>2. /\ b.lease = s.lease /\ b.epoch = s.epoch /\ b.exhausted = s.exhausted
      /\ b.schedules = s.schedules /\ b.last_time = s.last_time
  BY DEF Sound, ServiceState, Bookkeep
<1> HIDE DEF b
<1>3. Sound(b) /\ RunOf(b) = RunOf(s)
  BY <1>1, <1>2 DEF Sound, Unexpired, Following, Active, RunOf
<1> QED
  BY <1>2, <1>3 DEF b

LEMMA RejectSound ==
  ASSUME NEW s, Sound(s), NEW crc \in BOOLEAN
  PROVE  /\ Sound(Reject(s, crc)) /\ RunOf(Reject(s, crc)) = RunOf(s)
         /\ Reject(s, crc).last_time = s.last_time
<1>1. /\ s \in ServiceState /\ Rejected(s.counters, crc) \in CounterState
      /\ s.tokens \in 0..Burst /\ s.suppressed_replies \in CounterRange
  BY CounterTypes DEF Sound, ServiceState
<1>2. [s EXCEPT !.counters = Rejected(@, crc)] =
      Bookkeep(s, Rejected(s.counters, crc), s.tokens, s.suppressed_replies)
  BY <1>1 DEF ServiceState, Bookkeep
<1>3. CASE Active(s)
  <2>1. Reject(s, crc) = Bookkeep(s, Rejected(s.counters, crc), s.tokens, s.suppressed_replies)
    BY <1>2, <1>3 DEF Reject
  <2> QED
    BY <1>1, <2>1, BookkeepingSound
<1>4. CASE ~Active(s)
  BY <1>4 DEF Reject
<1> QED
  BY <1>3, <1>4

LEMMA BucketSound ==
  ASSUME NEW s, Sound(s), NEW reply
  PROVE  /\ Sound(Bucketed(s, reply).service)
         /\ RunOf(Bucketed(s, reply).service) = RunOf(s)
         /\ Bucketed(s, reply).service.last_time = s.last_time
<1>1. s \in ServiceState /\ s.tokens \in 0..Burst /\ s.counters \in CounterState
      /\ s.suppressed_replies \in CounterRange
  BY DEF Sound, ServiceState
<1>2. SatAdd(s.suppressed_replies, 1) \in CounterRange
  BY <1>1, CounterAssumption DEF SatAdd, CounterRange
<1>3. CASE s.tokens = 0
  <2>1. Bucketed(s, reply).service =
        Bookkeep(s, s.counters, s.tokens, SatAdd(s.suppressed_replies, 1))
    BY <1>1, <1>3 DEF Bucketed, ServiceState, Bookkeep
  <2> QED
    BY <1>1, <1>2, <2>1, BookkeepingSound
<1>4. CASE s.tokens # 0
  <2>1. Bucketed(s, reply).service =
        Bookkeep(s, s.counters, s.tokens - 1, s.suppressed_replies)
    BY <1>1, <1>4 DEF Bucketed, ServiceState, Bookkeep
  <2>2. s.tokens - 1 \in 0..Burst
    BY <1>1, <1>4, LeaseAssumption
  <2> QED
    BY <1>1, <2>1, <2>2, BookkeepingSound
<1> QED
  BY <1>3, <1>4

LEMMA ProbeSound ==
  ASSUME NEW s, Sound(s), NEW m
  PROVE  Sound(HandleProbe(s, m).service) /\ RunOf(HandleProbe(s, m).service) = RunOf(s)
<1>1. s \in ServiceState /\ s.tokens \in 0..Burst /\ s.suppressed_replies \in CounterRange
      /\ Received(s.counters) \in CounterState
  BY CounterTypes DEF Sound, ServiceState
<1>2. CASE ProbeServed(s, m)
  <2>1. HandleProbe(s, m).service =
        Bookkeep(s, Received(s.counters), s.tokens, s.suppressed_replies)
    BY <1>1, <1>2 DEF HandleProbe, ServiceState, Bookkeep
  <2> QED
    BY <1>1, <2>1, BookkeepingSound
<1>3. CASE ~ProbeServed(s, m)
  <2>1. HandleProbe(s, m).service = Reject(s, FALSE)
    BY <1>3 DEF HandleProbe
  <2> QED
    BY <2>1, RejectSound
<1> QED
  BY <1>2, <1>3

-----------------------------------------------------------------------------
(* The calls of the service, each at most one end of the run followed by at  *)
(* most one move.                                                            *)

\* Every call leaves a sound state, and takes the run through tick() and at most
\* one further move.
Result(s, t, final) ==
  /\ Sound(final)
  /\ RunOf(t) = RunOf(s) \/ Ends(s, t)
  /\ Moves(t, final)

\* A clock that does not go back ends a run only at its expiry.
LEMMA TickInTime ==
  ASSUME NEW s, Sound(s), NEW now \in Times, s.last_time <= now
  PROVE  LET t == Tick(s, now) IN
         /\ Sound(t) /\ t.last_time = now
         /\ \/ RunOf(t) = RunOf(s)
            \/ Ends(s, t) /\ now >= s.lease.expiry
<1> DEFINE r == [s EXCEPT !.last_time = now]
           e == IF Expired(r, now) THEN End(r) ELSE r
           t == Tick(s, now)
<1>1. s \in ServiceState /\ Following(s) /\ s.last_time \in Nat /\ now \in Nat
  BY DEF Sound, ServiceState, Times
<1>2. Sound(t) /\ t.last_time = now
  BY TickSound
<1>3. RolledBack(s, now) = s
  BY <1>1 DEF RolledBack
<1>4. t = Refilled(e, now)
  BY <1>3 DEF Tick
<1>5. /\ r \in ServiceState /\ r.lease = s.lease /\ r.epoch = s.epoch
      /\ r.exhausted = s.exhausted /\ r.schedules = s.schedules
  BY <1>1 DEF ServiceState
<1>6. Following(r) /\ RunOf(r) = RunOf(s) /\ RunOf(End(r)) = RunOf(End(s))
  BY <1>1, <1>5 DEF Following, Active, RunOf, End, ServiceState
<1> HIDE DEF r
<1>7. e \in ServiceState
  BY <1>5, <1>6, EndSound
<1> HIDE DEF t
<1>8. RunOf(t) = RunOf(e)
  <2> HIDE DEF e
  <2> QED BY <1>4, <1>7, RefillSound
<1>9. CASE Expired(r, now)
  BY <1>2, <1>5, <1>6, <1>8, <1>9 DEF Ends, Expired, Active, t
<1>10. CASE ~Expired(r, now)
  BY <1>2, <1>6, <1>8, <1>10 DEF t
<1> QED
  BY <1>9, <1>10

LEMMA TickMoves ==
  ASSUME NEW s, Sound(s), NEW now \in Times
  PROVE  LET t == Tick(s, now) IN
         /\ Sound(t) /\ t.last_time = now
         /\ RunOf(t) = RunOf(s) \/ Ends(s, t)
<1>1. s \in ServiceState /\ Following(s)
  BY DEF Sound
<1> QED
  BY <1>1, TickSound, EndSound DEF Ends

\* A control has the effect its code tells and nothing more.
LEMMA ControlSound ==
  ASSUME NEW s, Sound(s), NEW m, WellFormed(m), NEW now \in Times, s.last_time = now,
         m.kind \in {"configure", "renew", "stop"}
  PROVE  LET u == HandleControl(s, m, now).service IN
         Sound(u) /\ u.last_time = now /\ CarriesOut(s, m, now, u) /\ Moves(s, u)
<1> DEFINE code == Assess(s, m)
           effect == IF code \in {"APPLIED", "STOPPED"} THEN Applied(s, m, now)
                     ELSE IF code = "ALREADY_APPLIED" THEN s
                     ELSE Reject(s, FALSE)
           b == HandleControl(s, m, now).service
<1>1. Sound(effect) /\ effect.last_time = now /\ CarriesOut(s, m, now, effect)
  <2>1. CASE code \in {"APPLIED", "STOPPED"}
    <3>1. m.kind = "stop" => code # "APPLIED"
      BY DEF Assess
    <3>2. m.kind # "stop" => code # "STOPPED"
      BY DEF Assess
    <3> QED
      BY <2>1, <3>1, <3>2, AcquireSound, RenewSound, StopSound DEF CarriesOut
  <2>2. CASE code \notin {"APPLIED", "STOPPED"}
    BY <2>2, RejectSound DEF CarriesOut
  <2> QED
    BY <2>1, <2>2
<1>2. \E reply : b = Bucketed(effect, reply).service
  BY DEF HandleControl
<1>3. Sound(b) /\ RunOf(b) = RunOf(effect) /\ b.last_time = now
  <2> PICK reply : b = Bucketed(effect, reply).service
    BY <1>2
  <2> HIDE DEF effect, b
  <2> QED
    BY <1>1, BucketSound
<1> HIDE DEF effect, b
<1>4. b.lease = effect.lease /\ b.epoch = effect.epoch /\ b.exhausted = effect.exhausted
  BY <1>3 DEF RunOf
<1>5. CarriesOut(s, m, now, b)
  BY <1>1, <1>3, <1>4 DEF CarriesOut, Ends, Grants, Renews, Active
<1>6. Moves(s, b)
  BY <1>5 DEF CarriesOut, Moves
<1> QED
  BY <1>3, <1>5, <1>6 DEF b

\* Nothing but the run itself decides what is left of the lease.
LEMMA RemainingOfRun ==
  ASSUME NEW s, NEW t, RunOf(s) = RunOf(t), NEW m, NEW now
  PROVE  Remaining(s, m, now) = Remaining(t, m, now)
BY DEF RunOf, Remaining, Owner, Active

\* What is left of a lease is a whole number of milliseconds that does not reach
\* beyond its expiry.
LEMMA RemainingTyped ==
  ASSUME NEW s, Sound(s), NEW m, NEW now \in Times
  PROVE  /\ Remaining(s, m, now) \in Nat
         /\ Active(s) /\ now <= s.lease.expiry
              => now + Remaining(s, m, now) * UsPerMs <= s.lease.expiry
<1> DEFINE left == SatSub(s.lease.expiry, now)
<1>1. \A n \in Nat, d \in Nat \ {0} : n \div d \in Nat /\ (n \div d) * d <= n
  OBVIOUS
<1>2. UsPerMs \in Nat \ {0} /\ now \in Nat
  BY LeaseAssumption DEF Times
<1>3. CASE ~Active(s)
  BY <1>3 DEF Remaining, Owner
<1>4. CASE Active(s)
  <2>1. s.lease.expiry \in Nat
    BY <1>4 DEF Sound, ServiceState, Active, Lease, Times
  <2>2. left \in Nat /\ (now <= s.lease.expiry => now + left = s.lease.expiry)
    BY <1>2, <2>1 DEF SatSub
  <2>3. Remaining(s, m, now) \in {left \div UsPerMs, 0}
    BY DEF Remaining
  <2> HIDE DEF left
  <2>4. left \div UsPerMs \in Nat /\ (left \div UsPerMs) * UsPerMs <= left
    BY <1>1, <1>2, <2>2
  <2> DEFINE whole == left \div UsPerMs
             worth == whole * UsPerMs
  <2>5. worth \in Nat /\ worth <= left
    BY <1>2, <2>4
  <2>6. CASE Remaining(s, m, now) = whole
    <3> HIDE DEF whole
    <3>1. whole \in Nat
      BY <2>4 DEF whole
    <3>2. Remaining(s, m, now) * UsPerMs = worth
      BY <2>6
    <3> HIDE DEF worth
    <3> QED BY <1>2, <2>1, <2>2, <2>5, <2>6, <3>1, <3>2
  <2>7. CASE Remaining(s, m, now) = 0
    <3>1. Remaining(s, m, now) * UsPerMs = 0
      BY <1>2, <2>7
    <3> QED BY <1>2, <2>1, <2>7, <3>1
  <2> QED BY <2>3, <2>6, <2>7 DEF whole
<1> QED BY <1>3, <1>4

\* The reply to a control tells its code and what is left of the lease afterwards.
LEMMA ControlReply ==
  ASSUME NEW s, Sound(s), NEW m, WellFormed(m), m.epoch \in Epochs, NEW now \in Times,
         s.last_time = now, m.kind \in {"configure", "renew", "stop"}
  PROVE  LET h == HandleControl(s, m, now) IN
         h.reply # None =>
           /\ h.reply \in BucketedReplies
           /\ h.reply = [kind |-> "result", client |-> m.client, epoch |-> m.epoch,
                         id |-> m.id, code |-> Assess(s, m),
                         remaining |-> Remaining(h.service, m, now)]
<1> DEFINE code == Assess(s, m)
           effect == IF code \in {"APPLIED", "STOPPED"} THEN Applied(s, m, now)
                     ELSE IF code = "ALREADY_APPLIED" THEN s
                     ELSE Reject(s, FALSE)
           reply == [kind |-> "result", client |-> m.client, epoch |-> m.epoch, id |-> m.id,
                     code |-> code, remaining |-> Remaining(effect, m, now)]
           h == HandleControl(s, m, now)
<1>1. Sound(effect)
  <2>1. m.kind = "stop" => code # "APPLIED"
    BY DEF Assess
  <2>2. m.kind # "stop" => code # "STOPPED"
    BY DEF Assess
  <2> QED
    BY <2>1, <2>2, AcquireSound, RenewSound, StopSound, RejectSound
<1>2. h = Bucketed(effect, reply)
  BY DEF HandleControl
<1>3. code \in ControlCodes
  BY DEF Assess, ControlCodes
<1> HIDE DEF effect, code
<1>4. reply \in BucketedReplies
  BY <1>1, <1>3, RemainingTyped DEF BucketedReplies, WellFormed
<1>5. RunOf(h.service) = RunOf(effect)
  BY <1>1, <1>2, BucketSound
<1>6. Remaining(h.service, m, now) = Remaining(effect, m, now)
  BY <1>5, RemainingOfRun
<1>7. h.reply \in {None, reply}
  BY <1>2 DEF Bucketed
<1> HIDE DEF h
<1> QED
  BY <1>4, <1>6, <1>7 DEF h, code

LEMMA HandleSound ==
  ASSUME NEW s, Sound(s), NEW m, WellFormed(m), NEW now \in Times
  PROVE  Result(s, Tick(s, now), Handle(s, m, now).service)
<1> DEFINE t == Tick(s, now)
           h == Handle(s, m, now).service
<1>1. Sound(t) /\ t.last_time = now /\ (RunOf(t) = RunOf(s) \/ Ends(s, t))
  BY TickMoves
<1>2. h = IF ~m.addressed THEN Reject(t, FALSE)
          ELSE IF m.kind = "capabilities" THEN Bucketed(t, Capabilities(t, m)).service
          ELSE IF m.kind = "probe" THEN HandleProbe(t, m).service
          ELSE HandleControl(t, m, now).service
  BY DEF Handle
<1> HIDE DEF t, h
<1>3. Sound(h) /\ Moves(t, h)
  <2>1. CASE ~m.addressed
    BY <1>1, <1>2, <2>1, RejectSound DEF Moves
  <2>2. CASE m.addressed /\ m.kind = "capabilities"
    BY <1>1, <1>2, <2>2, BucketSound DEF Moves
  <2>3. CASE m.addressed /\ m.kind = "probe"
    BY <1>1, <1>2, <2>3, ProbeSound DEF Moves
  <2>4. CASE m.addressed /\ m.kind \notin {"capabilities", "probe"}
    <3>1. m.kind \in {"configure", "renew", "stop"}
      BY <2>4 DEF WellFormed
    <3>2. h = HandleControl(t, m, now).service
      BY <1>2, <2>4
    <3> QED
      BY <1>1, <3>1, <3>2, ControlSound
  <2> QED
    BY <2>1, <2>2, <2>3, <2>4
<1> QED
  BY <1>1, <1>3 DEF Result, t, h

LEMMA PublishSound ==
  ASSUME NEW s, Sound(s), NEW i \in Streams, NEW now \in Times
  PROVE  Result(s, Tick(s, now), Publish(s, i, now).service)
<1> DEFINE t == Tick(s, now)
           b == Publish(s, i, now).service
           next == Advanced(t, i, now)
<1>1. Sound(t) /\ t.last_time = now /\ (RunOf(t) = RunOf(s) \/ Ends(s, t))
  BY TickMoves
<1>2. b = IF ~IsDue(t, i, now) THEN t
          ELSE [t EXCEPT !.schedules[i] = next, !.counters = Skip(@, Skipped(t, i, now))]
  BY DEF Publish
<1> HIDE DEF t, b, next
<1>3. ASSUME ~IsDue(t, i, now)
      PROVE  Sound(b) /\ RunOf(b) = RunOf(t)
  BY <1>1, <1>2, <1>3
<1>4. ASSUME IsDue(t, i, now)
      PROVE  Sound(b) /\ RunOf(b) = RunOf(t)
  <2> DEFINE p == t.schedules[i]
             late == now - p.due
  <2>1. /\ t \in ServiceState /\ p \in Publication /\ t.counters \in CounterState
        /\ p.period \in Nat \ {0} /\ late \in Nat /\ p.sequence \in Nat /\ Active(t)
    BY <1>1, <1>4, LeaseAssumption DEF Sound, ServiceState, IsDue, Publication, Times
  <2>2. \A n \in Nat, d \in Nat \ {0} : n \div d \in Nat /\ n % d \in 0..(d - 1)
    OBVIOUS
  <2>3. late \div p.period \in Nat /\ late % p.period \in 0..(p.period - 1)
    <3> HIDE DEF late
    <3> QED
      BY <2>1, <2>2
  <2>4. Skipped(t, i, now) \in Nat
    BY <2>3 DEF Skipped
  <2>5. DueSequence(t, i, now) \in Nat
    BY <2>1, <2>2, <2>4, LeaseAssumption DEF DueSequence
  <2>6. (DueSequence(t, i, now) + 1) % SequenceMod \in 0..(SequenceMod - 1)
    <3>1. DueSequence(t, i, now) + 1 \in Nat
      BY <2>5
    <3> QED
      BY <2>2, <3>1, LeaseAssumption
  <2>7. next \in Publication /\ next.period = p.period
    <3>1. next = [p EXCEPT !.sequence = (DueSequence(t, i, now) + 1) % SequenceMod,
                           !.due = now + (p.period - (late % p.period))]
      BY DEF next, Advanced
    <3>2. now + (p.period - (late % p.period)) \in Nat
      <4> HIDE DEF late, p
      <4> QED
        BY <2>1, <2>3 DEF Times
    <3> HIDE DEF late
    <3> QED
      BY <2>1, <2>6, <3>1, <3>2 DEF Publication, Times
  <2>8. Skip(t.counters, Skipped(t, i, now)) \in CounterState
    BY <2>1, <2>4, CounterTypes
  <2>9. b \in ServiceState
    <3>1. [t.schedules EXCEPT ![i] = next] \in [Streams -> Publication]
      BY <2>1, <2>7 DEF ServiceState
    <3>2. b = [t EXCEPT !.schedules = [t.schedules EXCEPT ![i] = next],
                        !.counters = Skip(t.counters, Skipped(t, i, now))]
      BY <1>2, <1>4, <2>1 DEF ServiceState
    <3> QED
      BY <2>1, <2>8, <3>1, <3>2 DEF ServiceState
  <2>10. /\ b.lease = t.lease /\ b.epoch = t.epoch /\ b.exhausted = t.exhausted
         /\ b.last_time = t.last_time
         /\ \A j \in Streams : b.schedules[j].period = t.schedules[j].period
    BY <1>2, <1>4, <2>1, <2>7 DEF ServiceState
  <2>11. RunOf(b) = RunOf(t) /\ Unexpired(b)
    BY <1>1, <2>10 DEF RunOf, Unexpired, Active, Sound
  <2>12. Following(b)
    BY <1>1, <2>1, <2>10 DEF Following, Active, Sound
  <2> QED
    BY <2>9, <2>11, <2>12 DEF Sound
<1> QED
  BY <1>1, <1>3, <1>4 DEF Result, Moves, t, b

-----------------------------------------------------------------------------
(* New services, and who may change a run.                                    *)

LEMMA NewServiceSound ==
  ASSUME NEW now \in Times
  PROVE  Sound(NewService(now))
<1> DEFINE s == NewService(now)
<1>1. /\ 1 \in Epochs /\ Burst \in 0..Burst /\ 0 \in CounterRange
  BY LeaseAssumption, CounterAssumption DEF Epochs, CounterRange
<1>2. NewCounters \in CounterState
  BY CounterAssumption DEF NewCounters, CounterState, CounterRange
<1>3. s \in ServiceState
  BY <1>1, <1>2, IdleType DEF NewService, ServiceState
<1>4. s.lease = None /\ s.schedules = IdleSchedules /\ ~s.exhausted
  BY DEF NewService
<1> QED
  BY <1>3, <1>4 DEF Sound, Unexpired, Following, Active

Untouched(s, t) ==
  /\ t.lease = s.lease /\ t.epoch = s.epoch /\ t.schedules = s.schedules
  /\ t.counters.skipped = s.counters.skipped

LEMMA RejectUntouched ==
  ASSUME NEW s \in ServiceState, NEW crc
  PROVE  Untouched(s, Reject(s, crc))
BY DEF Untouched, Reject, Rejected, ServiceState, CounterState

LEMMA BucketUntouched ==
  ASSUME NEW s \in ServiceState, NEW reply
  PROVE  Untouched(s, Bucketed(s, reply).service)
BY DEF Untouched, Bucketed, ServiceState

LEMMA ProbeUntouched ==
  ASSUME NEW s \in ServiceState, NEW m
  PROVE  Untouched(s, HandleProbe(s, m).service)
BY RejectUntouched DEF Untouched, HandleProbe, Received, ServiceState, CounterState

\* While the lease lasts, tick() only refills the bucket.
LEMMA TickUntouched ==
  ASSUME NEW s, Sound(s), Active(s), NEW now \in Times,
         s.last_time <= now, now < s.lease.expiry
  PROVE  Untouched(s, Tick(s, now)) /\ Sound(Tick(s, now)) /\ Tick(s, now).last_time = now
<1> DEFINE r == [s EXCEPT !.last_time = now]
<1>1. s \in ServiceState /\ s.last_time \in Nat /\ now \in Nat /\ s.lease.expiry \in Nat
  BY DEF Sound, ServiceState, Active, Lease, Times
<1>2. RolledBack(s, now) = s
  BY <1>1 DEF RolledBack
<1>3. r \in ServiceState /\ Untouched(s, r)
  BY <1>1 DEF ServiceState, Untouched
<1>4. ~Expired(r, now)
  BY <1>1, <1>3 DEF Expired, Untouched
<1>5. Tick(s, now) = Refilled(r, now)
  BY <1>2, <1>4 DEF Tick
<1> HIDE DEF r
<1> QED
  BY <1>3, <1>5, RefillSound, TickMoves DEF Untouched

LEMMA ControlUntouched ==
  ASSUME NEW s, Sound(s), Active(s), NEW m, WellFormed(m), NEW now \in Times,
         m.kind \in {"configure", "renew", "stop"},
         ~(/\ m.kind \in {"renew", "stop"} /\ m.client = s.lease.client
           /\ m.epoch = s.epoch /\ m.id > s.lease.last.id)
  PROVE  Untouched(s, HandleControl(s, m, now).service)
<1>1. s \in ServiceState /\ s.lease.last.id \in Nat /\ m.id \in Nat
  BY DEF Sound, ServiceState, Active, Lease, Control, WellFormed
<1>2. Assess(s, m) \notin {"APPLIED", "STOPPED"}
  BY <1>1, AcceptedMeans
<1> DEFINE effect == IF Assess(s, m) = "ALREADY_APPLIED" THEN s ELSE Reject(s, FALSE)
<1>3. effect \in ServiceState /\ Untouched(s, effect)
  BY <1>1, RejectSound, RejectUntouched DEF Untouched, Sound
<1>4. \E reply : HandleControl(s, m, now).service = Bucketed(effect, reply).service
  BY <1>2 DEF HandleControl
<1> HIDE DEF effect
<1> QED
  BY <1>3, <1>4, BucketUntouched DEF Untouched

LEMMA HandleUntouched ==
  ASSUME NEW s, Sound(s), Active(s), NEW m, WellFormed(m), NEW now \in Times,
         s.last_time <= now, now < s.lease.expiry,
         ~(/\ m.kind \in {"renew", "stop"} /\ m.addressed /\ m.client = s.lease.client
           /\ m.epoch = s.epoch /\ m.id > s.lease.last.id)
  PROVE  Untouched(s, Handle(s, m, now).service)
<1> DEFINE t == Tick(s, now)
           h == Handle(s, m, now).service
<1>1. Untouched(s, t) /\ Sound(t) /\ t.last_time = now
  BY TickUntouched
<1>2. h = IF ~m.addressed THEN Reject(t, FALSE)
          ELSE IF m.kind = "capabilities" THEN Bucketed(t, Capabilities(t, m)).service
          ELSE IF m.kind = "probe" THEN HandleProbe(t, m).service
          ELSE HandleControl(t, m, now).service
  BY DEF Handle
<1> HIDE DEF t, h
<1>3. t \in ServiceState /\ Active(t)
  BY <1>1 DEF Sound, Untouched, Active
<1>4. Untouched(t, h)
  <2>1. CASE ~m.addressed
    BY <1>2, <1>3, <2>1, RejectUntouched
  <2>2. CASE m.addressed /\ m.kind = "capabilities"
    BY <1>2, <1>3, <2>2, BucketUntouched
  <2>3. CASE m.addressed /\ m.kind = "probe"
    BY <1>2, <1>3, <2>3, ProbeUntouched
  <2>4. CASE m.addressed /\ m.kind \notin {"capabilities", "probe"}
    <3>1. m.kind \in {"configure", "renew", "stop"}
      BY <2>4 DEF WellFormed
    <3>2. h = HandleControl(t, m, now).service
      BY <1>2, <2>4
    <3>3. ~(/\ m.kind \in {"renew", "stop"} /\ m.client = t.lease.client
            /\ m.epoch = t.epoch /\ m.id > t.lease.last.id)
      BY <1>1, <2>4 DEF Untouched
    <3> QED
      BY <1>1, <1>3, <3>1, <3>2, <3>3, ControlUntouched
  <2> QED
    BY <2>1, <2>2, <2>3, <2>4
<1> QED
  BY <1>1, <1>4 DEF Untouched, h

-----------------------------------------------------------------------------
(* What a call does to the slots: schedules and the count of skipped ones.   *)

FirstSlots(c, now) ==
  [i \in Streams |-> [due |-> now + c.period[i], period |-> c.period[i], sequence |-> 0]]

LEMMA TickSchedules ==
  ASSUME NEW s, Sound(s), NEW now \in Times, Active(Tick(s, now))
  PROVE  /\ Tick(s, now).schedules = s.schedules /\ RunOf(Tick(s, now)) = RunOf(s) /\ Active(s)
         /\ Tick(s, now).counters = s.counters
<1> DEFINE r == [RolledBack(s, now) EXCEPT !.last_time = now]
           e == IF Expired(r, now) THEN End(r) ELSE r
           t == Tick(s, now)
<1>1. s \in ServiceState /\ Following(s) /\ r \in ServiceState /\ Following(r)
  BY RollbackSound DEF Sound
<1>2. t = Refilled(e, now)
  BY DEF Tick
<1>3. RolledBack(s, now) # s => ~Active(r)
  <2> SUFFICES ASSUME RolledBack(s, now) # s PROVE r.lease = None
    BY DEF Active
  <2>1. RolledBack(s, now) = [End(s) EXCEPT !.token_time = now]
    BY DEF RolledBack
  <2>2. End(s) \in ServiceState /\ End(s).lease = None
    BY <1>1, EndSound DEF Active
  <2> QED
    BY <2>1, <2>2 DEF ServiceState
<1>4. RolledBack(s, now) = s => r.schedules = s.schedules /\ r.counters = s.counters
  BY <1>1 DEF ServiceState
<1> HIDE DEF r, t
<1>5. e \in ServiceState /\ (Active(e) => e = r)
  BY <1>1, EndSound
<1> HIDE DEF e
<1>6. t.lease = e.lease /\ t.schedules = e.schedules /\ t.counters = e.counters
  BY <1>2, <1>5, RefillSound
<1>7. t.schedules = s.schedules /\ t.counters = s.counters
  BY <1>3, <1>4, <1>5, <1>6 DEF Active, t
<1>8. RunOf(t) = RunOf(s)
  BY TickSound DEF t
<1> QED
  BY <1>7, <1>8 DEF t, RunOf, Active

\* A control acquires a run with fresh schedules, or leaves the schedules of a run alone.
LEMMA ControlSchedules ==
  ASSUME NEW s, Sound(s), NEW m, WellFormed(m), NEW now \in Times, s.last_time = now,
         m.kind \in {"configure", "renew", "stop"},
         Active(HandleControl(s, m, now).service)
  PROVE  LET u == HandleControl(s, m, now).service IN
         \/ /\ Active(s) /\ u.schedules = s.schedules /\ u.epoch = s.epoch
            /\ u.counters.skipped = s.counters.skipped
         \/ /\ Grants(s, u) /\ m.config \in Configuration
            /\ u.schedules = FirstSlots(m.config, now) /\ u.counters.skipped = 0
<1> DEFINE code == Assess(s, m)
           effect == IF code \in {"APPLIED", "STOPPED"} THEN Applied(s, m, now)
                     ELSE IF code = "ALREADY_APPLIED" THEN s
                     ELSE Reject(s, FALSE)
           u == HandleControl(s, m, now).service
<1>1. PICK reply : HandleControl(s, m, now) = Bucketed(effect, reply)
  BY DEF HandleControl
<1>2. s \in ServiceState
  BY DEF Sound
<1>3. Sound(u) /\ CarriesOut(s, m, now, u)
  BY ControlSound
<1>4. CASE code \notin {"APPLIED", "STOPPED"}
  <2>1. effect \in ServiceState /\ Untouched(s, effect)
    BY <1>2, <1>4, RejectSound, RejectUntouched DEF Untouched, Sound
  <2>2. Untouched(effect, u)
    BY <1>1, <2>1, BucketUntouched
  <2> QED
    BY <2>1, <2>2 DEF Untouched, Active
<1>5. CASE code \in {"APPLIED", "STOPPED"}
  <2>1. m.kind # "stop"
    BY <1>3, <1>5, EndSound DEF CarriesOut, Ends, RunOf, Active, Assess, Sound
  <2>2. code = "APPLIED"
    BY <1>5, <2>1 DEF Assess
  <2>3. Applied(s, m, now) \in ServiceState
    BY <2>1, <2>2, AcquireSound, RenewSound DEF Sound
  <2>4. Untouched(Applied(s, m, now), u)
    BY <1>1, <2>2, <2>3, BucketUntouched
  <2>5. CASE m.kind = "configure"
    <3>1. /\ Applied(s, m, now).schedules = FirstSlots(m.config, now)
          /\ Applied(s, m, now).counters = Received(NewCounters)
      BY <1>2, <2>5 DEF Applied, Acquired, FirstSlots, ServiceState
    <3>3. Received(NewCounters).skipped = 0
      BY DEF Received, NewCounters
    <3>2. Grants(s, u) /\ m.config \in Configuration
      BY <1>3, <2>2, <2>5 DEF CarriesOut, WellFormed
    <3> QED
      BY <2>4, <3>1, <3>2, <3>3 DEF Untouched
  <2>6. CASE m.kind = "renew"
    <3>1. /\ Applied(s, m, now).schedules = s.schedules
          /\ Applied(s, m, now).counters.skipped = s.counters.skipped
      BY <1>2, <2>6 DEF Applied, Received, ServiceState, CounterState
    <3>2. Renews(s, u)
      BY <1>3, <2>2, <2>6 DEF CarriesOut
    <3> QED
      BY <2>4, <3>1, <3>2 DEF Untouched, Renews
  <2> QED
    BY <2>1, <2>5, <2>6
<1> QED
  BY <1>4, <1>5

LEMMA HandleSchedules ==
  ASSUME NEW s, Sound(s), NEW m, WellFormed(m), NEW now \in Times,
         Active(Handle(s, m, now).service)
  PROVE  LET h == Handle(s, m, now).service IN
         \/ /\ Active(s) /\ h.schedules = s.schedules /\ h.epoch = s.epoch
            /\ h.counters.skipped = s.counters.skipped
         \/ /\ ~Active(s) \/ h.epoch # s.epoch
            /\ m.config \in Configuration /\ h.schedules = FirstSlots(m.config, now)
            /\ h.counters.skipped = 0
<1> DEFINE t == Tick(s, now)
           h == Handle(s, m, now).service
<1>1. Sound(t) /\ t.last_time = now /\ t \in ServiceState
  BY TickSound DEF Sound
<1>2. h = IF ~m.addressed THEN Reject(t, FALSE)
          ELSE IF m.kind = "capabilities" THEN Bucketed(t, Capabilities(t, m)).service
          ELSE IF m.kind = "probe" THEN HandleProbe(t, m).service
          ELSE HandleControl(t, m, now).service
  BY DEF Handle
<1>3. Active(t) => /\ t.schedules = s.schedules /\ t.epoch = s.epoch /\ Active(s)
                   /\ t.counters = s.counters
  BY TickSchedules DEF RunOf
<1>4. ~Active(t) => RunOf(t) = RunOf(End(s))
  BY TickSound
<1> HIDE DEF t, h
<1>5. \/ Untouched(t, h)
      \/ /\ Active(t) /\ h.schedules = t.schedules /\ h.epoch = t.epoch
         /\ h.counters.skipped = t.counters.skipped
      \/ /\ Grants(t, h) /\ m.config \in Configuration
         /\ h.schedules = FirstSlots(m.config, now) /\ h.counters.skipped = 0
  <2>1. CASE ~m.addressed
    BY <1>1, <1>2, <2>1, RejectUntouched
  <2>2. CASE m.addressed /\ m.kind = "capabilities"
    BY <1>1, <1>2, <2>2, BucketUntouched
  <2>3. CASE m.addressed /\ m.kind = "probe"
    BY <1>1, <1>2, <2>3, ProbeUntouched
  <2>4. CASE m.addressed /\ m.kind \notin {"capabilities", "probe"}
    <3>1. m.kind \in {"configure", "renew", "stop"} /\ h = HandleControl(t, m, now).service
      BY <1>2, <2>4 DEF WellFormed
    <3> QED
      BY <1>1, <3>1, ControlSchedules DEF h
  <2> QED
    BY <2>1, <2>2, <2>3, <2>4
<1>6. CASE Active(t)
  BY <1>3, <1>5, <1>6 DEF Untouched, Grants, h
<1>7. CASE ~Active(t)
  <2>1. /\ Grants(t, h) /\ m.config \in Configuration
        /\ h.schedules = FirstSlots(m.config, now) /\ h.counters.skipped = 0
    BY <1>5, <1>7 DEF Untouched, Active, h
  <2>2. Active(s) => h.epoch # s.epoch
    <3> SUFFICES ASSUME Active(s) PROVE h.epoch # s.epoch
      OBVIOUS
    <3>1. /\ s.epoch = MaxEpoch => End(s).exhausted
          /\ s.epoch # MaxEpoch => End(s).epoch = s.epoch + 1
      BY DEF End, Sound, ServiceState
    <3>2. s.epoch \in Nat
      BY DEF Sound, ServiceState, Epochs
    <3>3. t.exhausted = End(s).exhausted /\ t.epoch = End(s).epoch
      BY <1>4, <1>7 DEF RunOf
    <3>4. ~t.exhausted /\ h.epoch = t.epoch
      BY <2>1 DEF Grants
    <3> QED
      BY <3>1, <3>2, <3>3, <3>4
  <2> QED
    BY <2>1, <2>2 DEF h
<1> QED
  BY <1>6, <1>7

-----------------------------------------------------------------------------
(* The run a client sees.                                                    *)

\* The four abstract variables are determined by the run of the service.
LEMMA ViewOfRun ==
  ASSUME NEW s, NEW t, RunOf(s) = RunOf(t)
  PROVE  /\ RunNumber(s) = RunNumber(t) /\ RunHolder(s) = RunHolder(t)
         /\ RunLast(s) = RunLast(t) /\ RunDeadline(s) = RunDeadline(t)
BY DEF RunOf, RunNumber, RunHolder, RunLast, RunDeadline, Active

LEMMA ViewTypes ==
  ASSUME NEW s, Sound(s)
  PROVE  /\ RunNumber(s) \in 1..(MaxEpoch + 1)
         /\ RunLast(s) \in Nat /\ RunDeadline(s) \in Nat
         /\ Active(s) => RunNumber(s) <= MaxEpoch /\ RunHolder(s) \in Clients /\ RunHolder(s) # None
<1>1. /\ s.epoch \in 1..MaxEpoch
      /\ Active(s) => s.lease \in Lease /\ ~s.exhausted
  BY DEF Sound, ServiceState, Active, Epochs, Following
<1> QED
  BY <1>1, LeaseAssumption, ClientAssumption
     DEF RunNumber, RunHolder, RunLast, RunDeadline, Lease, Control, Times

\* An ended run has the next number and no holder.
LEMMA EndView ==
  ASSUME NEW s, Sound(s), Active(s), NEW t, RunOf(t) = RunOf(End(s))
  PROVE  /\ RunNumber(t) = RunNumber(s) + 1
         /\ RunHolder(t) = None /\ RunLast(t) = 0 /\ RunDeadline(t) = 0
<1>1. s \in ServiceState /\ ~s.exhausted
  BY DEF Sound, Following
<1>2. /\ End(s).lease = None
      /\ End(s).exhausted = (s.epoch = MaxEpoch)
      /\ End(s).epoch = IF s.epoch = MaxEpoch THEN s.epoch ELSE s.epoch + 1
  BY <1>1 DEF End, ServiceState
<1>3. /\ t.lease = None
      /\ t.exhausted = (s.epoch = MaxEpoch)
      /\ t.epoch = IF s.epoch = MaxEpoch THEN s.epoch ELSE s.epoch + 1
  BY <1>2 DEF RunOf
<1>4. ~Active(t)
  BY <1>3 DEF Active
<1>5. RunNumber(t) = RunNumber(s) + 1
  BY <1>1, <1>3, LeaseAssumption DEF RunNumber, ServiceState, Epochs
<1> QED
  BY <1>4, <1>5 DEF RunHolder, RunLast, RunDeadline

\* A grant of the abstract specification between two views of sound states.
LEMMA GrantView ==
  ASSUME NEW s, NEW t, Sound(t), Grants(s, t)
  PROVE  /\ RunNumber(t) = RunNumber(s) /\ RunNumber(t) <= MaxEpoch /\ RunHolder(s) = None
         /\ RunHolder(t) \in Clients /\ RunLast(t) \in Nat /\ RunDeadline(t) \in Nat
BY ViewTypes DEF Grants, RunNumber, RunHolder

LEMMA RenewView ==
  ASSUME NEW s, NEW t, Sound(s), Sound(t), Renews(s, t)
  PROVE  /\ RunNumber(t) = RunNumber(s) /\ RunHolder(t) = RunHolder(s) /\ RunHolder(s) # None
         /\ RunLast(t) \in Nat /\ RunLast(t) > RunLast(s) /\ RunDeadline(t) \in Nat
BY ViewTypes DEF Renews, RunNumber, RunHolder, RunLast
=============================================================================
