------------------------ MODULE BenchmarkServiceProofs ------------------------
(***************************************************************************)
(* Proofs about the benchmark service for every value of its constants:    *)
(* the type invariant, the safety invariants on leases and schedules, the  *)
(* slot grid, the implementation of BenchmarkRun, and the reply budget.    *)
(***************************************************************************)
EXTENDS BenchmarkReplies, BenchmarkLeaseProofs

-----------------------------------------------------------------------------
(* The invariant of the specification.                                       *)

IInv == Sound(service) /\ started \in Times

LEMMA RequestType ==
  ASSUME NEW m \in AllRequests
  PROVE  WellFormed(m)
<1>1. /\ m.client \in Clients /\ m.id \in Ids /\ m.addressed \in BOOLEAN
      /\ m.kind \in {"configure", "renew", "stop", "capabilities", "probe"}
      /\ m.config \in Configurations \cup {None}
      /\ m.kind = "configure" => m.config \in Configurations
  BY DEF AllRequests, Requests
<1> QED
  BY <1>1, ServiceAssumption DEF WellFormed, ControlOf, Control

LEMMA NextSound ==
  ASSUME IInv, [Next]_vars
  PROVE  /\ IInv'
         /\ \/ UNCHANGED service
            \/ Moves(service, service')
            \/ \E t : Ends(service, t) /\ Moves(t, service')
<1>1. CASE UNCHANGED vars
  BY <1>1 DEF IInv, vars
<1>2. ASSUME NEW now \in ClockTimes, TickAt(now)
      PROVE  Sound(service') /\ Moves(service, service') /\ started' \in Times
  BY <1>2, TickMoves, ServiceAssumption DEF IInv, TickAt, Moves, Remember
<1>3. ASSUME EndLocally
      PROVE  Sound(service') /\ Moves(service, service') /\ started' \in Times
  <2>1. service \in ServiceState /\ Following(service)
    BY DEF IInv, Sound
  <2> QED
    BY <1>3, <2>1, EndSound DEF IInv, EndLocally, Moves, Ends, Sound, Unexpired
<1>4. ASSUME NEW m \in AllRequests, NEW now \in ClockTimes, HandleRequest(m, now)
      PROVE  Result(service, Tick(service, now), service') /\ started' \in Times
  BY <1>4, HandleSound, RequestType, ServiceAssumption DEF IInv, HandleRequest, Remember
<1>5. ASSUME NEW crc \in BOOLEAN, RejectDatagram(crc)
      PROVE  Sound(service') /\ Moves(service, service') /\ started' \in Times
  BY <1>5, RejectSound DEF IInv, RejectDatagram, Moves
<1>6. ASSUME NEW i \in Streams, NEW now \in ClockTimes, PublishStream(i, now)
      PROVE  Result(service, Tick(service, now), service') /\ started' \in Times
  BY <1>6, PublishSound, ServiceAssumption DEF IInv, PublishStream, Remember
<1>7. ASSUME NEW t, Result(service, t, service')
      PROVE  Sound(service') /\ (Moves(service, service') \/ (Ends(service, t) /\ Moves(t, service')))
  <2>1. CASE Ends(service, t)
    BY <1>7, <2>1 DEF Result
  <2>2. CASE RunOf(t) = RunOf(service)
    <3>1. t.epoch = service.epoch /\ t.exhausted = service.exhausted /\ t.lease = service.lease
      BY <2>2 DEF RunOf
    <3>2. RunOf(End(t)) = RunOf(End(service))
      BY <3>1 DEF RunOf, Active, End, IInv, Sound, ServiceState
    <3> QED
      BY <1>7, <2>2, <3>1, <3>2 DEF Result, Moves, Ends, Grants, Renews, Active
  <2> QED
    BY <1>7, <2>1, <2>2 DEF Result
<1> QED
  BY <1>1, <1>2, <1>3, <1>4, <1>5, <1>6, <1>7 DEF IInv, Next

\* The service keeps its types, expires leases in time and runs its streams with
\* the accepted configuration, for any number of clients, epochs and instants.
THEOREM Invariance == Spec => []IInv
<1>1. Init => IInv
  BY NewServiceSound, ServiceAssumption DEF Init, IInv
<1>2. IInv /\ [Next]_vars => IInv'
  BY NextSound
<1> QED
  BY <1>1, <1>2, PTL DEF Spec

\* Type correctness of struct Service under every sequence of calls.
THEOREM TypeCorrect == Spec => []TypeOK
<1>1. IInv => TypeOK
  BY DEF IInv, Sound, TypeOK
<1> QED
  BY <1>1, Invariance, PTL

\* No call ever leaves a run past its expiry (tick() before every decision).
THEOREM LeasesExpire == Spec => []LeaseUnexpired
<1>1. IInv => LeaseUnexpired
  BY DEF IInv, Sound, LeaseUnexpired, Unexpired
<1> QED
  BY <1>1, Invariance, PTL

\* The streams are off without a run and follow the configuration of the run.
THEOREM StreamsFollow == Spec => []StreamsFollowRun
<1>1. IInv => StreamsFollowRun
  BY DEF IInv, Sound, StreamsFollowRun, Following
<1> QED
  BY <1>1, Invariance, PTL

-----------------------------------------------------------------------------
(* Refinement of BenchmarkRun.                                               *)

LEMMA RunStep ==
  ASSUME IInv, [Next]_vars
  PROVE  [Run!Next]_(Run!vars)
<1> USE DEF RunNumber, RunHolder, RunLast, RunDeadline
<1>1. Sound(service) /\ Sound(service')
  BY NextSound DEF IInv
<1>2. CASE UNCHANGED service
  BY <1>2 DEF Run!vars, Active
<1>3. CASE Moves(service, service')
  <2>1. CASE RunOf(service') = RunOf(service)
    BY <2>1, ViewOfRun DEF Run!vars
  <2>2. CASE Ends(service, service')
    BY <1>1, <2>2, EndView, ViewTypes DEF Ends, Run!Next, Run!Release
  <2>3. CASE Grants(service, service')
    BY <1>1, <2>3, GrantView DEF Run!Next, Run!Grant
  <2>4. CASE Renews(service, service')
    BY <1>1, <2>4, RenewView DEF Run!Next, Run!Renew
  <2> QED
    BY <1>3, <2>1, <2>2, <2>3, <2>4 DEF Moves
<1>4. ASSUME NEW t, Ends(service, t), Moves(t, service')
      PROVE  [Run!Next]_(Run!vars)
  <2>1. /\ RunNumber(t) = RunNumber(service) + 1 /\ RunHolder(t) = None /\ RunLast(t) = 0
        /\ RunDeadline(t) = 0 /\ RunHolder(service) # None /\ ~Active(t)
    BY <1>1, <1>4, EndView, ViewTypes DEF Ends, Active, RunOf, End, Sound, ServiceState
  <2>2. CASE RunOf(service') = RunOf(t)
    BY <2>1, <2>2, ViewOfRun DEF Run!Next, Run!Release
  <2>3. CASE Grants(t, service')
    BY <1>1, <2>1, <2>3, GrantView DEF Run!Next, Run!Grant
  <2> QED
    BY <1>4, <2>1, <2>2, <2>3 DEF Moves, Ends, Renews
<1> QED
  BY <1>2, <1>3, <1>4, NextSound

\* The service implements the promise of BenchmarkRun: runs are numbered, a number
\* is used once and never after the last, one client holds the board at a time, and
\* only its fresh identities move the deadline.
THEOREM Refinement == Spec => RunSpec
<1>1. Init => Run!Init
  <2> SUFFICES ASSUME NEW now \in ClockTimes, service = NewService(now)
               PROVE  Run!Init
    BY DEF Init
  <2> QED
    BY DEF NewService, Run!Init, Active, RunNumber, RunHolder, RunLast, RunDeadline
<1>2. IInv /\ [Next]_vars => [Run!Next]_(Run!vars)
  BY RunStep
<1> QED
  BY <1>1, <1>2, Invariance, PTL DEF Spec, RunSpec, Run!Spec

-----------------------------------------------------------------------------
(* Who may change a run.                                                     *)

\* While a run lasts, only its owner's renewal or stop with a fresh identity can
\* change it, whatever else arrives and in whatever order.
THEOREM OwnerActs == Spec => []OnlyOwnerActs
<1>1. IInv => OnlyOwnerActs
  <2> SUFFICES ASSUME IInv, Active(service),
                      NEW m \in AllRequests, NEW now \in ClockTimes,
                      service.last_time <= now, now < service.lease.expiry, ~Authorised(m)
               PROVE  Untouched(service, Handle(service, m, now).service)
    BY DEF OnlyOwnerActs, Untouched
  <2> QED
    BY HandleUntouched, RequestType, ServiceAssumption DEF IInv, Authorised
<1> QED
  BY <1>1, Invariance, PTL
-----------------------------------------------------------------------------
(* The slots of a stream.                                                    *)

LEMMA Division ==
  ASSUME NEW n \in Int, NEW d \in Nat \ {0}
  PROVE  /\ n \div d \in Int /\ n % d \in 0..(d - 1)
         /\ n = d * (n \div d) + (n % d)
OBVIOUS

\* A number has one quotient and one remainder.
LEMMA DivisionUnique ==
  ASSUME NEW d \in Nat \ {0}, NEW q \in Int, NEW r \in 0..(d - 1)
  PROVE  (d * q + r) % d = r /\ (d * q + r) \div d = q
<1> DEFINE n == d * q + r
           k == n \div d
           m == n % d
<1>1. n \in Int
  OBVIOUS
<1>2. k \in Int /\ m \in 0..(d - 1) /\ n = d * k + m
  BY <1>1, Division
<1> HIDE DEF k, m
<1>3. ASSUME NEW a \in Int, NEW b \in Int, a < b
      PROVE  d * a + d <= d * b
  <2> DEFINE e == b - a - 1
  <2>1. e \in Nat /\ b = a + 1 + e
    BY <1>3
  <2> HIDE DEF e
  <2>2. d * b = d * a + d + d * e /\ d * e \in Nat
    BY <2>1
  <2> QED
    BY <2>2
<1>4. ~(q < k) /\ ~(k < q)
  <2>1. d * q \in Int /\ d * k \in Int /\ d * q + r = d * k + m
    BY <1>2
  <2> QED
    BY <1>2, <1>3, <2>1
<1>5. q = k
  BY <1>2, <1>4
<1> QED
  BY <1>2, <1>5 DEF k, m

LEMMA RemainderAdded ==
  ASSUME NEW d \in Nat \ {0}, NEW n \in Int, NEW k \in Int
  PROVE  ((n % d) + k) % d = (n + k) % d
<1> DEFINE m == n % d
           p == n \div d
           r == (m + k) % d
           q == (m + k) \div d
<1>1. p \in Int /\ m \in 0..(d - 1) /\ n = d * p + m
  BY Division
<1> HIDE DEF m, p
<1>2. q \in Int /\ r \in 0..(d - 1) /\ m + k = d * q + r
  <2>1. m + k \in Int
    BY <1>1
  <2> QED
    BY <2>1, Division
<1> HIDE DEF q, r
<1>3. n + k = d * (p + q) + r
  BY <1>1, <1>2
<1>4. (d * (p + q) + r) % d = r
  BY <1>1, <1>2, DivisionUnique
<1> QED
  BY <1>3, <1>4 DEF r, m

\* A schedule that began at `origin` and lost no slot.
OnGrid(p, origin) ==
  p.period > 0 =>
    /\ p.due - origin >= p.period
    /\ (p.due - origin) % p.period = 0
    /\ p.sequence = (((p.due - origin) \div p.period) - 1) % SequenceMod

LEMMA FirstSlotOnGrid ==
  ASSUME NEW c \in Configuration, NEW now \in Times, NEW i \in Streams
  PROVE  OnGrid(FirstSlots(c, now)[i], now)
<1> DEFINE d == c.period[i]
           p == FirstSlots(c, now)[i]
<1>1. d \in Nat /\ now \in Nat /\ p = [due |-> now + d, period |-> d, sequence |-> 0]
  BY LeaseAssumption DEF Configuration, Times, FirstSlots
<1>2. p.due = now + d /\ p.period = d /\ p.sequence = 0
  BY <1>1
<1> HIDE DEF d, p
<1>3. p.due - now = d
  BY <1>1, <1>2
<1>4. CASE d > 0
  <2>1. d % d = 0 /\ d \div d = 1
    <3>1. d * 1 + 0 = d /\ 0 \in 0..(d - 1)
      BY <1>1, <1>4
    <3>2. (d * 1 + 0) % d = 0 /\ (d * 1 + 0) \div d = 1
      BY <1>1, <1>4, <3>1, DivisionUnique
    <3> QED
      BY <3>1, <3>2
  <2>2. 0 % SequenceMod = 0
    <3>1. SequenceMod \in Nat \ {0} /\ 0 \in 0..(SequenceMod - 1) /\ SequenceMod * 0 + 0 = 0
      BY LeaseAssumption
    <3>2. (SequenceMod * 0 + 0) % SequenceMod = 0
      BY <3>1, DivisionUnique
    <3> QED
      BY <3>1, <3>2
  <2> QED
    BY <1>1, <1>2, <1>3, <2>1, <2>2 DEF OnGrid, p
<1> QED
  BY <1>1, <1>2, <1>4 DEF OnGrid, p

\* The slot after the newest that is due: a whole number of periods on.
LEMMA NextSlot ==
  ASSUME NEW d \in Nat \ {0}, NEW elapsed \in Nat, elapsed % d = 0, NEW late \in Nat
  PROVE  LET next == elapsed + (late + (d - (late % d))) IN
         /\ next >= d /\ next % d = 0
         /\ next \div d = (elapsed \div d) + (late \div d) + 1
<1> DEFINE a == elapsed \div d
           k == late \div d
           r == late % d
           z == elapsed % d
<1>1. a \in Int /\ elapsed = d * a + z /\ z = 0
  BY Division
<1>2. k \in Int /\ r \in 0..(d - 1) /\ late = d * k + r
  BY Division
<1> HIDE DEF a, k, r, z
<1>3. elapsed + (late + (d - r)) = d * (a + k + 1) + 0 /\ elapsed + (late + (d - r)) >= d
  <2>1. d * (a + k + 1) = d * a + d * k + d /\ d * a \in Int /\ d * k \in Int
    BY <1>1, <1>2
  <2>2. r <= late
    <3>1. k >= 0
      <4>1. CASE k < 0
        <5>1. d * k <= -d
          BY <1>2, <4>1
        <5> QED
          BY <1>2, <5>1
      <4> QED
        BY <1>2, <4>1
    <3>2. d * k \in Nat
      BY <1>2, <3>1
    <3> QED
      BY <1>2, <3>2
  <2> QED
    BY <1>1, <1>2, <2>1, <2>2
<1>4. (d * (a + k + 1) + 0) % d = 0 /\ (d * (a + k + 1) + 0) \div d = a + k + 1
  <2>1. a + k + 1 \in Int /\ 0 \in 0..(d - 1)
    BY <1>1, <1>2
  <2> QED
    BY <2>1, DivisionUnique
<1> QED
  BY <1>3, <1>4 DEF a, k, r

\* publication() keeps the grid and the numbering, however late it is called, and sets the
\* next slot ahead of the clock by at most a period.
LEMMA AdvancedOnGrid ==
  ASSUME NEW s \in ServiceState, NEW i \in Streams, NEW now \in Times, NEW origin \in Times,
         IsDue(s, i, now)
  PROVE  LET p == s.schedules[i]
             n == Advanced(s, i, now) IN
         /\ n.period = p.period /\ now < n.due /\ n.due <= now + p.period /\ p.due <= now
         /\ OnGrid(p, origin) => OnGrid(n, origin)
<1> DEFINE p == s.schedules[i]
           n == Advanced(s, i, now)
           d == p.period
           late == now - p.due
           k == late \div d
           seq == (((p.sequence + k) % SequenceMod) + 1) % SequenceMod
<1>1. /\ p \in Publication /\ d \in Nat \ {0} /\ late \in Nat /\ p.sequence \in Nat
      /\ p.due \in Nat /\ now \in Nat /\ origin \in Nat /\ p.due <= now
  BY LeaseAssumption DEF ServiceState, IsDue, Publication, Times
<1>2. n = [p EXCEPT !.sequence = seq, !.due = now + (d - (late % d))]
  BY DEF Advanced, DueSequence, Skipped
<1>3. n.period = d /\ n.due = now + (d - (late % d)) /\ n.sequence = seq
  <2> HIDE DEF seq, d, late, p, n
  <2> QED
    BY <1>1, <1>2 DEF Publication, d
<1> HIDE DEF seq, n, d, late, k
<1>4. late % d \in 0..(d - 1) /\ k \in Int
  BY <1>1, Division DEF k
<1>5. now < n.due /\ n.due <= now + d
  BY <1>1, <1>3, <1>4
<1>6. ASSUME OnGrid(p, origin)
      PROVE  OnGrid(n, origin)
  <2> DEFINE elapsed == p.due - origin
             next == n.due - origin
             a == elapsed \div d
  <2>1. elapsed \in Nat /\ elapsed >= d /\ elapsed % d = 0 /\ p.sequence = (a - 1) % SequenceMod
    BY <1>1, <1>6 DEF OnGrid, d
  <2>2. next = elapsed + (late + (d - (late % d)))
    BY <1>1, <1>3, <1>4 DEF late
  <2> HIDE DEF elapsed, next
  <2>3. next >= d /\ next % d = 0 /\ next \div d = a + k + 1
    <3>1. elapsed \in Nat /\ elapsed % d = 0 /\ d \in Nat \ {0} /\ late \in Nat
      BY <1>1, <2>1
    <3> QED
      BY <2>2, <3>1, NextSlot DEF k
  <2>4. a \in Int
    BY <1>1, <2>1, Division
  <2> HIDE DEF a
  <2>5. seq = ((a + k + 1) - 1) % SequenceMod
    <3>1. SequenceMod \in Nat \ {0} /\ a - 1 \in Int /\ p.sequence + k \in Int
      BY <1>1, <1>4, <2>4, LeaseAssumption
    <3>2. seq = ((p.sequence + k) + 1) % SequenceMod
      <4> DEFINE b == p.sequence + k
                 j == 1
      <4>1. b \in Int /\ j \in Int /\ seq = ((b % SequenceMod) + j) % SequenceMod
        BY <3>1 DEF seq
      <4> HIDE DEF b, j
      <4>2. ((b % SequenceMod) + j) % SequenceMod = (b + j) % SequenceMod
        BY <3>1, <4>1, RemainderAdded
      <4> QED
        BY <4>1, <4>2 DEF b, j
    <3>3. (p.sequence + k) + 1 = ((a - 1) % SequenceMod) + (k + 1) /\ k + 1 \in Int
      BY <1>1, <1>4, <2>1
    <3>4. (((a - 1) % SequenceMod) + (k + 1)) % SequenceMod = ((a - 1) + (k + 1)) % SequenceMod
      <4> DEFINE b == a - 1
                 j == k + 1
      <4>1. b \in Int /\ j \in Int
        BY <1>4, <3>1
      <4> HIDE DEF b, j
      <4>2. ((b % SequenceMod) + j) % SequenceMod = (b + j) % SequenceMod
        BY <3>1, <4>1, RemainderAdded
      <4> QED
        BY <4>2 DEF b, j
    <3>5. (a - 1) + (k + 1) = (a + k + 1) - 1
      BY <1>4, <2>4
    <3> QED
      BY <3>2, <3>3, <3>4, <3>5
  <2> QED
    BY <1>1, <1>3, <2>3, <2>5 DEF OnGrid, next, d
<1> QED
  BY <1>1, <1>3, <1>5, <1>6 DEF n, d
-----------------------------------------------------------------------------
(* What a step does to the schedules.                                        *)

\* Between two states of one run a schedule stays, or advances because it is due; a new run
\* has fresh schedules.
LEMMA StepSchedules ==
  ASSUME IInv, [Next]_vars, Active(service')
  PROVE  \/ /\ SameRun /\ UNCHANGED started
            /\ \A i \in Streams :
                 \/ service'.schedules[i] = service.schedules[i]
                 \/ /\ IsDue(service, i, service'.last_time)
                    /\ service'.schedules[i] = Advanced(service, i, service'.last_time)
         \/ /\ ~SameRun /\ started' \in Times
            /\ \E c \in Configuration : service'.schedules = FirstSlots(c, started')
<1>1. Sound(service) /\ service \in ServiceState
  BY DEF IInv, Sound
<1>2. CASE UNCHANGED vars
  BY <1>2 DEF vars, SameRun, Active
<1>3. ASSUME NEW now \in ClockTimes, TickAt(now)
      PROVE  SameRun /\ UNCHANGED started /\ service'.schedules = service.schedules
  <2>1. service' = Tick(service, now) /\ now \in Times
    BY <1>3, ServiceAssumption DEF TickAt
  <2>2. /\ service'.schedules = service.schedules /\ RunOf(service') = RunOf(service)
        /\ Active(service)
    BY <1>1, <2>1, TickSchedules
  <2> QED
    BY <1>3, <2>2 DEF RunOf, SameRun, TickAt, Remember
<1>4. ~EndLocally
  BY <1>1, EndSound DEF EndLocally, Sound
<1>5. ASSUME NEW m \in AllRequests, NEW now \in ClockTimes, HandleRequest(m, now)
      PROVE  \/ SameRun /\ UNCHANGED started /\ service'.schedules = service.schedules
             \/ /\ ~SameRun /\ started' \in Times
                /\ \E c \in Configuration : service'.schedules = FirstSlots(c, started')
  <2>1. service' = Handle(service, m, now).service /\ now \in Times /\ WellFormed(m)
    BY <1>5, RequestType, ServiceAssumption DEF HandleRequest
  <2>2. CASE /\ Active(service) /\ service'.schedules = service.schedules
             /\ service'.epoch = service.epoch
    BY <1>5, <2>2 DEF SameRun, HandleRequest, Remember
  <2>3. CASE /\ ~Active(service) \/ service'.epoch # service.epoch
             /\ m.config \in Configuration /\ service'.schedules = FirstSlots(m.config, now)
    BY <1>5, <2>1, <2>3 DEF SameRun, HandleRequest, Remember
  <2> QED
    BY <1>1, <2>1, <2>2, <2>3, HandleSchedules
<1>6. ASSUME NEW crc \in BOOLEAN, RejectDatagram(crc)
      PROVE  SameRun /\ UNCHANGED started /\ service'.schedules = service.schedules
  BY <1>1, <1>6, RejectUntouched DEF RejectDatagram, Untouched, SameRun, Active
<1>7. ASSUME NEW i \in Streams, NEW now \in ClockTimes, PublishStream(i, now)
      PROVE  /\ SameRun /\ UNCHANGED started
             /\ \A j \in Streams :
                  \/ service'.schedules[j] = service.schedules[j]
                  \/ /\ IsDue(service, j, service'.last_time)
                     /\ service'.schedules[j] = Advanced(service, j, service'.last_time)
  <2> DEFINE t == Tick(service, now)
             next == Advanced(t, i, now)
  <2>1. now \in Times /\ Sound(t) /\ t.last_time = now /\ t \in ServiceState
    BY <1>1, TickSound, ServiceAssumption DEF Sound
  <2>2. service' = IF ~IsDue(t, i, now) THEN t
                   ELSE [t EXCEPT !.schedules[i] = next, !.counters = Skip(@, Skipped(t, i, now))]
    BY <1>7 DEF PublishStream, Publish
  <2>3. Active(t) => /\ t.schedules = service.schedules /\ t.epoch = service.epoch
                     /\ Active(service)
    BY <1>1, <2>1, TickSchedules DEF RunOf
  <2> HIDE DEF t, next
  <2>4. /\ service'.lease = t.lease /\ service'.epoch = t.epoch /\ service'.last_time = now
        /\ \A j \in Streams : service'.schedules[j] = t.schedules[j]
                              \/ (j = i /\ IsDue(t, i, now) /\ service'.schedules[i] = next)
    BY <2>1, <2>2 DEF ServiceState
  <2>5. /\ Active(service) /\ service'.epoch = service.epoch
        /\ t.schedules = service.schedules /\ Active(t)
    BY <2>3, <2>4 DEF Active
  <2>6. next = Advanced(service, i, now) /\ (IsDue(t, i, now) => IsDue(service, i, now))
    BY <2>5 DEF next, Advanced, DueSequence, Skipped, IsDue
  <2> QED
    BY <1>7, <2>4, <2>5, <2>6 DEF SameRun, PublishStream, Remember
<1> QED
  BY <1>2, <1>3, <1>4, <1>5, <1>6, <1>7 DEF Next

GridStands == Active(service) => \A i \in Streams : OnGrid(service.schedules[i], started)

\* The next slot of an enabled stream is a whole number of periods after the start of its
\* run and its number counts the slots before, however late publication() is called.
THEOREM GridKept == Spec => []SlotsOnGrid
<1>1. Init => GridStands
  BY DEF Init, NewService, GridStands, Active
<1>2. IInv /\ GridStands /\ [Next]_vars => GridStands'
  <2> SUFFICES ASSUME IInv, GridStands, [Next]_vars, Active(service'), NEW i \in Streams
               PROVE  OnGrid(service'.schedules[i], started')
    BY DEF GridStands
  <2>1. service \in ServiceState /\ started \in Times /\ service'.last_time \in Times
    BY NextSound DEF IInv, Sound, ServiceState
  <2>2. ASSUME SameRun, UNCHANGED started,
               \/ service'.schedules[i] = service.schedules[i]
               \/ /\ IsDue(service, i, service'.last_time)
                  /\ service'.schedules[i] = Advanced(service, i, service'.last_time)
        PROVE  OnGrid(service'.schedules[i], started')
    <3>1. OnGrid(service.schedules[i], started)
      BY <2>2 DEF SameRun, GridStands
    <3>2. IsDue(service, i, service'.last_time) =>
            OnGrid(Advanced(service, i, service'.last_time), started)
      BY <2>1, <3>1, AdvancedOnGrid
    <3> QED
      BY <2>2, <3>1, <3>2
  <2>3. ASSUME started' \in Times,
               \E c \in Configuration : service'.schedules = FirstSlots(c, started')
        PROVE  OnGrid(service'.schedules[i], started')
    BY <2>3, FirstSlotOnGrid
  <2> QED
    BY <2>2, <2>3, StepSchedules
<1>3. GridStands => SlotsOnGrid
  BY DEF GridStands, OnGrid, SlotsOnGrid
<1> QED
  BY <1>1, <1>2, <1>3, Invariance, PTL DEF Spec

\* A stream is published only when it is due, and its next slot then lies ahead by at most
\* one period: no call works off a backlog.
THEOREM NewestTaken == Spec => NewestSample
<1>1. IInv /\ [Next]_vars =>
        [\A i \in Streams :
           (SameRun /\ service'.schedules[i] # service.schedules[i]) =>
             /\ service'.schedules[i].due > service'.last_time
             /\ service'.schedules[i].due <= service'.last_time + service'.schedules[i].period
             /\ service'.last_time >= service.schedules[i].due]_vars
  <2> SUFFICES ASSUME IInv, [Next]_vars, NEW i \in Streams, SameRun,
                      service'.schedules[i] # service.schedules[i]
               PROVE  /\ service'.schedules[i].due > service'.last_time
                      /\ service'.schedules[i].due
                           <= service'.last_time + service'.schedules[i].period
                      /\ service'.last_time >= service.schedules[i].due
    OBVIOUS
  <2> DEFINE p == service.schedules[i]
             n == service'.schedules[i]
             now == service'.last_time
  <2>1. service \in ServiceState /\ started \in Times /\ now \in Times
    BY NextSound DEF IInv, Sound, ServiceState
  <2>2. IsDue(service, i, now) /\ n = Advanced(service, i, now)
    BY StepSchedules DEF SameRun
  <2>3. n.period = p.period /\ now < n.due /\ n.due <= now + p.period /\ p.due <= now
    BY <2>1, <2>2, AdvancedOnGrid
  <2> QED
    BY <2>3
<1> QED
  BY <1>1, Invariance, PTL DEF Spec, NewestSample

-----------------------------------------------------------------------------
(* The reply budget: an amortised argument on the bucket, whose tokens plus  *)
(* the replies sent never exceed what the elapsed time has paid for.         *)

BucketOf(s) == <<s.tokens, s.token_time, s.last_time>>

\* Arithmetic on products of variables, kept apart for the solver.
LEMMA DivisionFacts ==
  ASSUME NEW n \in Nat, NEW d \in Nat \ {0}
  PROVE  /\ n \div d \in Nat /\ n % d \in 0..(d - 1)
         /\ n = d * (n \div d) + (n % d)
OBVIOUS

LEMMA ProductFacts ==
  ASSUME NEW a \in Nat, NEW b \in Nat, NEW c \in Nat
  PROVE  /\ a * c \in Nat
         /\ (a + b) * c = a * c + b * c
         /\ a <= b => a * c <= b * c
OBVIOUS

-----------------------------------------------------------------------------
(* What each part of a call does to the bucket.                              *)

LEMMA EndKeepsBucket ==
  ASSUME NEW s \in ServiceState
  PROVE  BucketOf(End(s)) = BucketOf(s)
BY DEF End, BucketOf, ServiceState

\* The bucket before a call pays for what is in it after the refill: the tokens
\* gained are worth no more than the time token_time moved on.
Pays(s, t, now) ==
  /\ t.last_time = now
  /\ s.token_time <= t.token_time
  /\ t.token_time <= now
  /\ t.tokens * TokenPeriod <= s.tokens * TokenPeriod + (t.token_time - s.token_time)

LEMMA RefillPays ==
  ASSUME NEW s \in ServiceState, NEW now \in Times, s.token_time <= now, s.last_time = now
  PROVE  Pays(s, Refilled(s, now), now)
<1> DEFINE late == now - s.token_time
           refill == late \div TokenPeriod
           rest == late % TokenPeriod
           r == Refilled(s, now)
<1>1. /\ s.tokens \in Nat /\ s.token_time \in Nat /\ now \in Nat /\ late \in Nat
      /\ SatSub(now, s.token_time) = late
  BY LeaseAssumption DEF ServiceState, Times, SatSub
<1>2. /\ refill \in Nat /\ rest \in Nat /\ late = TokenPeriod * refill + rest
  <2>1. late \in Nat /\ TokenPeriod \in Nat \ {0}
    BY <1>1, LeaseAssumption
  <2> HIDE DEF late
  <2>2. /\ refill \in Nat /\ rest \in 0..(TokenPeriod - 1)
        /\ late = TokenPeriod * refill + rest
    BY <2>1, DivisionFacts, Zenon
  <2> HIDE DEF refill, rest
  <2> QED
    BY <2>1, <2>2
<1>3. /\ r.last_time = now
      /\ r.tokens = AtMost(Burst, s.tokens + AtMost(Burst, refill))
      /\ r.token_time = IF refill > 0 THEN now - rest ELSE s.token_time
  BY <1>1 DEF Refilled, ServiceState
<1>4. r.tokens \in Nat /\ r.tokens <= s.tokens + refill
  <2> HIDE DEF refill, r
  <2> QED
    BY <1>1, <1>2, <1>3, LeaseAssumption DEF AtMost
<1> HIDE DEF r, refill, rest
<1> DEFINE gain == refill * TokenPeriod
           had == s.tokens * TokenPeriod
           has == r.tokens * TokenPeriod
<1>5. /\ gain \in Nat /\ had \in Nat /\ has \in Nat
      /\ has <= had + gain /\ gain = TokenPeriod * refill
  <2>1. has <= (s.tokens + refill) * TokenPeriod
    BY <1>1, <1>2, <1>4, ProductFacts, LeaseAssumption
  <2> QED
    BY <1>1, <1>2, <1>4, <2>1, ProductFacts, LeaseAssumption
<1> HIDE DEF gain, had, has
<1>6. late = gain + rest
  BY <1>2, <1>5
<1>7. CASE refill > 0
  <2>1. r.token_time = s.token_time + gain
    BY <1>1, <1>2, <1>3, <1>5, <1>6, <1>7
  <2> QED
    BY <1>1, <1>2, <1>3, <1>5, <1>6, <2>1 DEF Pays, r, had, has
<1>8. CASE ~(refill > 0)
  <2>1. refill = 0 /\ r.token_time = s.token_time
    BY <1>2, <1>3, <1>8
  <2>2. gain = 0
    BY <2>1, LeaseAssumption DEF gain
  <2> QED
    BY <1>1, <1>3, <1>5, <2>1, <2>2 DEF Pays, r, had, has
<1> QED
  BY <1>7, <1>8

LEMMA TickPays ==
  ASSUME NEW s, Sound(s), NEW now \in Times, s.last_time <= now, s.token_time <= s.last_time
  PROVE  Pays(s, Tick(s, now), now)
<1> DEFINE r == [s EXCEPT !.last_time = now]
           e == IF Expired(r, now) THEN End(r) ELSE r
<1>1. s \in ServiceState /\ s.last_time \in Nat /\ s.token_time \in Nat /\ now \in Nat
  BY DEF Sound, ServiceState, Times
<1>2. RolledBack(s, now) = s
  BY <1>1 DEF RolledBack
<1>3. Tick(s, now) = Refilled(e, now)
  BY <1>2 DEF Tick
<1>4. r \in ServiceState /\ r.last_time = now /\ BucketOf(r) = <<s.tokens, s.token_time, now>>
      /\ r.lease = s.lease /\ r.exhausted = s.exhausted /\ r.epoch = s.epoch
      /\ r.schedules = s.schedules
  BY <1>1 DEF ServiceState, BucketOf
<1>5. Following(r)
  BY <1>4 DEF Sound, Following, Active
<1> HIDE DEF r
<1>6. e \in ServiceState /\ BucketOf(e) = BucketOf(r)
  BY <1>4, <1>5, EndSound, EndKeepsBucket
<1> HIDE DEF e
<1>7. e.tokens = s.tokens /\ e.token_time = s.token_time /\ e.last_time = now
  BY <1>4, <1>6 DEF BucketOf
<1>8. Pays(e, Refilled(e, now), now)
  BY <1>1, <1>6, <1>7, RefillPays
<1> QED
  BY <1>3, <1>7, <1>8 DEF Pays

\* A clock that goes back restarts the time the bucket was paid for.
LEMMA TickRestarts ==
  ASSUME NEW s, Sound(s), NEW now \in Times, now < s.last_time
  PROVE  Tick(s, now).token_time = now /\ Tick(s, now).last_time = now
<1> DEFINE r == [RolledBack(s, now) EXCEPT !.last_time = now]
           e == IF Expired(r, now) THEN End(r) ELSE r
<1>1. now \in Nat /\ End(s) \in ServiceState /\ s \in ServiceState
  BY EndSound DEF Sound, Times
<1>2. RolledBack(s, now) = [End(s) EXCEPT !.token_time = now]
  BY DEF RolledBack
<1>3. r \in ServiceState /\ r.lease = None /\ r.token_time = now /\ r.last_time = now
  BY <1>1, <1>2 DEF ServiceState, End, Active
<1> HIDE DEF r
<1>4. e = r
  BY <1>3 DEF Expired, Active
<1>5. Tick(s, now) = Refilled(r, now)
  BY <1>4 DEF Tick, r
<1>6. SatSub(now, now) = 0 /\ 0 \div TokenPeriod = 0
  BY <1>1, LeaseAssumption DEF SatSub
<1>7. Refilled(r, now).token_time = r.token_time /\ Refilled(r, now).last_time = r.last_time
  BY <1>3, <1>6 DEF Refilled, ServiceState
<1> QED
  BY <1>3, <1>5, <1>7

LEMMA RejectKeepsBucket ==
  ASSUME NEW s \in ServiceState, NEW crc
  PROVE  BucketOf(Reject(s, crc)) = BucketOf(s)
BY DEF Reject, BucketOf, ServiceState

LEMMA ProbeKeepsBucket ==
  ASSUME NEW s \in ServiceState, NEW m
  PROVE  BucketOf(HandleProbe(s, m).service) = BucketOf(s)
BY RejectKeepsBucket DEF HandleProbe, BucketOf, ServiceState

LEMMA AppliedKeepsBucket ==
  ASSUME NEW s, Sound(s), NEW m \in AllRequests, NEW now \in Times,
         Assess(s, m) \in {"APPLIED", "STOPPED"},
         m.kind \in {"configure", "renew", "stop"}, s.last_time = now
  PROVE  BucketOf(Applied(s, m, now)) = BucketOf(s)
<1>1. s \in ServiceState
  BY DEF Sound
<1> DEFINE run == IF m.kind = "configure" THEN Acquired(s, m, now) ELSE s
           c == [run EXCEPT !.counters = Received(@)]
<1>2. /\ BucketOf(run) = BucketOf(s)
      /\ DOMAIN run = DOMAIN s
  BY <1>1 DEF Acquired, BucketOf, ServiceState
<1>3. BucketOf(c) = BucketOf(s) /\ DOMAIN c = DOMAIN s
  BY <1>1, <1>2 DEF BucketOf, ServiceState
<1> QED
  BY <1>1, <1>3 DEF Applied, End, BucketOf, ServiceState

\* A reply out of the bucket costs a token, and nothing else does.
Spends(t, h) ==
  /\ h.service.token_time = t.token_time
  /\ h.service.last_time = t.last_time
  /\ h.service.tokens \in Nat
  /\ h.reply # None => h.service.tokens = t.tokens - 1
  /\ h.reply = None => h.service.tokens = t.tokens

LEMMA BucketSpends ==
  ASSUME NEW t, NEW s \in ServiceState, BucketOf(s) = BucketOf(t),
         NEW reply \in BucketedReplies
  PROVE  Spends(t, Bucketed(s, reply))
<1>1. s.tokens \in Nat /\ s.tokens = t.tokens /\ s.token_time = t.token_time
      /\ s.last_time = t.last_time
  BY LeaseAssumption DEF ServiceState, BucketOf
<1>2. reply # None
  BY NoneAssumption
<1>3. CASE s.tokens = 0
  BY <1>1, <1>3 DEF Bucketed, Spends, ServiceState
<1>4. CASE s.tokens # 0
  BY <1>1, <1>2, <1>4 DEF Bucketed, Spends, ServiceState
<1> QED
  BY <1>3, <1>4

LEMMA ControlSpends ==
  ASSUME NEW s, Sound(s), NEW m \in AllRequests, NEW now \in Times, s.last_time = now,
         m.kind \in {"configure", "renew", "stop"}
  PROVE  Spends(s, HandleControl(s, m, now))
<1> DEFINE code == Assess(s, m)
           effect == IF code \in {"APPLIED", "STOPPED"} THEN Applied(s, m, now)
                     ELSE IF code = "ALREADY_APPLIED" THEN s
                     ELSE Reject(s, FALSE)
           reply == [kind |-> "result", client |-> m.client, epoch |-> m.epoch, id |-> m.id,
                     code |-> code, remaining |-> Remaining(effect, m, now)]
<1>1. s \in ServiceState
  BY DEF Sound
<1>2. Sound(effect) /\ BucketOf(effect) = BucketOf(s)
  <2>1. CASE code \in {"APPLIED", "STOPPED"}
    <3>1. m.kind = "stop" => code # "APPLIED"
      BY DEF Assess
    <3>2. m.kind # "stop" => code # "STOPPED"
      BY DEF Assess
    <3> QED
      BY <2>1, <3>1, <3>2, RequestType, AcquireSound, RenewSound, StopSound, AppliedKeepsBucket
  <2>2. CASE code \notin {"APPLIED", "STOPPED"}
    BY <1>1, <2>2, RejectSound, RejectKeepsBucket
  <2> QED
    BY <2>1, <2>2
<1>3. code \in ControlCodes
  BY DEF Assess, ControlCodes
<1>4. HandleControl(s, m, now) = Bucketed(effect, reply)
  BY DEF HandleControl
<1> HIDE DEF effect, code
<1>5. Remaining(effect, m, now) \in Nat
  <2>1. CASE Owner(effect, m.client) /\ m.epoch = effect.epoch
    <3>1. effect.lease.expiry \in Nat
      BY <1>2, <2>1 DEF Owner, Active, Sound, ServiceState, Lease, Times
    <3>2. SatSub(effect.lease.expiry, now) \in Nat
      BY <3>1, SaturationTypes DEF Times
    <3>3. SatSub(effect.lease.expiry, now) \div UsPerMs \in Nat
      BY <3>2, DivisionFacts, LeaseAssumption
    <3> QED
      BY <2>1, <3>3 DEF Remaining
  <2>2. CASE ~(Owner(effect, m.client) /\ m.epoch = effect.epoch)
    BY <2>2 DEF Remaining
  <2> QED
    BY <2>1, <2>2
<1>6. reply \in BucketedReplies
  <2>1. m.client \in Clients /\ m.epoch \in Epochs /\ m.id \in Nat
    BY RequestType DEF WellFormed, AllRequests, Requests
  <2> QED
    BY <1>3, <1>5, <2>1 DEF BucketedReplies
<1> HIDE DEF reply
<1> QED
  BY <1>1, <1>2, <1>4, <1>6, BucketSpends DEF Sound

\* The whole of handle(): a reply other than a probe's is paid for.
LEMMA HandleSpends ==
  ASSUME NEW s, Sound(s), NEW m \in AllRequests, NEW now \in Times
  PROVE  /\ m.kind # "probe" => Spends(Tick(s, now), Handle(s, m, now))
         /\ m.kind = "probe" => BucketOf(Handle(s, m, now).service) = BucketOf(Tick(s, now))
<1> DEFINE t == Tick(s, now)
           h == Handle(s, m, now)
<1>1. Sound(t) /\ t.last_time = now /\ t \in ServiceState /\ t.tokens \in Nat
  BY TickMoves, LeaseAssumption DEF Sound, ServiceState
<1>2. h = IF ~m.addressed THEN [service |-> Reject(t, FALSE), reply |-> None]
          ELSE IF m.kind = "capabilities" THEN Bucketed(t, Capabilities(t, m))
          ELSE IF m.kind = "probe" THEN HandleProbe(t, m)
          ELSE HandleControl(t, m, now)
  BY DEF Handle
<1> HIDE DEF t, h
<1>3. CASE ~m.addressed
  <2>1. m.kind # "probe"
    BY <1>3 DEF AllRequests, Requests
  <2>2. BucketOf(Reject(t, FALSE)) = BucketOf(t)
    BY <1>1, RejectKeepsBucket
  <2>3. h.service = Reject(t, FALSE) /\ h.reply = None
    BY <1>2, <1>3
  <2>4. Spends(t, h)
    BY <1>1, <2>2, <2>3 DEF Spends, BucketOf
  <2> QED
    BY <2>1, <2>4 DEF t, h
<1>4. CASE m.addressed /\ m.kind = "capabilities"
  <2>1. Capabilities(t, m) \in BucketedReplies
    <3>1. m.client \in Clients /\ m.id \in Nat /\ t.epoch \in Epochs
      BY <1>1, RequestType DEF WellFormed, ServiceState
    <3> QED
      BY <3>1 DEF Capabilities, BucketedReplies, Active
  <2>2. Spends(t, Bucketed(t, Capabilities(t, m)))
    BY <1>1, <2>1, BucketSpends
  <2> QED
    BY <1>2, <1>4, <2>2 DEF t, h
<1>5. CASE m.addressed /\ m.kind = "probe"
  BY <1>1, <1>2, <1>5, ProbeKeepsBucket DEF t, h
<1>6. CASE m.addressed /\ m.kind \notin {"capabilities", "probe"}
  <2>1. m.kind \in {"configure", "renew", "stop"}
    BY <1>6, RequestType DEF WellFormed
  <2>2. Spends(t, HandleControl(t, m, now))
    BY <1>1, <2>1, ControlSpends
  <2> QED
    BY <1>2, <1>6, <2>2 DEF t, h
<1> QED
  BY <1>3, <1>4, <1>5, <1>6

LEMMA PublishKeepsBucket ==
  ASSUME NEW s, Sound(s), NEW i \in Streams, NEW now \in Times
  PROVE  BucketOf(Publish(s, i, now).service) = BucketOf(Tick(s, now))
<1>1. Tick(s, now) \in ServiceState
  BY TickMoves DEF Sound
<1> QED
  BY <1>1 DEF Publish, BucketOf, ServiceState

-----------------------------------------------------------------------------
(* The invariant.                                                            *)

RInv == IInv /\ boot \in Nat /\ replies \in Nat /\ BudgetLeft

LEMMA RepliesStep == RInv /\ [RepliesNext]_replyVars => RInv'
<1> SUFFICES ASSUME RInv, [RepliesNext]_replyVars
             PROVE  RInv'
  OBVIOUS
<1> DEFINE Kept == boot' \in Nat /\ replies' \in Nat /\ BudgetLeft'
<1>1. /\ service \in ServiceState /\ service.tokens \in Nat /\ service.token_time \in Nat
      /\ service.last_time \in Nat /\ boot \in Nat /\ replies \in Nat /\ Sound(service)
  BY LeaseAssumption DEF RInv, IInv, Sound, ServiceState, Times
<1>3. IInv'
  <2>1. [Next]_vars
    BY DEF RepliesNext, Answer, Next, replyVars, vars
  <2> QED
    BY <2>1, NextSound DEF RInv
\* A call after tick() leaves tokens and replies together as they were.
<1>4. ASSUME NEW t, NEW now \in Nat, Pays(service, t, now), t.tokens \in Nat, t.token_time \in Nat,
             boot' = boot, replies' \in Nat, service'.tokens \in Nat,
             replies' + service'.tokens = replies + t.tokens,
             service'.token_time = t.token_time, service'.last_time = t.last_time
      PROVE  Kept
  <2> DEFINE sent == replies * TokenPeriod
             had == service.tokens * TokenPeriod
             has == t.tokens * TokenPeriod
             burst == Burst * TokenPeriod
  <2>1. /\ sent \in Nat /\ had \in Nat /\ has \in Nat /\ burst \in Nat
        /\ (replies + service.tokens) * TokenPeriod = sent + had
        /\ (replies + t.tokens) * TokenPeriod = sent + has
    <3>1. replies \in Nat /\ service.tokens \in Nat /\ t.tokens \in Nat
      BY <1>1, <1>4
    <3>2. TokenPeriod \in Nat /\ Burst \in Nat
      BY LeaseAssumption
    <3> QED
      BY <3>1, <3>2, ProductFacts
  <2>2. /\ has <= had + (t.token_time - service.token_time)
        /\ sent + had <= burst + (service.token_time - boot)
        /\ boot <= service.token_time
    BY <1>4, <2>1 DEF RInv, BudgetLeft, Pays
  <2>3. (replies' + service'.tokens) * TokenPeriod = sent + has
    BY <1>4, <2>1
  <2> HIDE DEF sent, had, has, burst
  <2>4. sent + has <= burst + (t.token_time - boot)
    BY <1>1, <1>4, <2>1, <2>2
  <2> QED
    BY <1>1, <1>4, <2>2, <2>3, <2>4 DEF BudgetLeft, Pays, burst
\* After a clock that went back the bucket alone is the budget.
<1>5. ASSUME NEW tokens \in 0..Burst, NEW now \in Nat,
             boot' = now, replies' \in Nat, service'.tokens \in Nat,
             replies' + service'.tokens = tokens,
             service'.token_time = now, service'.last_time = now
      PROVE  Kept
  <2>1. tokens \in Nat /\ Burst \in Nat /\ TokenPeriod \in Nat /\ tokens <= Burst
    BY LeaseAssumption
  <2>2. tokens * TokenPeriod <= Burst * TokenPeriod /\ Burst * TokenPeriod \in Nat
    BY <2>1, ProductFacts
  <2> QED
    BY <1>5, <2>2 DEF BudgetLeft
\* An operation without tick() that leaves the bucket alone.
<1>6. ASSUME BucketOf(service') = BucketOf(service), UNCHANGED <<boot, replies>>
      PROVE  Kept
  BY <1>1, <1>6 DEF BucketOf, RInv, BudgetLeft
\* Any call that ticks: what it sends is taken out of the bucket.
<1>7. ASSUME NEW now \in ClockTimes, NEW sent \in {0, 1}, Reckon(now, sent),
             service'.tokens \in Nat, sent + service'.tokens = Tick(service, now).tokens,
             service'.token_time = Tick(service, now).token_time,
             service'.last_time = Tick(service, now).last_time
      PROVE  Kept
  <2> DEFINE t == Tick(service, now)
  <2>1. now \in Nat /\ now \in Times
    BY ServiceAssumption DEF Times
  <2>2. t \in ServiceState /\ t.tokens \in 0..Burst /\ t.tokens \in Nat /\ t.token_time \in Nat
    <3>1. t \in ServiceState
      BY <1>1, <2>1, TickMoves DEF Sound
    <3>2. t.tokens \in 0..Burst /\ t.token_time \in Times
      BY <3>1 DEF ServiceState
    <3> QED
      BY <3>1, <3>2, LeaseAssumption DEF Times
  <2>3. CASE now < service.last_time
    <3>1. t.token_time = now /\ t.last_time = now
      BY <1>1, <2>1, <2>3, TickRestarts
    <3>2. boot' = now /\ replies' = sent
      BY <1>7, <2>3 DEF Reckon
    <3> HIDE DEF t
    <3> QED
      BY <1>5, <1>7, <2>1, <2>2, <3>1, <3>2 DEF t
  <2>4. CASE ~(now < service.last_time)
    <3>1. service.token_time <= service.last_time /\ service.last_time <= now
      BY <1>1, <2>1, <2>4 DEF RInv, BudgetLeft
    <3>2. Pays(service, t, now)
      BY <1>1, <2>1, <3>1, TickPays
    <3>3. boot' = boot /\ replies' = replies + sent
      BY <1>7, <2>4 DEF Reckon
    <3>4. /\ sent + service'.tokens = t.tokens
          /\ service'.token_time = t.token_time /\ service'.last_time = t.last_time
      BY <1>7
    <3> HIDE DEF t
    <3>5. replies' \in Nat /\ replies' + service'.tokens = replies + t.tokens
      BY <1>1, <1>7, <2>2, <3>3, <3>4
    <3> QED
      BY <1>4, <1>7, <2>1, <2>2, <3>2, <3>3, <3>4, <3>5
  <2> QED
    BY <2>3, <2>4
\* What tick() itself leaves in the bucket.
<1>8. ASSUME NEW now \in ClockTimes
      PROVE  now \in Times /\ Tick(service, now).tokens \in Nat
  BY <1>1, TickMoves, ServiceAssumption, LeaseAssumption DEF Sound, ServiceState
<1>9. ASSUME NEW now \in ClockTimes, NEW m \in AllRequests, Answer(m, now)
      PROVE  Kept
  <2>1. service' = Handle(service, m, now).service
    BY <1>9 DEF Answer, HandleRequest
  <2>2. CASE m.kind = "probe"
    <3>1. Reckon(now, 0) /\ BucketOf(service') = BucketOf(Tick(service, now))
      BY <1>1, <1>8, <1>9, <2>1, <2>2, HandleSpends DEF Answer
    <3> QED
      BY <1>7, <1>8, <3>1 DEF BucketOf
  <2>3. CASE m.kind # "probe"
    <3> DEFINE h == Handle(service, m, now)
               t == Tick(service, now)
               sent == IF h.reply # None THEN 1 ELSE 0
    <3>1. Spends(t, h)
      BY <1>1, <1>8, <1>9, <2>3, HandleSpends
    <3>2. Reckon(now, sent)
      BY <1>9, <2>3 DEF Answer
    <3>3. service' = h.service /\ t.tokens \in Nat
      BY <2>1, <1>8
    <3>4. /\ sent \in {0, 1} /\ service'.tokens \in Nat
          /\ service'.token_time = t.token_time /\ service'.last_time = t.last_time
          /\ sent + service'.tokens = t.tokens
      <4> HIDE DEF h, t
      <4> QED
        BY <3>1, <3>3 DEF Spends
    <3> QED
      BY <1>7, <3>2, <3>4
  <2> QED
    BY <2>2, <2>3
<1>10. ASSUME NEW now \in ClockTimes, Reckon(now, 0),
              TickAt(now) \/ \E i \in Streams : PublishStream(i, now)
       PROVE  Kept
  <2>1. BucketOf(service') = BucketOf(Tick(service, now))
    BY <1>1, <1>8, <1>10, PublishKeepsBucket DEF TickAt, PublishStream
  <2> QED
    BY <1>7, <1>8, <1>10, <2>1 DEF BucketOf
<1>11. ASSUME EndLocally \/ \E crc \in BOOLEAN : RejectDatagram(crc), UNCHANGED <<boot, replies>>
       PROVE  Kept
  BY <1>1, <1>6, <1>11, EndKeepsBucket, RejectKeepsBucket DEF EndLocally, RejectDatagram
<1>12. ASSUME UNCHANGED replyVars
       PROVE  Kept
  BY <1>6, <1>12 DEF replyVars, BucketOf
<1>13. ASSUME RepliesNext
       PROVE  Kept
  BY <1>9, <1>10, <1>11, <1>13 DEF RepliesNext
<1> QED
  BY <1>3, <1>12, <1>13 DEF RInv

LEMMA RepliesInitially == RepliesInit => RInv
<1> SUFFICES ASSUME RepliesInit PROVE RInv
  OBVIOUS
<1>1. PICK now \in ClockTimes : service = NewService(now) /\ started = now
  BY DEF RepliesInit, Init
<1>2. IInv
  BY <1>1, NewServiceSound, ServiceAssumption DEF IInv
<1>3. service.token_time = now /\ service.last_time = now /\ service.tokens = Burst
  BY <1>1 DEF NewService
<1>4. Burst * TokenPeriod \in Nat
  BY ProductFacts, LeaseAssumption
<1> QED
  BY <1>2, <1>3, <1>4, ServiceAssumption, LeaseAssumption DEF RInv, RepliesInit, BudgetLeft, Times

LEMMA RepliesInvariance == RepliesSpec => []RInv
BY RepliesInitially, RepliesStep, PTL DEF RepliesSpec

\* At no time has the board sent more control and capabilities replies than the
\* bucket's capacity plus one for every TokenPeriod since boot, or since its clock
\* last went back.
THEOREM RepliesBounded == RepliesSpec => []RepliesWithinBudget
<1>1. RInv => RepliesWithinBudget
  <2> SUFFICES ASSUME RInv PROVE RepliesWithinBudget
    OBVIOUS
  <2>1. /\ service.tokens \in Nat /\ service.token_time \in Nat /\ service.last_time \in Nat
        /\ boot \in Nat /\ replies \in Nat
    BY LeaseAssumption DEF RInv, IInv, Sound, ServiceState, Times
  <2> DEFINE sent == replies * TokenPeriod
             left == service.tokens * TokenPeriod
             burst == Burst * TokenPeriod
  <2>2. /\ sent \in Nat /\ left \in Nat /\ burst \in Nat
        /\ (replies + service.tokens) * TokenPeriod = sent + left
    BY <2>1, ProductFacts, LeaseAssumption
  <2>3. sent + left <= burst + (service.token_time - boot) /\ service.token_time <= service.last_time
    BY <2>2 DEF RInv, BudgetLeft
  <2> HIDE DEF sent, left, burst
  <2>4. sent <= burst + (service.last_time - boot)
    BY <2>1, <2>2, <2>3
  <2> QED
    BY <2>4 DEF RepliesWithinBudget, sent, burst
<1> QED
  BY <1>1, RepliesInvariance, PTL
-----------------------------------------------------------------------------
(* The bucket limits what is sent and never what is done.                    *)

\* Two states of the service that differ at most in the bucket and in the count of
\* suppressed replies.
Alike(s, t) ==
  /\ s.epoch = t.epoch /\ s.exhausted = t.exhausted /\ s.lease = t.lease
  /\ s.schedules = t.schedules /\ s.last_time = t.last_time /\ s.counters = t.counters

LEMMA AlikeMeans ==
  ASSUME NEW s \in ServiceState, NEW t \in ServiceState, Alike(s, t)
  PROVE  WithoutReplies(s) = WithoutReplies(t)
BY DEF Alike, WithoutReplies, ServiceState

LEMMA EndAlike ==
  ASSUME NEW s \in ServiceState, NEW t \in ServiceState, Alike(s, t)
  PROVE  Alike(End(s), End(t))
<1>1. CASE ~Active(s)
  BY <1>1 DEF End, Alike, Active
<1>2. CASE Active(s)
  BY <1>2 DEF End, Alike, Active, ServiceState
<1> QED
  BY <1>1, <1>2

LEMMA RefillAlike ==
  ASSUME NEW s \in ServiceState, NEW now
  PROVE  Alike(s, Refilled(s, now))
BY DEF Refilled, Alike, ServiceState

\* tick() ends a run by the clock alone.
LEMMA TickAlike ==
  ASSUME NEW s, Sound(s), NEW t, Sound(t), Alike(s, t), NEW now \in Times
  PROVE  Alike(Tick(s, now), Tick(t, now))
<1> DEFINE Started(u) == [RolledBack(u, now) EXCEPT !.last_time = now]
           Settled(u) == IF Expired(Started(u), now) THEN End(Started(u)) ELSE Started(u)
<1>1. s \in ServiceState /\ t \in ServiceState /\ Following(s) /\ Following(t)
  BY DEF Sound
<1>2. /\ Started(s) \in ServiceState /\ Following(Started(s))
      /\ Started(t) \in ServiceState /\ Following(Started(t))
  BY <1>1, RollbackSound
<1>3. Alike(Started(s), Started(t))
  <2>1. Alike(End(s), End(t)) /\ End(s) \in ServiceState /\ End(t) \in ServiceState
    BY <1>1, EndAlike, EndSound
  <2>2. Alike(RolledBack(s, now), RolledBack(t, now))
        /\ RolledBack(s, now) \in ServiceState /\ RolledBack(t, now) \in ServiceState
    <3>1. (now < s.last_time) = (now < t.last_time)
      BY DEF Alike
    <3>2. CASE now < s.last_time
      BY <2>1, <3>1, <3>2 DEF RolledBack, Alike, ServiceState
    <3>3. CASE ~(now < s.last_time)
      BY <1>1, <3>1, <3>3 DEF RolledBack
    <3> QED
      BY <3>2, <3>3
  <2> QED
    BY <2>2 DEF Alike, ServiceState
<1>4. Tick(s, now) = Refilled(Settled(s), now) /\ Tick(t, now) = Refilled(Settled(t), now)
  BY DEF Tick
<1> HIDE DEF Started
<1>5. /\ Settled(s) \in ServiceState /\ Settled(t) \in ServiceState
      /\ Alike(Settled(s), Settled(t))
  <2>1. /\ End(Started(s)) \in ServiceState /\ End(Started(t)) \in ServiceState
        /\ Alike(End(Started(s)), End(Started(t)))
    BY <1>2, <1>3, EndSound, EndAlike
  <2>2. Expired(Started(s), now) <=> Expired(Started(t), now)
    BY <1>3 DEF Expired, Active, Alike
  <2> QED
    BY <1>2, <1>3, <2>1, <2>2
<1> HIDE DEF Settled
<1>6. Alike(Settled(s), Tick(s, now)) /\ Alike(Settled(t), Tick(t, now))
  BY <1>4, <1>5, RefillAlike
<1> QED
  BY <1>5, <1>6 DEF Alike

LEMMA RejectAlike ==
  ASSUME NEW s \in ServiceState, NEW t \in ServiceState, Alike(s, t), NEW crc
  PROVE  Alike(Reject(s, crc), Reject(t, crc))
BY DEF Reject, Alike, Active, ServiceState

LEMMA BucketAlike ==
  ASSUME NEW s \in ServiceState, NEW reply
  PROVE  Alike(s, Bucketed(s, reply).service)
BY DEF Bucketed, Alike, ServiceState

LEMMA ProbeAlike ==
  ASSUME NEW s \in ServiceState, NEW t \in ServiceState, Alike(s, t), NEW m
  PROVE  Alike(HandleProbe(s, m).service, HandleProbe(t, m).service)
<1>1. ProbeServed(s, m) <=> ProbeServed(t, m)
  BY DEF ProbeServed, Owner, Active, Alike
<1>2. CASE ProbeServed(s, m)
  BY <1>1, <1>2 DEF HandleProbe, Alike, ServiceState
<1>3. CASE ~ProbeServed(s, m)
  BY <1>1, <1>3, RejectAlike DEF HandleProbe
<1> QED
  BY <1>2, <1>3

LEMMA AppliedAlike ==
  ASSUME NEW s \in ServiceState, NEW t \in ServiceState, Alike(s, t), NEW m, NEW now,
         Applied(s, m, now) \in ServiceState, Applied(t, m, now) \in ServiceState,
         m.kind \in {"configure", "renew", "stop"}
  PROVE  Alike(Applied(s, m, now), Applied(t, m, now))
<1>1. CASE m.kind = "stop"
  BY <1>1 DEF Applied, End, Active, Alike, ServiceState
<1>2. CASE m.kind = "renew"
  <2>1. ASSUME NEW u \in ServiceState
        PROVE  Applied(u, m, now) =
                 [[u EXCEPT !.counters = Received(@)]
                    EXCEPT !.lease = [u.lease EXCEPT !.last = ControlOf(m),
                              !.expiry = now + u.lease.config.lease * UsPerMs]]
    BY <1>2 DEF Applied, ServiceState
  <2> DEFINE granted == [s.lease EXCEPT !.last = ControlOf(m),
                           !.expiry = now + s.lease.config.lease * UsPerMs]
  <2>2. /\ Applied(s, m, now) =
             [[s EXCEPT !.counters = Received(@)] EXCEPT !.lease = granted]
        /\ Applied(t, m, now) =
             [[t EXCEPT !.counters = Received(@)] EXCEPT !.lease = granted]
    BY <2>1 DEF Alike
  <2> HIDE DEF granted
  <2> QED
    BY <2>2 DEF Alike, ServiceState
<1>3. CASE m.kind = "configure"
  <2> DEFINE unset == [client |-> m.client, config |-> m.config, last |-> ControlOf(m),
                       expiry |-> 0]
             granted == [unset EXCEPT !.last = ControlOf(m),
                                      !.expiry = now + unset.config.lease * UsPerMs]
             counters == Received(NewCounters)
  <2>1. ASSUME NEW u \in ServiceState
        PROVE  Applied(u, m, now) = [u EXCEPT !.schedules = FirstSlots(m.config, now),
                                              !.counters = counters, !.lease = granted]
    <3> DEFINE q == Acquired(u, m, now)
    <3>1. q = [u EXCEPT !.schedules = FirstSlots(m.config, now), !.counters = NewCounters,
                        !.lease = unset]
      BY DEF Acquired, FirstSlots
    <3>2. Applied(u, m, now) = [[q EXCEPT !.counters = Received(@)]
             EXCEPT !.lease.last = ControlOf(m),
                    !.lease.expiry = now + q.lease.config.lease * UsPerMs]
      BY <1>3 DEF Applied
    <3> HIDE DEF unset, q
    <3>3. q.lease = unset /\ q.counters = NewCounters
      BY <3>1 DEF ServiceState
    <3> QED
      BY <3>1, <3>2, <3>3 DEF ServiceState
  <2> DEFINE slots == FirstSlots(m.config, now)
  <2>2. /\ Applied(s, m, now) =
             [s EXCEPT !.schedules = slots, !.counters = counters, !.lease = granted]
        /\ Applied(t, m, now) =
             [t EXCEPT !.schedules = slots, !.counters = counters, !.lease = granted]
    BY <2>1
  <2> HIDE DEF granted, counters, slots
  <2> QED
    BY <2>2 DEF Alike, ServiceState
<1> QED
  BY <1>1, <1>2, <1>3

LEMMA ControlAlike ==
  ASSUME NEW s, Sound(s), NEW t, Sound(t), Alike(s, t), NEW m, WellFormed(m),
         NEW now \in Times, s.last_time = now, m.kind \in {"configure", "renew", "stop"}
  PROVE  Alike(HandleControl(s, m, now).service, HandleControl(t, m, now).service)
<1> DEFINE Effect(u) == IF Assess(u, m) \in {"APPLIED", "STOPPED"} THEN Applied(u, m, now)
                        ELSE IF Assess(u, m) = "ALREADY_APPLIED" THEN u
                        ELSE Reject(u, FALSE)
<1>1. s \in ServiceState /\ t \in ServiceState /\ t.last_time = now
  BY DEF Sound, Alike
<1>2. Assess(s, m) = Assess(t, m)
  BY DEF Assess, Owner, Active, Alike
<1>3. Effect(s) \in ServiceState /\ Effect(t) \in ServiceState /\ Alike(Effect(s), Effect(t))
  <2>1. CASE Assess(s, m) \in {"APPLIED", "STOPPED"}
    <3>1. m.kind = "stop" <=> Assess(s, m) = "STOPPED"
      BY <2>1 DEF Assess
    <3>2. Applied(s, m, now) \in ServiceState /\ Applied(t, m, now) \in ServiceState
      BY <1>1, <1>2, <2>1, <3>1, AcquireSound, RenewSound, StopSound DEF Sound
    <3> QED
      BY <1>1, <1>2, <2>1, <3>2, AppliedAlike
  <2>2. CASE Assess(s, m) \notin {"APPLIED", "STOPPED"}
    <3>1. /\ Reject(s, FALSE) \in ServiceState /\ Reject(t, FALSE) \in ServiceState
          /\ Alike(Reject(s, FALSE), Reject(t, FALSE))
      BY <1>1, RejectSound, RejectAlike DEF Sound
    <3> QED
      BY <1>1, <1>2, <2>2, <3>1
  <2> QED
    BY <2>1, <2>2
<1>4. /\ \E reply : HandleControl(s, m, now) = Bucketed(Effect(s), reply)
      /\ \E reply : HandleControl(t, m, now) = Bucketed(Effect(t), reply)
  BY DEF HandleControl
<1> HIDE DEF Effect
<1>5. /\ Alike(Effect(s), HandleControl(s, m, now).service)
      /\ Alike(Effect(t), HandleControl(t, m, now).service)
  BY <1>3, <1>4, BucketAlike
<1> QED
  BY <1>3, <1>5 DEF Alike

LEMMA HandleAlike ==
  ASSUME NEW s, Sound(s), NEW t, Sound(t), Alike(s, t), NEW m, WellFormed(m),
         NEW now \in Times
  PROVE  Alike(Handle(s, m, now).service, Handle(t, m, now).service)
<1>1. /\ Sound(Tick(s, now)) /\ Sound(Tick(t, now)) /\ Tick(s, now).last_time = now
      /\ Alike(Tick(s, now), Tick(t, now))
  BY TickSound, TickAlike
<1>2. Tick(s, now) \in ServiceState /\ Tick(t, now) \in ServiceState
  BY <1>1 DEF Sound
<1>3. CASE ~m.addressed
  BY <1>1, <1>2, <1>3, RejectAlike DEF Handle
<1>4. CASE m.addressed /\ m.kind = "capabilities"
  <2>1. /\ Alike(Tick(s, now), Handle(s, m, now).service)
        /\ Alike(Tick(t, now), Handle(t, m, now).service)
    BY <1>2, <1>4, BucketAlike DEF Handle
  <2> QED
    BY <1>1, <2>1 DEF Alike
<1>5. CASE m.addressed /\ m.kind = "probe"
  BY <1>1, <1>2, <1>5, ProbeAlike DEF Handle
<1>6. CASE m.addressed /\ m.kind \in {"configure", "renew", "stop"}
  <2>1. /\ Handle(s, m, now) = HandleControl(Tick(s, now), m, now)
        /\ Handle(t, m, now) = HandleControl(Tick(t, now), m, now)
    BY <1>6 DEF Handle
  <2> QED
    BY <1>1, <1>6, <2>1, ControlAlike
<1> QED
  BY <1>3, <1>4, <1>5, <1>6 DEF WellFormed

\* A request is carried out alike whether or not a token is left for its reply.
THEOREM EffectsUnsuppressed == RepliesSpec => []EffectDespiteSuppression
<1>1. RInv => EffectDespiteSuppression
  <2> SUFFICES ASSUME RInv, NEW m \in AllRequests, NEW now \in ClockTimes
               PROVE  WithoutReplies(Handle(service, m, now).service) =
                      WithoutReplies(Handle([service EXCEPT !.tokens = Burst], m, now).service)
    BY DEF EffectDespiteSuppression
  <2> DEFINE full == [service EXCEPT !.tokens = Burst]
  <2>1. Sound(service) /\ service \in ServiceState /\ now \in Times /\ WellFormed(m)
    BY RequestType, ServiceAssumption DEF RInv, IInv, Sound
  <2>2. full \in ServiceState /\ Alike(service, full)
    BY <2>1, LeaseAssumption DEF ServiceState, Alike
  <2>3. Sound(full)
    BY <2>1, <2>2 DEF Alike, Sound, Unexpired, Following, Active
  <2> HIDE DEF full
  <2>4. Alike(Handle(service, m, now).service, Handle(full, m, now).service)
    BY <2>1, <2>2, <2>3, HandleAlike
  <2>5. Handle(service, m, now).service \in ServiceState /\ Handle(full, m, now).service \in ServiceState
    BY <2>1, <2>3, HandleSound DEF Result, Sound
  <2> QED
    BY <2>4, <2>5, AlikeMeans DEF full
<1> QED
  BY <1>1, RepliesInvariance, PTL
=============================================================================
