----------------------- MODULE BenchmarkFirmwareProofs -----------------------
(***************************************************************************)
(* What crosses from one run of the benchmark task to the next (nothing)   *)
(* and what becomes of the slots of a run, for any traffic, any number of  *)
(* addresses and any size of the queues the theorems do not name.          *)
(***************************************************************************)
EXTENDS BenchmarkFirmware, BenchmarkLeaseProofs, SequenceTheorems

-----------------------------------------------------------------------------
(* Packets, and the queues of sockets that were opened for a generation.     *)

ProbeReplies ==
  [kind : {"probe_response"}, client : Clients, epoch : Epochs, id : Nat, payload : Patterns]
Messages == BucketedReplies \cup ProbeReplies \cup Samples
Generations == Epochs \X BOOLEAN

\* Samples and answers to probes belong to the run of the generation, and every request
\* arrived in it.
Fresh(g) ==
  {m \in Messages : m.kind \in {"publication", "probe_response"} => g[2] /\ m.epoch = g[1]}
Arrived(g) == [datagram : Datagrams, generation : {g}]

Opened(g) == [open : [Sockets -> BOOLEAN], rx : Seq(Arrived(g)), tx : [Sockets -> Seq(Fresh(g))]]

Within(k) ==
  /\ Len(k.rx) <= RxCapacity
  /\ \A x \in Sockets :
       Len(k.tx[x]) <= TxCapacity[x] /\ (~k.open[x] => k.tx[x] = <<>>)

Good(k, g) == k \in Opened(g) /\ Within(k)

LEMMA Capacities ==
  /\ RxCapacity \in Nat /\ \A x \in Sockets : TxCapacity[x] \in Nat
  /\ 0 \in Sockets /\ \A i \in Streams : SocketOf(i) \in Sockets /\ SocketOf(i) # 0
BY FirmwareAssumption DEF Sockets, Streams, SocketOf

LEMMA ClosedGood ==
  ASSUME NEW g
  PROVE  Good(Closed, g)
<1>1. <<>> \in Seq(Arrived(g)) /\ <<>> \in Seq(Fresh(g)) /\ Len(<<>>) = 0
  BY EmptySeq
<1>2. /\ Closed.rx = <<>> /\ Closed \in Opened(g)
      /\ \A x \in Sockets : Closed.tx[x] = <<>>
  BY <1>1 DEF Closed, Opened
<1> QED
  BY <1>1, <1>2, Capacities DEF Good, Within

\* Queues that survive a change of the service were filled in the generation that goes on.
LEMMA SynchronisedGood ==
  ASSUME NEW g, NEW k, Good(k, g), NEW s
  PROVE  Good(Synchronised(g, k, s), Generation(s))
BY ClosedGood DEF Synchronised

LEMMA BindGood ==
  ASSUME NEW g, NEW k, Good(k, g), NEW x \in Sockets
  PROVE  /\ Good(Bind(k, x), g) /\ Bind(k, x).tx = k.tx /\ Bind(k, x).open[x]
         /\ Bind(k, x).rx = k.rx
<1> DEFINE b == Bind(k, x)
<1>1. b \in Opened(g) /\ b.rx = k.rx /\ b.tx = k.tx /\ b.open[x]
      /\ \A y \in Sockets : k.open[y] => b.open[y]
  BY DEF Good, Opened, Bind
<1> QED
  BY <1>1 DEF Good, Within

LEMMA CloseGood ==
  ASSUME NEW g, NEW k, Good(k, g), NEW x \in Sockets
  PROVE  Good(Close(k, x), g) /\ Close(k, x).tx[x] = <<>>
<1> DEFINE c == Close(k, x)
<1>1. <<>> \in Seq(Arrived(g)) /\ <<>> \in Seq(Fresh(g)) /\ Len(<<>>) = 0
  BY EmptySeq
<1>2. /\ c \in Opened(g) /\ c.rx \in {k.rx, <<>>} /\ c.tx[x] = <<>>
      /\ \A y \in Sockets \ {x} : c.tx[y] = k.tx[y] /\ c.open[y] = k.open[y]
  BY <1>1 DEF Good, Opened, Close
<1> HIDE DEF c
<1>3. Within(c)
  BY <1>1, <1>2, Capacities DEF Good, Within
<1> QED
  BY <1>2, <1>3 DEF Good, c

LEMMA SendGood ==
  ASSUME NEW g, NEW k, Good(k, g), NEW x \in Sockets, NEW m \in Fresh(g), MaySend(k, x)
  PROVE  Good(Send(k, x, m), g)
<1> DEFINE n == Send(k, x, m)
           queue == Append(k.tx[x], m)
<1>1. k.tx[x] \in Seq(Fresh(g)) /\ Len(k.tx[x]) < TxCapacity[x] /\ k.open[x]
  BY DEF Good, Opened, MaySend
<1>2. queue \in Seq(Fresh(g)) /\ Len(queue) = Len(k.tx[x]) + 1 /\ Len(k.tx[x]) \in Nat
  BY <1>1
<1> HIDE DEF queue
<1>3. n = [k EXCEPT !.tx = [k.tx EXCEPT ![x] = queue]]
  BY DEF Good, Opened, Send, queue
<1> HIDE DEF n
<1>4. /\ n \in Opened(g) /\ n.rx = k.rx /\ n.open = k.open /\ n.tx[x] = queue
      /\ \A y \in Sockets \ {x} : n.tx[y] = k.tx[y]
  BY <1>2, <1>3 DEF Good, Opened
<1>5. Len(queue) <= TxCapacity[x] /\ n.open[x]
  BY <1>1, <1>2, <1>4, Capacities
<1>6. Len(n.rx) <= RxCapacity /\ \A y \in Sockets \ {x} :
        Len(n.tx[y]) <= TxCapacity[y] /\ (~n.open[y] => n.tx[y] = <<>>)
  BY <1>4 DEF Good, Within
<1>7. Within(n)
  BY <1>4, <1>5, <1>6 DEF Within
<1> QED
  BY <1>4, <1>7 DEF Good, n

LEMMA TransmitGood ==
  ASSUME NEW g, NEW k, Good(k, g), NEW x \in Sockets, k.tx[x] # <<>>
  PROVE  Good([k EXCEPT !.tx[x] = Tail(@)], g)
<1> DEFINE n == [k EXCEPT !.tx[x] = Tail(@)]
           queue == Tail(k.tx[x])
<1>1. k.tx[x] \in Seq(Fresh(g)) /\ Len(k.tx[x]) <= TxCapacity[x] /\ k.open[x]
  BY DEF Good, Opened, Within
<1>2. queue \in Seq(Fresh(g)) /\ Len(queue) = Len(k.tx[x]) - 1 /\ Len(k.tx[x]) \in Nat
  BY <1>1, HeadTailProperties, LenProperties
<1>3. n = [k EXCEPT !.tx = [k.tx EXCEPT ![x] = queue]]
  BY DEF Good, Opened
<1> HIDE DEF queue, n
<1>4. /\ n \in Opened(g) /\ n.rx = k.rx /\ n.open = k.open /\ n.tx[x] = queue
      /\ \A y \in Sockets \ {x} : n.tx[y] = k.tx[y]
  BY <1>2, <1>3 DEF Good, Opened
<1>5. Within(n)
  BY <1>1, <1>2, <1>4, Capacities DEF Good, Within
<1> QED
  BY <1>4, <1>5 DEF Good, n

LEMMA ReceiveGood ==
  ASSUME NEW g, NEW k, Good(k, g), k.rx # <<>>
  PROVE  /\ Good([k EXCEPT !.rx = Tail(@)], g) /\ Head(k.rx).datagram \in Datagrams
         /\ [k EXCEPT !.rx = Tail(@)].open = k.open
<1> DEFINE n == [k EXCEPT !.rx = Tail(@)]
           queue == Tail(k.rx)
<1>1. k.rx \in Seq(Arrived(g)) /\ Len(k.rx) <= RxCapacity
  BY DEF Good, Opened, Within
<1>2. /\ queue \in Seq(Arrived(g)) /\ Len(queue) = Len(k.rx) - 1 /\ Len(k.rx) \in Nat
      /\ Head(k.rx) \in Arrived(g)
  BY <1>1, HeadTailProperties, LenProperties
<1> HIDE DEF queue
<1>3. n \in Opened(g) /\ n.rx = queue /\ n.open = k.open /\ n.tx = k.tx
  BY <1>2 DEF Good, Opened, queue
<1> HIDE DEF n
<1>4. Within(n)
  BY <1>1, <1>2, <1>3, Capacities DEF Good, Within
<1> QED
  BY <1>2, <1>3, <1>4 DEF Good, n, Arrived

LEMMA ArriveGood ==
  ASSUME NEW g, NEW k, Good(k, g), NEW d \in Datagrams, Len(k.rx) < RxCapacity
  PROVE  Good([k EXCEPT !.rx = Append(@, [datagram |-> d, generation |-> g])], g)
<1> DEFINE e == [datagram |-> d, generation |-> g]
           n == [k EXCEPT !.rx = Append(@, e)]
           queue == Append(k.rx, e)
<1>1. k.rx \in Seq(Arrived(g)) /\ e \in Arrived(g)
  BY DEF Good, Opened, Arrived
<1> HIDE DEF e
<1>2. queue \in Seq(Arrived(g)) /\ Len(queue) = Len(k.rx) + 1 /\ Len(k.rx) \in Nat
  BY <1>1
<1> HIDE DEF queue
<1>3. n \in Opened(g) /\ n.rx = queue /\ n.open = k.open /\ n.tx = k.tx
  BY <1>2 DEF Good, Opened, queue
<1> HIDE DEF n
<1>4. Within(n)
  BY <1>2, <1>3, Capacities DEF Good, Within
<1> QED
  BY <1>3, <1>4 DEF Good, n, e

-----------------------------------------------------------------------------
(* What the calls of the loop do to the service.                             *)

LEMMA Generated ==
  ASSUME NEW s, Sound(s)
  PROVE  /\ Generation(s) \in Generations /\ Generation(s)[1] = s.epoch
         /\ Generation(s)[2] = Active(s)
BY DEF Sound, ServiceState, Generation, Generations, Active

LEMMA SameGeneration ==
  ASSUME NEW s, NEW t, RunOf(s) = RunOf(t)
  PROVE  Generation(s) = Generation(t) /\ (Active(s) <=> Active(t))
BY DEF RunOf, Generation, Active

LEMMA Ended ==
  ASSUME NEW s, Sound(s)
  PROVE  Sound(End(s)) /\ ~Active(End(s)) /\ (~Active(s) => End(s) = s)
BY EndSound DEF Sound, Unexpired

LEMMA Recounted ==
  ASSUME NEW s, Sound(s), NEW c \in CounterState
  PROVE  Sound([s EXCEPT !.counters = c]) /\ RunOf([s EXCEPT !.counters = c]) = RunOf(s)
<1>1. /\ s \in ServiceState /\ s.tokens \in 0..Burst /\ s.suppressed_replies \in CounterRange
  BY DEF Sound, ServiceState
<1>2. [s EXCEPT !.counters = c] = Bookkeep(s, c, s.tokens, s.suppressed_replies)
  BY <1>1 DEF ServiceState, Bookkeep
<1> QED
  BY <1>1, <1>2, BookkeepingSound

LEMMA SentTypes ==
  ASSUME NEW c \in CounterState, NEW x \in Sockets, NEW success \in BOOLEAN
  PROVE  Sent(c, x, success) \in CounterState
<1>1. \A n \in CounterRange : SatAdd(n, 1) \in CounterRange
  BY CounterAssumption DEF SatAdd, CounterRange
<1> QED
  BY <1>1 DEF Sent, CounterState

\* A call at which the service only accounts for something.
Accounts(s, t) == Sound(t) /\ RunOf(t) = RunOf(s)

LEMMA Accounting ==
  ASSUME NEW s, Sound(s), NEW x \in Sockets
  PROVE  /\ Accounts(s, [s EXCEPT !.counters = Sent(@, x, TRUE)])
         /\ Accounts(s, [s EXCEPT !.counters = Sent(@, x, FALSE)])
         /\ Accounts(s, [s EXCEPT !.counters = Skip(Sent(@, x, FALSE), 1)])
         /\ Accounts(s, Replaced(s))
<1>1. s.counters \in CounterState
  BY DEF Sound, ServiceState
<1>2. /\ Sent(s.counters, x, TRUE) \in CounterState /\ Sent(s.counters, x, FALSE) \in CounterState
      /\ Skip(Sent(s.counters, x, FALSE), 1) \in CounterState
      /\ Skip(s.counters, 1) \in CounterState
  BY <1>1, SentTypes, CounterTypes
<1> QED
  BY <1>2, Recounted DEF Accounts, Replaced

\* tick() and publication() keep the run or end it.
KeepsRun(s, t) == Sound(t) /\ (Active(t) => RunOf(t) = RunOf(s))

LEMMA TickKeepsRun ==
  ASSUME NEW s, Sound(s), NEW now \in Nat
  PROVE  KeepsRun(s, Tick(s, now))
BY TickSound DEF KeepsRun, Times

LEMMA PatternType ==
  ASSUME NEW length \in Nat, NEW seed \in Nat, NEW token \in Nat
  PROVE  Pattern(length, seed, token) \in Patterns
<1>1. \A n \in Nat : n % Alphabet \in Nat
  BY LeaseAssumption
<1>2. seed % Alphabet \in Nat /\ token % Alphabet \in Nat
  BY <1>1
<1>3. (seed % Alphabet) + (token % Alphabet) \in Nat
  BY <1>2
<1>4. ((seed % Alphabet) + (token % Alphabet)) % Alphabet \in Nat
  BY <1>1, <1>3
<1> QED
  BY <1>4 DEF Pattern, Patterns

LEMMA PublishKeepsRun ==
  ASSUME NEW s, Sound(s), NEW i \in Streams, NEW now \in Nat
  PROVE  LET p == Publish(s, i, now) IN
         /\ KeepsRun(s, p.service)
         /\ p.reply # None => p.reply \in Samples
         /\ IsDue(Tick(s, now), i, now) => p.reply # None
         /\ RunOf(p.service) = RunOf(Tick(s, now))
<1> DEFINE t == Tick(s, now)
           p == Publish(s, i, now)
           next == Advanced(t, i, now)
           counted == Skip(t.counters, Skipped(t, i, now))
           n == DueSequence(t, i, now)
<1>1. Sound(t) /\ (Active(t) => RunOf(t) = RunOf(s)) /\ t \in ServiceState /\ now \in Times
  BY TickSound DEF Times, Sound
<1>2. Sound(p.service)
  BY <1>1, PublishSound DEF Result
<1>3. p = IF ~IsDue(t, i, now) THEN [service |-> t, reply |-> None]
          ELSE [service |-> [t EXCEPT !.schedules[i] = next, !.counters = Skip(@, Skipped(t, i, now))],
                reply |-> [kind |-> "publication", stream |-> i, client |-> t.lease.client,
                           epoch |-> t.epoch, sequence |-> n,
                           payload |-> Pattern(t.lease.config.payload, t.lease.config.seed, n)]]
  BY DEF Publish
<1> HIDE DEF p, next, n, t
<1>4. RunOf(p.service) = RunOf(t)
  BY <1>1, <1>3 DEF RunOf, ServiceState
<1>5. ASSUME IsDue(t, i, now)
      PROVE  p.reply \in Samples
  <2>1. t.lease \in Lease /\ t.epoch \in Epochs
    BY <1>1, <1>5 DEF IsDue, Active, ServiceState
  <2>2. n \in Nat
    <3>1. /\ t.schedules[i] \in Publication /\ t.schedules[i].period \in Nat \ {0}
          /\ t.schedules[i].due \in Nat /\ t.schedules[i].due <= now
          /\ t.schedules[i].sequence \in Nat
      BY <1>1, <1>5, LeaseAssumption DEF IsDue, ServiceState, Publication, Times
    <3>2. now - t.schedules[i].due \in Nat
      BY <3>1
    <3>3. \A k \in Nat, d \in Nat \ {0} : k \div d \in Nat /\ k % d \in Nat
      OBVIOUS
    <3>4. Skipped(t, i, now) \in Nat
      BY <3>1, <3>2, <3>3 DEF Skipped
    <3> QED
      BY <3>1, <3>3, <3>4, LeaseAssumption DEF DueSequence, n
  <2>3. Pattern(t.lease.config.payload, t.lease.config.seed, n) \in Patterns
    <3>1. t.lease.config.payload \in Nat /\ t.lease.config.seed \in Nat
      BY <2>1 DEF Lease, Configuration
    <3> QED
      BY <2>2, <3>1, PatternType
  <2> QED
    BY <1>3, <1>5, <2>1, <2>2, <2>3 DEF Samples, Lease
<1> QED
  BY <1>1, <1>2, <1>3, <1>4, <1>5, SameGeneration, FirmwareAssumption DEF KeepsRun, p, t

Asked == Requests(Nat \ {0}, Epochs, Configuration, Patterns)

LEMMA AskedTypes ==
  ASSUME NEW m \in Asked
  PROVE  /\ WellFormed(m) /\ m.epoch \in Epochs
         /\ m.kind = "probe" => m.payload \in Patterns
<1>1. /\ m.client \in Clients /\ m.id \in Nat \ {0} /\ m.addressed \in BOOLEAN /\ m.epoch \in Epochs
      /\ m.kind \in {"configure", "renew", "stop", "capabilities", "probe"}
      /\ m.config \in Configuration \cup {None}
      /\ m.kind = "configure" => m.config \in Configuration
      /\ m.kind = "probe" => m.payload \in Patterns
  BY DEF Asked, Requests
<1> QED
  BY <1>1 DEF WellFormed, ControlOf, Control

\* What the service answers: control results, limits, or the answer to a probe.
LEMMA HandleReplies ==
  ASSUME NEW s, Sound(s), NEW m \in Asked, NEW now \in Nat
  PROVE  LET h == Handle(s, m, now) IN
         /\ Sound(h.service)
         /\ h.reply # None => h.reply \in BucketedReplies \cup ProbeReplies
<1> DEFINE t == Tick(s, now)
           h == Handle(s, m, now)
<1>1. /\ Sound(t) /\ t.last_time = now /\ t \in ServiceState /\ now \in Times
      /\ WellFormed(m) /\ m.epoch \in Epochs /\ (m.kind = "probe" => m.payload \in Patterns)
      /\ m.client \in Clients /\ m.id \in Nat /\ t.epoch \in Epochs
  BY TickSound, AskedTypes DEF Times, Sound, ServiceState, WellFormed
<1>2. Sound(h.service)
  BY <1>1, HandleSound DEF Result
<1>3. h = IF ~m.addressed THEN [service |-> Reject(t, FALSE), reply |-> None]
          ELSE IF m.kind = "capabilities" THEN Bucketed(t, Capabilities(t, m))
          ELSE IF m.kind = "probe" THEN HandleProbe(t, m)
          ELSE HandleControl(t, m, now)
  BY DEF Handle
<1> HIDE DEF t, h
<1>4. h.reply # None => h.reply \in BucketedReplies \cup ProbeReplies
  <2>1. CASE ~m.addressed
    BY <1>3, <2>1
  <2>2. CASE m.addressed /\ m.kind = "capabilities"
    <3>1. Capabilities(t, m) \in BucketedReplies
      BY <1>1 DEF Capabilities, BucketedReplies, Active
    <3> QED
      BY <1>3, <2>2, <3>1 DEF Bucketed
  <2>3. CASE m.addressed /\ m.kind = "probe"
    <3>1. [kind |-> "probe_response", client |-> m.client, epoch |-> t.epoch,
           id |-> m.id, payload |-> m.payload] \in ProbeReplies
      BY <1>1, <2>3 DEF ProbeReplies
    <3> QED
      BY <1>3, <2>3, <3>1 DEF HandleProbe
  <2>4. CASE m.addressed /\ m.kind \notin {"capabilities", "probe"}
    <3>1. m.kind \in {"configure", "renew", "stop"}
      BY <1>1, <2>4 DEF WellFormed
    <3> QED
      BY <1>1, <1>3, <2>4, <3>1, ControlReply
  <2> QED
    BY <2>1, <2>2, <2>3, <2>4
<1> QED
  BY <1>2, <1>4 DEF h

-----------------------------------------------------------------------------
(* The inductive invariant.                                                  *)

Stages == {"asleep", "receive", "reply", "publish", "offer", "halted"}

\* Where the loop stands.  The sockets belong to the run of the service, except that a run
\* may end between two synchronisations; a loop that sleeps after a failed bind, or was
\* left, has closed its sockets.
StageStands ==
  /\ stage = "asleep" => generation = Generation(service) \/ sockets = Closed
  /\ stage = "halted" => sockets = Closed
  /\ stage \in {"receive", "reply"} => generation = Generation(service)
  /\ stage = "receive" => \A x \in Sockets : sockets.open[x]
  /\ stage = "reply" => message \in BucketedReplies \cup ProbeReplies
  /\ stage \in {"publish", "offer"} => (Active(service) => generation = Generation(service))
  /\ stage = "offer" => message \in Samples

IInv ==
  /\ Sound(service) /\ clock \in Nat /\ generation \in Generations
  /\ config \in Addresses \cup {None} /\ previous_config \in Addresses \cup {None}
  /\ stage \in Stages /\ stream \in Streams
  /\ Good(sockets, generation)
  /\ StageStands

LEMMA Initially == Init => IInv
<1> SUFFICES ASSUME Init PROVE IInv
  OBVIOUS
<1> USE DEF Init
<1>1. /\ Sound(service) /\ service.epoch = 1 /\ service.lease = None
  <2>1. 0 \in Times
    BY DEF Times
  <2> QED
    BY <2>1, NewServiceSound DEF NewService
<1>2. generation = Generation(service) /\ generation \in Generations
  BY <1>1, Generated DEF Generation, Active
<1>3. Good(sockets, generation)
  <2> DEFINE k == [Closed EXCEPT !.open = [s \in Sockets |-> TRUE]]
  <2>1. Good(Closed, generation)
    BY ClosedGood
  <2>2. k \in Opened(generation) /\ k.rx = Closed.rx /\ k.tx = Closed.tx
        /\ \A x \in Sockets : k.open[x]
    BY <2>1 DEF Good, Opened
  <2>3. Good(k, generation)
    BY <2>1, <2>2 DEF Good, Within
  <2> QED
    BY <2>1, <2>3
<1>4. StageStands
  BY <1>2 DEF StageStands
<1>5. clock \in Nat /\ stream \in Streams /\ stage \in Stages
  BY DEF Streams, Stages
<1> QED
  BY <1>1, <1>2, <1>3, <1>4, <1>5 DEF IInv

-----------------------------------------------------------------------------
(* The loop.                                                                 *)

\* What every step of the loop but the first leaves alone.
Apart == UNCHANGED <<environment, previous_config, clock>>

LEMMA PublicationsKeep ==
  ASSUME IInv, Apart, NEW g, NEW k, Good(k, g), NEW s, Sound(s), Publications(g, k, s)
  PROVE  IInv'
<1>1. service' = s /\ generation' = Generation(s) /\ sockets' = Synchronised(g, k, s)
      /\ stage' = "publish" /\ stream' = 0
  BY DEF Publications
<1>2. Good(sockets', generation') /\ generation' \in Generations
  BY <1>1, SynchronisedGood, Generated
<1>3. StageStands'
  BY <1>1 DEF StageStands, Generation
<1>4. stream' \in Streams /\ stage' \in Stages
  BY <1>1 DEF Streams, Stages
<1> QED
  BY <1>1, <1>2, <1>3, <1>4 DEF IInv, Apart, environment

LEMMA FinishKeeps ==
  ASSUME IInv, Apart, NEW k, Good(k, generation), NEW s, Sound(s), service' = s, Finish(k, s)
  PROVE  IInv'
<1>1. generation' = Generation(s) /\ sockets' = Synchronised(generation, k, s)
      /\ stage' = "asleep" /\ stream' = 0
  BY DEF Finish
<1>2. Good(sockets', generation') /\ generation' \in Generations
  BY <1>1, SynchronisedGood, Generated
<1>3. StageStands'
  BY <1>1 DEF StageStands, Generation
<1>4. stream' \in Streams /\ stage' \in Stages
  BY <1>1 DEF Streams, Stages
<1> QED
  BY <1>1, <1>2, <1>3, <1>4 DEF IInv, Apart, environment

LEMMA NextStreamKeeps ==
  ASSUME IInv, Apart, NEW k, Good(k, generation), NEW s, Sound(s),
         Active(s) => generation = Generation(s), NextStream(k, s)
  PROVE  IInv'
<1>1. service' = s
  BY DEF NextStream
<1>2. CASE stream = 0 /\ stream' = 1 /\ stage' = "publish" /\ sockets' = k /\ UNCHANGED generation
  <2>1. StageStands'
    BY <1>1, <1>2 DEF StageStands, Generation, Active
  <2>2. stream' \in Streams /\ stage' \in Stages
    BY <1>2 DEF Streams, Stages
  <2> QED
    BY <1>1, <1>2, <2>1, <2>2 DEF IInv, Apart, environment
<1>3. CASE Finish(k, s)
  BY <1>1, <1>3, FinishKeeps
<1> QED
  BY <1>2, <1>3 DEF NextStream

LEMMA BindFailedKeeps ==
  ASSUME IInv, Apart, NEW k, Good(k, generation), NEW s, Sound(s), BindFailed(k, s)
  PROVE  IInv'
BY Ended, FinishKeeps DEF BindFailed

LEMMA WakeKeeps == ASSUME IInv, Wake PROVE IInv'
<1>1. PICK s \in {Woken(Tick(service, clock))} : \E k \in {Reset(s)} :
        /\ generation' = Generation(s)
        /\ \/ ~ready /\ service' = s /\ sockets' = k /\ stage' = "asleep"
           \/ /\ ready /\ service' = s
              /\ sockets' = [k EXCEPT !.open = [x \in Sockets |-> TRUE]]
              /\ stage' = "receive"
           \/ /\ ready /\ \E x \in Sockets : ~k.open[x]
              /\ service' = End(s) /\ sockets' = Closed /\ stage' = "halted"
  BY DEF Wake
<1> DEFINE k == Reset(s)
           opened == [k EXCEPT !.open = [x \in Sockets |-> TRUE]]
<1>2. Sound(s)
  <2>1. Sound(Tick(service, clock))
    BY TickKeepsRun DEF KeepsRun, IInv
  <2> QED
    BY <1>1, <2>1, Ended DEF Woken
<1>3. Good(k, Generation(s))
  BY ClosedGood, SynchronisedGood DEF Reset, IInv
<1>4. Good(opened, Generation(s)) /\ \A x \in Sockets : opened.open[x]
  <2> HIDE DEF k
  <2>1. opened \in Opened(Generation(s)) /\ opened.rx = k.rx /\ opened.tx = k.tx
        /\ \A x \in Sockets : opened.open[x]
    BY <1>3 DEF Good, Opened
  <2> QED
    BY <1>3, <2>1 DEF Good, Within
<1>5. /\ previous_config' \in Addresses \cup {None} /\ config' \in Addresses \cup {None}
      /\ clock' \in Nat /\ stream' \in Streams
  BY DEF Wake, IInv, environment
<1>6. generation' = Generation(s) /\ generation' \in Generations
  BY <1>1, <1>2, Generated
<1> HIDE DEF k, opened
<1>7. \/ service' = s /\ sockets' = k /\ stage' = "asleep"
      \/ service' = s /\ sockets' = opened /\ stage' = "receive"
      \/ service' = End(s) /\ sockets' = Closed /\ stage' = "halted"
  BY <1>1 DEF k, opened
<1>8. Sound(service') /\ Good(sockets', generation') /\ stage' \in Stages
  BY <1>2, <1>3, <1>4, <1>6, <1>7, Ended, ClosedGood DEF Stages
<1>9. StageStands'
  BY <1>4, <1>6, <1>7 DEF StageStands, Generation
<1> QED
  BY <1>5, <1>6, <1>8, <1>9 DEF IInv

LEMMA ReceiveNothingKeeps == ASSUME IInv, ReceiveNothing PROVE IInv'
BY PublicationsKeep DEF IInv, ReceiveNothing, Apart

LEMMA ReceiveFaultKeeps == ASSUME IInv, ReceiveFault PROVE IInv'
<1> DEFINE d == Head(sockets.rx).datagram
           k == [sockets EXCEPT !.rx = Tail(@)]
           crc == d.fault = "crc" /\ d.local = config
<1>1. /\ sockets.rx # <<>> /\ Apart
      /\ Publications(generation, k, Reject(service, crc))
  BY DEF ReceiveFault, Apart
<1>2. Good(k, generation)
  BY <1>1, ReceiveGood DEF IInv
<1>3. Sound(Reject(service, crc))
  BY RejectSound DEF IInv
<1> QED
  BY <1>1, <1>2, <1>3, PublicationsKeep

LEMMA ReceiveRequestKeeps == ASSUME IInv, ReceiveRequest PROVE IInv'
<1> DEFINE d == Head(sockets.rx).datagram
           rest == [sockets EXCEPT !.rx = Tail(@)]
           h == Handle(service, d.request, clock)
           k == Synchronised(generation, rest, h.service)
           g == Generation(h.service)
<1>1. /\ stage = "receive" /\ sockets.rx # <<>> /\ Apart
      /\ \/ h.reply = None /\ Publications(g, Bind(k, 0), h.service)
         \/ /\ h.reply # None
            /\ service' = h.service /\ generation' = g /\ sockets' = Bind(k, 0)
            /\ stage' = "reply" /\ message' = h.reply
            /\ UNCHANGED stream
         \/ /\ ~k.open[0]
            /\ service' = End(h.service) /\ generation' = g /\ sockets' = k
            /\ stage' = "asleep"
            /\ UNCHANGED stream
  BY DEF ReceiveRequest, Apart
<1>2. d \in Datagrams /\ Good(rest, generation) /\ rest.open = sockets.open
  BY <1>1, ReceiveGood DEF IInv
<1>3. d.request \in Asked
  BY <1>2, FirmwareAssumption DEF Asked
<1> HIDE DEF d
<1>4. Sound(h.service) /\ (h.reply # None => h.reply \in BucketedReplies \cup ProbeReplies)
  BY <1>3, HandleReplies DEF IInv
<1> HIDE DEF h, rest
<1>5. Good(k, g) /\ g \in Generations
  BY <1>2, <1>4, SynchronisedGood, Generated
<1>6. 0 \in Sockets
  BY Capacities
<1>7. ~k.open[0] => k = Closed
  BY <1>1, <1>2, <1>6 DEF Synchronised, IInv, StageStands
<1> HIDE DEF k
<1>8. Good(Bind(k, 0), g)
  BY <1>5, <1>6, BindGood
<1>9. CASE Publications(g, Bind(k, 0), h.service)
  BY <1>1, <1>4, <1>8, <1>9, PublicationsKeep
<1>10. CASE /\ h.reply # None
            /\ service' = h.service /\ generation' = g /\ sockets' = Bind(k, 0)
            /\ stage' = "reply" /\ message' = h.reply
            /\ UNCHANGED stream
  <2>1. StageStands'
    BY <1>4, <1>10 DEF StageStands, Generation
  <2>2. stage' \in Stages
    BY <1>10 DEF Stages
  <2> HIDE DEF g
  <2> QED
    BY <1>1, <1>4, <1>5, <1>8, <1>10, <2>1, <2>2 DEF IInv, Apart, environment
<1>11. CASE /\ ~k.open[0]
            /\ service' = End(h.service) /\ generation' = g /\ sockets' = k
            /\ stage' = "asleep"
            /\ UNCHANGED stream
  <2>1. StageStands'
    BY <1>7, <1>11 DEF StageStands
  <2>2. stage' \in Stages /\ Sound(service')
    BY <1>4, <1>11, Ended DEF Stages
  <2> HIDE DEF g
  <2> QED
    BY <1>1, <1>5, <1>11, <2>1, <2>2 DEF IInv, Apart, environment
<1> QED
  BY <1>1, <1>9, <1>10, <1>11

LEMMA ReplyKeeps == ASSUME IInv, Reply PROVE IInv'
<1> DEFINE s == Tick(service, clock)
<1>1. /\ stage = "reply" /\ Apart
      /\ \/ Publications(generation, sockets, s)
         \/ /\ ReplyStands(s) /\ MaySend(sockets, 0)
            /\ Publications(generation, Send(sockets, 0, message),
                            [s EXCEPT !.counters = Sent(@, 0, TRUE)])
         \/ Publications(generation, sockets, [s EXCEPT !.counters = Sent(@, 0, FALSE)])
  BY DEF Reply, Apart
<1>2. KeepsRun(service, s) /\ Sound(s) /\ Good(sockets, generation) /\ 0 \in Sockets
  BY TickKeepsRun, Capacities DEF IInv, KeepsRun
<1> HIDE DEF s
<1>3. /\ Sound([s EXCEPT !.counters = Sent(@, 0, TRUE)])
      /\ Sound([s EXCEPT !.counters = Sent(@, 0, FALSE)])
  BY <1>2, Accounting DEF Accounts
<1>4. ASSUME ReplyStands(s)
      PROVE  message \in Fresh(generation)
  <2>1. message \in BucketedReplies \cup ProbeReplies /\ generation = Generation(service)
    BY <1>1 DEF IInv, StageStands
  <2>2. CASE message \in BucketedReplies
    <3>1. message.kind \in {"result", "limits"}
      BY <2>2 DEF BucketedReplies
    <3> QED
      BY <2>2, <3>1 DEF Fresh, Messages
  <2>3. CASE message \in ProbeReplies
    <3>1. message.kind = "probe_response"
      BY <2>3 DEF ProbeReplies
    <3>2. message.epoch = s.epoch /\ Active(s)
      BY <1>4, <3>1 DEF ReplyStands
    <3>3. generation = Generation(s)
      BY <1>2, <2>1, <3>2, SameGeneration DEF KeepsRun
    <3>4. generation[2] /\ message.epoch = generation[1]
      BY <1>2, <3>2, <3>3, Generated
    <3> QED
      BY <2>3, <3>4 DEF Fresh, Messages
  <2> QED
    BY <2>1, <2>2, <2>3
<1>5. CASE ReplyStands(s) /\ MaySend(sockets, 0)
           /\ Publications(generation, Send(sockets, 0, message),
                           [s EXCEPT !.counters = Sent(@, 0, TRUE)])
  <2>1. Good(Send(sockets, 0, message), generation)
    BY <1>2, <1>4, <1>5, SendGood
  <2> QED
    BY <1>1, <1>3, <1>5, <2>1, PublicationsKeep
<1> QED
  BY <1>1, <1>2, <1>3, <1>5, PublicationsKeep

LEMMA SampleKeeps == ASSUME IInv, Sample PROVE IInv'
<1> DEFINE x == SocketOf(stream)
           p == Publish(service, stream, clock)
           k == Bind(sockets, x)
<1>1. /\ stage = "publish" /\ Apart
      /\ \/ BindFailed(sockets, service)
         \/ NextStream(k, p.service)
         \/ /\ p.reply # None /\ service' = p.service /\ sockets' = k /\ message' = p.reply
            /\ stage' = "offer" /\ UNCHANGED <<generation, stream>>
         \/ /\ p.reply # None /\ service' = Replaced(p.service)
            /\ sockets' = Bind(Close(k, x), x) /\ message' = p.reply
            /\ stage' = "offer" /\ UNCHANGED <<generation, stream>>
         \/ BindFailed(Close(k, x), Replaced(p.service))
  BY DEF Sample, Apart
<1>2. Sound(service) /\ Good(sockets, generation) /\ x \in Sockets /\ stream \in Streams
  BY Capacities DEF IInv
<1>3. KeepsRun(service, p.service) /\ (p.reply # None => p.reply \in Samples)
  BY <1>2, PublishKeepsRun DEF IInv
<1>4. Good(k, generation)
  BY <1>2, BindGood
<1>5. Good(Close(k, x), generation) /\ Good(Bind(Close(k, x), x), generation)
  BY <1>2, <1>4, CloseGood, BindGood
<1> DEFINE s == p.service
           r == Replaced(p.service)
<1> HIDE DEF p, k, x
<1>6. /\ Sound(s) /\ (Active(s) => generation = Generation(s))
      /\ Sound(r) /\ (Active(r) => generation = Generation(r))
  <2>1. Sound(s) /\ (Active(s) => RunOf(s) = RunOf(service))
    BY <1>3 DEF KeepsRun
  <2>2. Active(service) => generation = Generation(service)
    BY <1>1 DEF IInv, StageStands
  <2>3. Sound(r) /\ RunOf(r) = RunOf(s)
    BY <2>1, Capacities, Accounting DEF Accounts
  <2> HIDE DEF s, r
  <2>4. Generation(r) = Generation(s) /\ (Active(r) <=> Active(s))
    BY <2>3, SameGeneration
  <2>5. Active(s) => Generation(s) = Generation(service) /\ Active(service)
    BY <2>1, SameGeneration
  <2> QED
    BY <2>1, <2>2, <2>3, <2>4, <2>5
<1> HIDE DEF s, r
<1>7. ASSUME NEW q \in {s, r}, service' = q, message' = p.reply, p.reply # None,
             Good(sockets', generation), stage' = "offer", UNCHANGED <<generation, stream>>
      PROVE  IInv'
  <2>1. StageStands'
    BY <1>3, <1>6, <1>7 DEF StageStands, Generation, Active
  <2>2. stage' \in Stages
    BY <1>7 DEF Stages
  <2> QED
    BY <1>1, <1>6, <1>7, <2>1, <2>2 DEF IInv, Apart, environment
<1>8. CASE BindFailed(sockets, service)
  BY <1>1, <1>2, <1>8, BindFailedKeeps
<1>9. CASE NextStream(k, s)
  BY <1>1, <1>4, <1>6, <1>9, NextStreamKeeps
<1>10. CASE BindFailed(Close(k, x), r)
  BY <1>1, <1>5, <1>6, <1>10, BindFailedKeeps
<1> QED
  BY <1>1, <1>4, <1>5, <1>7, <1>8, <1>9, <1>10 DEF s, r

LEMMA OfferKeeps == ASSUME IInv, Offer PROVE IInv'
<1> DEFINE x == SocketOf(stream)
           s == Tick(service, clock)
           sent == [s EXCEPT !.counters = Sent(@, x, TRUE)]
           failed == [s EXCEPT !.counters = Skip(Sent(@, x, FALSE), 1)]
<1>1. /\ stage = "offer" /\ Apart
      /\ \/ NextStream(sockets, s)
         \/ /\ Active(s) /\ message.epoch = s.epoch /\ MaySend(sockets, x)
            /\ NextStream(Send(sockets, x, message), sent)
         \/ NextStream(sockets, failed)
  BY DEF Offer, Apart
<1>2. /\ KeepsRun(service, s) /\ Sound(s) /\ Good(sockets, generation)
      /\ x \in Sockets /\ message \in Samples
  BY <1>1, TickKeepsRun, Capacities DEF IInv, KeepsRun, StageStands
<1> HIDE DEF s, x
<1>3. Active(s) => generation = Generation(s)
  BY <1>1, <1>2, SameGeneration DEF IInv, StageStands, KeepsRun
<1>4. Accounts(s, sent) /\ Accounts(s, failed)
  BY <1>2, Accounting
<1> HIDE DEF sent, failed
<1>5. /\ Sound(sent) /\ (Active(sent) => generation = Generation(sent))
      /\ Sound(failed) /\ (Active(failed) => generation = Generation(failed))
  BY <1>3, <1>4, SameGeneration DEF Accounts
<1>6. CASE /\ Active(s) /\ message.epoch = s.epoch /\ MaySend(sockets, x)
           /\ NextStream(Send(sockets, x, message), sent)
  <2>1. generation[2] /\ message.epoch = generation[1]
    BY <1>2, <1>3, <1>6, Generated
  <2>2. message \in Fresh(generation)
    BY <1>2, <2>1 DEF Fresh, Messages
  <2>3. Good(Send(sockets, x, message), generation)
    BY <1>2, <1>6, <2>2, SendGood
  <2> QED
    BY <1>1, <1>5, <1>6, <2>3, NextStreamKeeps
<1>7. CASE NextStream(sockets, s)
  BY <1>1, <1>2, <1>3, <1>7, NextStreamKeeps
<1>8. CASE NextStream(sockets, failed)
  BY <1>1, <1>2, <1>5, <1>8, NextStreamKeeps
<1> QED
  BY <1>1, <1>6, <1>7, <1>8

-----------------------------------------------------------------------------
(* The network and the clock.                                                *)

LEMMA ArriveKeeps == ASSUME IInv, NEW d \in Datagrams, Arrive(d) PROVE IInv'
<1> DEFINE e == [datagram |-> d, generation |-> Generation(service)]
<1>1. /\ stage \in {"asleep", "halted"} /\ sockets.open[0] /\ Len(sockets.rx) < RxCapacity
      /\ sockets' = [sockets EXCEPT !.rx = Append(@, e)]
      /\ UNCHANGED <<service, generation, config, previous_config, stage, stream, message,
                     clock>>
  BY DEF Arrive, environment
<1>2. sockets # Closed
  BY <1>1, Capacities DEF Closed
<1>3. stage = "asleep" /\ generation = Generation(service)
  BY <1>1, <1>2 DEF IInv, StageStands
<1>4. Good(sockets', generation)
  BY <1>1, <1>3, ArriveGood DEF IInv
<1>5. StageStands'
  BY <1>1, <1>3 DEF StageStands, Generation
<1> QED
  BY <1>1, <1>4, <1>5 DEF IInv

LEMMA TransmitKeeps == ASSUME IInv, NEW x \in Sockets, Transmit(x) PROVE IInv'
<1>1. /\ stage = "asleep" /\ sockets.tx[x] # <<>>
      /\ sockets' = [sockets EXCEPT !.tx[x] = Tail(@)]
      /\ UNCHANGED <<service, generation, config, previous_config, stage, stream, message,
                     clock>>
  BY DEF Transmit, environment
<1>2. sockets # Closed
  BY <1>1 DEF Closed
<1>3. generation = Generation(service)
  BY <1>1, <1>2 DEF IInv, StageStands
<1>4. Good(sockets', generation)
  BY <1>1, TransmitGood DEF IInv
<1>5. StageStands'
  BY <1>1, <1>3 DEF StageStands, Generation
<1> QED
  BY <1>1, <1>4, <1>5 DEF IInv

LEMMA NetworkChangeKeeps == ASSUME IInv, NetworkChange PROVE IInv'
<1>1. /\ config' \in Addresses \cup {None}
      /\ UNCHANGED <<service, generation, previous_config, sockets, stage, stream, message,
                     clock>>
  BY DEF IInv, NetworkChange
<1>2. StageStands'
  BY <1>1 DEF IInv, StageStands, Generation, Active
<1> QED
  BY <1>1, <1>2 DEF IInv

LEMMA ElapseKeeps == ASSUME IInv, Elapse PROVE IInv'
<1>1. /\ clock' = clock + 1
      /\ UNCHANGED <<service, generation, config, previous_config, sockets, stage, stream,
                     message>>
  BY DEF Elapse, environment
<1>2. StageStands' /\ clock' \in Nat
  BY <1>1 DEF IInv, StageStands, Generation, Active
<1> QED
  BY <1>1, <1>2 DEF IInv

LEMMA Inductive == IInv /\ [Next]_vars => IInv'
<1> SUFFICES ASSUME IInv, [Next]_vars PROVE IInv'
  OBVIOUS
<1>1. CASE Firmware
  BY <1>1, WakeKeeps, ReceiveNothingKeeps, ReceiveFaultKeeps, ReceiveRequestKeeps, ReplyKeeps,
     SampleKeeps, OfferKeeps DEF Firmware
<1>2. CASE Network
  BY <1>2, ArriveKeeps, TransmitKeeps, NetworkChangeKeeps DEF Network
<1>3. CASE Elapse
  BY <1>3, ElapseKeeps
<1>4. CASE UNCHANGED vars
  <2>1. UNCHANGED <<service, generation, config, previous_config, sockets, stage, stream,
                    message, clock>>
    BY <1>4 DEF vars
  <2>2. StageStands'
    BY <2>1 DEF IInv, StageStands, Generation, Active
  <2> QED
    BY <2>1, <2>2 DEF IInv
<1> QED
  BY <1>1, <1>2, <1>3, <1>4 DEF Next

LEMMA Invariance == Spec => []IInv
BY Initially, Inductive, PTL DEF Spec

-----------------------------------------------------------------------------
(* The theorems.                                                             *)

\* No queue of a socket exceeds its capacity, a closed socket holds nothing to send, and the
\* service keeps its type, whatever the network delivers.
THEOREM TypeCorrect == Spec => []TypeOK
<1>1. ASSUME IInv PROVE TypeOK
  <2>1. service \in ServiceState /\ generation \in Epochs \X BOOLEAN
    BY <1>1 DEF IInv, Sound, Generations
  <2>2. /\ sockets.open \in [Sockets -> BOOLEAN] /\ Len(sockets.rx) <= RxCapacity
        /\ \A x \in Sockets : Len(sockets.tx[x]) <= TxCapacity[x]
        /\ \A x \in Sockets : ~sockets.open[x] => sockets.tx[x] = <<>>
    BY <1>1 DEF IInv, Good, Opened, Within
  <2> QED
    BY <1>1, <2>1, <2>2 DEF IInv, TypeOK, Stages
<1> QED
  BY <1>1, Invariance, PTL

\* While the loop awaits, no queue holds a sample or an answer to a probe of a run that is
\* over: the sockets are closed with the run, and a reply or a sample that was encoded for a
\* run is looked at again before it is queued.
THEOREM QueuesFresh == Spec => []QueuesOfThisRun
<1>1. ASSUME IInv PROVE QueuesOfThisRun
  <2> SUFFICES ASSUME stage = "asleep", NEW x \in Sockets, NEW n \in DOMAIN sockets.tx[x],
                      sockets.tx[x][n].kind \in {"publication", "probe_response"}
               PROVE  Active(service) /\ sockets.tx[x][n].epoch = service.epoch
    BY DEF QueuesOfThisRun
  <2>1. sockets # Closed
    BY DEF Closed
  <2>2. generation = Generation(service)
    BY <1>1, <2>1 DEF IInv, StageStands
  <2>3. sockets.tx[x] \in Seq(Fresh(generation))
    BY <1>1 DEF IInv, Good, Opened
  <2>4. sockets.tx[x][n] \in Fresh(generation)
    BY <2>3
  <2>5. generation[2] /\ sockets.tx[x][n].epoch = generation[1]
    BY <2>4 DEF Fresh
  <2> QED
    BY <1>1, <2>2, <2>5, Generated DEF IInv
<1> QED
  BY <1>1, Invariance, PTL

\* While the loop awaits, every request in the queue arrived in the run, or the pause between
\* runs, that is on: the command socket is closed whenever a run starts or ends.
THEOREM RequestsFresh == Spec => []RequestsOfThisRun
<1>1. ASSUME IInv PROVE RequestsOfThisRun
  <2> SUFFICES ASSUME stage = "asleep", NEW n \in DOMAIN sockets.rx
               PROVE  sockets.rx[n].generation = Generation(service)
    BY DEF RequestsOfThisRun
  <2>1. sockets # Closed
    BY DEF Closed
  <2>2. generation = Generation(service)
    BY <1>1, <2>1 DEF IInv, StageStands
  <2>3. sockets.rx \in Seq(Arrived(generation))
    BY <1>1 DEF IInv, Good, Opened
  <2>4. sockets.rx[n] \in Arrived(generation)
    BY <2>3
  <2> QED
    BY <2>2, <2>4 DEF Arrived
<1> QED
  BY <1>1, Invariance, PTL

-----------------------------------------------------------------------------
(* The account of a run's slots.                                             *)

\* The publication sockets hold one packet each, as in the code, and the board is not up
\* for so long that the sequence of a stream could wrap.
SinglePlaces == TxCapacity[1] = 1 /\ TxCapacity[2] = 1
Unwrapped == \A i \in Streams : MaxTime < SequenceMod * MinPeriod[i]

Slots(s) == s.schedules[0].sequence + s.schedules[1].sequence
Queued(k) == Len(k.tx[1]) + Len(k.tx[2])

\* Every slot taken so far, and the next one, is a period of its own.
Ahead(s) ==
  \A i \in Streams :
    (s.schedules[i].sequence + 1) * s.schedules[i].period <= s.schedules[i].due

\* The slots of a run whose sockets k were opened for generation g, when n samples were
\* delivered and h are with the loop.
Account(s, k, g, n, h) ==
  Active(s) =>
    /\ g = Generation(s)
    /\ Ahead(s)
    /\ s.counters.skipped < CounterMax => Slots(s) = n + Queued(k) + h + s.counters.skipped

LEMMA AccountKept ==
  ASSUME NEW s, NEW k, NEW g, NEW n, NEW h, Account(s, k, g, n, h), NEW t, NEW l,
         Queued(l) = Queued(k),
         Active(t) => /\ Active(s) /\ t.epoch = s.epoch /\ t.schedules = s.schedules
                      /\ t.counters.skipped = s.counters.skipped
  PROVE  Account(t, l, g, n, h)
BY DEF Account, Generation, Ahead, Slots

LEMMA TickKeepsAccount ==
  ASSUME NEW s, Sound(s), NEW now \in Nat,
         NEW k, NEW g, NEW n, NEW h, Account(s, k, g, n, h)
  PROVE  Account(Tick(s, now), k, g, n, h)
<1> DEFINE t == Tick(s, now)
<1>1. Active(t) => /\ Active(s) /\ t.epoch = s.epoch /\ t.schedules = s.schedules
                   /\ t.counters.skipped = s.counters.skipped
  BY TickSchedules DEF RunOf, Times
<1> HIDE DEF t
<1>2. Account(t, k, g, n, h)
  BY <1>1, AccountKept
<1> QED
  BY <1>2 DEF t

\* A synchronisation changes nothing while the run is the one the sockets are for.
LEMMA SynchronisedAccount ==
  ASSUME NEW s, NEW k, NEW g, NEW n, NEW h, Account(s, k, g, n, h)
  PROVE  Account(s, Synchronised(g, k, s), Generation(s), n, h)
BY DEF Account, Synchronised

LEMMA Quotients ==
  ASSUME NEW n \in Nat, NEW d \in Nat \ {0}
  PROVE  /\ n \div d \in Nat /\ n % d \in 0..(d - 1)
         /\ n = d * (n \div d) + (n % d)
OBVIOUS

LEMMA Products ==
  /\ \A a, b, d \in Nat : a * d \in Nat /\ (a + b) * d = a * d + b * d /\ a * d = d * a
  /\ \A a, b \in Nat, d \in Nat \ {0} : a * d < b * d => a < b
<1>1. \A a, b, d \in Nat : a * d \in Nat /\ (a + b) * d = a * d + b * d /\ a * d = d * a
  OBVIOUS
<1>2. ASSUME NEW a \in Nat, NEW b \in Nat, NEW d \in Nat \ {0}, a >= b
      PROVE  a * d >= b * d
  <2> DEFINE c == a - b
  <2>1. c \in Nat /\ a = b + c
    BY <1>2
  <2> HIDE DEF c
  <2>2. a * d = b * d + c * d /\ c * d \in Nat /\ b * d \in Nat
    BY <1>1, <2>1
  <2> QED
    BY <2>2
<1>3. ASSUME NEW a \in Nat, NEW b \in Nat, NEW d \in Nat \ {0}, a * d < b * d
      PROVE  a < b
  <2>1. a * d \in Nat /\ b * d \in Nat
    BY <1>1
  <2> QED
    BY <1>2, <1>3, <2>1
<1> QED
  BY <1>1, <1>3

\* The numbers of the slot that is taken and of the next one, when neither wraps.
LEMMA SlotNumbers ==
  ASSUME NEW q \in Nat, NEW due \in Nat, NEW d \in Nat \ {0}, NEW now \in Nat, due <= now,
         (q + 1) * d <= due, NEW m \in Nat \ {0}, now < m * d,
         NEW k, k = (now - due) \div d
  PROVE  /\ k \in Nat /\ (((q + k) % m) + 1) % m = q + k + 1
         /\ ((q + k + 1) + 1) * d <= now + (d - ((now - due) % d))
<1> DEFINE late == now - due
           r == late % d
           a == (q + 1) * d
           b == k * d
           c == (q + 1 + k) * d
<1>1. late \in Nat /\ due + late = now /\ k = late \div d
  OBVIOUS
<1> HIDE DEF late
<1>2. k \in Nat /\ r \in 0..(d - 1) /\ late = d * k + r
  BY <1>1, Quotients
<1> HIDE DEF r
<1>3. /\ a \in Nat /\ b \in Nat /\ c = a + b /\ late = b + r /\ m * d \in Nat
  <2>1. q + 1 \in Nat /\ d \in Nat /\ m \in Nat
    OBVIOUS
  <2>2. b = d * k
    BY <1>2, <2>1, Products
  <2>3. c = a + b /\ a \in Nat /\ b \in Nat /\ m * d \in Nat
    BY <1>2, <2>1, Products
  <2> QED
    BY <1>2, <2>2, <2>3
<1>4. a <= due
  OBVIOUS
<1>5. ((q + k + 1) + 1) * d = c + d
  <2>1. (q + 1 + k) \in Nat /\ 1 \in Nat /\ d \in Nat
    BY <1>2
  <2>2. ((q + 1 + k) + 1) * d = c + 1 * d
    BY <2>1, Products
  <2>3. (q + k + 1) + 1 = (q + 1 + k) + 1 /\ 1 * d = d
    BY <1>2
  <2> QED
    BY <2>2, <2>3
<1> HIDE DEF a, b
<1>6. c < m * d /\ c + d <= now + (d - r)
  <2> HIDE DEF c
  <2> QED
    BY <1>1, <1>2, <1>3, <1>4
<1>7. q + 1 + k < m
  <2>1. q + 1 + k \in Nat /\ m \in Nat
    BY <1>2
  <2> QED
    BY <1>6, <2>1, Products
<1>8. (q + k) % m = q + k /\ (q + k + 1) % m = q + k + 1
  <2>1. \A n \in Nat : n < m => n % m = n
    OBVIOUS
  <2>2. q + k \in Nat /\ q + k + 1 \in Nat /\ q + k < m /\ q + k + 1 < m
    BY <1>2, <1>7
  <2> QED
    BY <2>1, <2>2
<1> QED
  BY <1>2, <1>5, <1>6, <1>8 DEF late, r

LEMMA SkipCounts ==
  ASSUME NEW c \in CounterState, NEW n \in Nat
  PROVE  /\ Skip(c, n).skipped \in CounterRange /\ c.skipped \in Nat
         /\ Skip(c, n).skipped < CounterMax =>
              c.skipped < CounterMax /\ Skip(c, n).skipped = c.skipped + n
<1>1. c.skipped \in Nat /\ CounterMax \in Nat /\ c.skipped <= CounterMax
  BY CounterAssumption DEF CounterState, CounterRange
<1>2. Skip(c, n).skipped = SatAdd(c.skipped, n)
  BY DEF Skip, CounterState
<1> QED
  BY <1>1, <1>2 DEF SatAdd, CounterRange

\* The schedule of a stream after its sample was taken, and what became of the other one.
LEMMA PublishAccount ==
  ASSUME Unwrapped, NEW s, Sound(s), NEW i \in Streams, NEW now \in Nat, now <= MaxTime,
         NEW k, NEW g, NEW n, Account(s, k, g, n, 0), n + Queued(k) \in Nat
  PROVE  LET p == Publish(s, i, now) IN
         /\ p.reply = None => Account(p.service, k, g, n, 0)
         /\ p.reply # None => /\ Account(p.service, k, g, n, 1)
                              /\ Active(p.service) /\ p.reply.epoch = p.service.epoch
<1> DEFINE t == Tick(s, now)
           p == Publish(s, i, now)
           next == Advanced(t, i, now)
           counted == Skip(t.counters, Skipped(t, i, now))
           new == [t EXCEPT !.schedules[i] = next, !.counters = counted]
<1>1. Sound(t) /\ t \in ServiceState /\ Account(t, k, g, n, 0)
  BY TickKeepsAccount, TickSound DEF Sound, Times
<1>2. p.reply # None => p.reply \in Samples
  BY PublishKeepsRun
<1>3. p = IF ~IsDue(t, i, now) THEN [service |-> t, reply |-> None]
          ELSE [service |-> [t EXCEPT !.schedules[i] = next, !.counters = Skip(@, Skipped(t, i, now))],
                reply |-> [kind |-> "publication", stream |-> i, client |-> t.lease.client,
                           epoch |-> t.epoch, sequence |-> DueSequence(t, i, now),
                           payload |-> Pattern(t.lease.config.payload, t.lease.config.seed,
                                               DueSequence(t, i, now))]]
  BY DEF Publish
<1> HIDE DEF t, p, next, counted
<1>4. CASE ~IsDue(t, i, now)
  BY <1>1, <1>3, <1>4 DEF p
<1>5. CASE IsDue(t, i, now)
  <2> DEFINE b == t.schedules[i]
             sk == Skipped(t, i, now)
  <2>1. p.service = new /\ p.reply.epoch = t.epoch
    BY <1>1, <1>3, <1>5 DEF ServiceState, counted
  <2>2. /\ b \in Publication /\ b.sequence \in Nat /\ b.due \in Nat /\ b.period \in Nat \ {0}
        /\ b.due <= now /\ Active(t) /\ t.counters \in CounterState
    BY <1>1, <1>5, LeaseAssumption DEF IsDue, ServiceState, Publication, Times
  <2>3. (b.sequence + 1) * b.period <= b.due
    BY <1>1, <2>2 DEF Account, Ahead
  <2>4. now < SequenceMod * b.period
    <3>1. b.period >= MinPeriod[i] /\ MinPeriod[i] \in Nat
      <4>1. b.period = t.lease.config.period[i] /\ configuration_valid(t.lease.config)
        BY <1>1, <2>2 DEF Sound, Following
      <4> QED
        BY <2>2, <4>1, LeaseAssumption DEF configuration_valid
    <3>2. now < SequenceMod * MinPeriod[i] /\ SequenceMod \in Nat
      BY FirmwareAssumption, LeaseAssumption DEF Unwrapped, Times
    <3> DEFINE more == b.period - MinPeriod[i]
    <3>3. more \in Nat /\ b.period = MinPeriod[i] + more
      BY <2>2, <3>1
    <3> HIDE DEF more
    <3> DEFINE d == b.period
               e == MinPeriod[i]
    <3>4. d \in Nat /\ e \in Nat /\ d = e + more /\ now < SequenceMod * e
      BY <2>2, <3>1, <3>2, <3>3
    <3> HIDE DEF d, e
    <3>5. /\ d * SequenceMod = e * SequenceMod + more * SequenceMod
          /\ more * SequenceMod \in Nat /\ e * SequenceMod \in Nat
          /\ e * SequenceMod = SequenceMod * e /\ d * SequenceMod = SequenceMod * d
      BY <3>2, <3>3, <3>4, Products
    <3>6. now < SequenceMod * d
      BY <3>4, <3>5
    <3> QED
      BY <3>6 DEF d
  <2>5. /\ sk \in Nat
        /\ (((b.sequence + sk) % SequenceMod) + 1) % SequenceMod = b.sequence + sk + 1
        /\ ((b.sequence + sk + 1) + 1) * b.period
             <= now + (b.period - ((now - b.due) % b.period))
    <3> DEFINE q == b.sequence
               due == b.due
               d == b.period
               m == SequenceMod
    <3>1. /\ q \in Nat /\ due \in Nat /\ d \in Nat \ {0} /\ due <= now /\ (q + 1) * d <= due
          /\ m \in Nat \ {0} /\ now < m * d
      BY <2>2, <2>3, <2>4, LeaseAssumption
    <3>2. sk = (now - due) \div d
      BY DEF Skipped
    <3> HIDE DEF q, due, d, m, sk
    <3>3. /\ sk \in Nat /\ (((q + sk) % m) + 1) % m = q + sk + 1
          /\ ((q + sk + 1) + 1) * d <= now + (d - ((now - due) % d))
      BY <3>1, <3>2, SlotNumbers, SMTT(40)
    <3> QED
      BY <3>3 DEF q, due, d, m
  <2>6. /\ next.sequence = b.sequence + sk + 1 /\ next.period = b.period
        /\ (next.sequence + 1) * next.period <= next.due
    <3>1. next = [b EXCEPT !.sequence = (((b.sequence + sk) % SequenceMod) + 1) % SequenceMod,
                           !.due = now + (b.period - ((now - b.due) % b.period))]
      BY DEF next, Advanced, DueSequence
    <3> DEFINE number == (((b.sequence + sk) % SequenceMod) + 1) % SequenceMod
               instant == now + (b.period - ((now - b.due) % b.period))
    <3>2. number = b.sequence + sk + 1
      BY <2>5
    <3>3. ((b.sequence + sk + 1) + 1) * b.period <= instant
      BY <2>5
    <3>4. next = [b EXCEPT !.sequence = number, !.due = instant]
      BY <3>1
    <3> HIDE DEF number, instant
    <3>5. next.sequence = number /\ next.due = instant /\ next.period = b.period
      BY <2>2, <3>4 DEF Publication
    <3> QED
      BY <3>2, <3>3, <3>5
  <2>7. /\ new.schedules[i] = next /\ new.epoch = t.epoch /\ new.lease = t.lease
        /\ new.counters = counted /\ \A j \in Streams \ {i} : new.schedules[j] = t.schedules[j]
    BY <1>1 DEF ServiceState
  <2> HIDE DEF new, sk, b
  <2>8. Generation(new) = Generation(t) /\ Active(new)
    BY <2>2, <2>7 DEF Generation, Active
  <2>9. Ahead(new)
    BY <1>1, <2>2, <2>6, <2>7 DEF Ahead, Account
  <2>10. Slots(new) = Slots(t) + sk + 1
    <3>1. \A j \in Streams : t.schedules[j].sequence \in Nat
      BY <1>1, LeaseAssumption DEF ServiceState, Publication
    <3> QED
      BY <2>2, <2>5, <2>6, <2>7, <3>1 DEF Slots, Streams, b
  <2>11. counted.skipped < CounterMax =>
           t.counters.skipped < CounterMax /\ counted.skipped = t.counters.skipped + sk
    BY <2>2, <2>5, SkipCounts DEF counted, sk
  <2>12. new.counters.skipped < CounterMax =>
           Slots(new) = n + Queued(k) + 1 + new.counters.skipped
    <3>1. t.counters.skipped \in Nat
      BY <2>2, <2>5, SkipCounts
    <3>2. t.counters.skipped < CounterMax =>
            Slots(t) = n + Queued(k) + 0 + t.counters.skipped
      BY <1>1, <2>2 DEF Account
    <3> QED
      BY <2>5, <2>7, <2>10, <2>11, <3>1, <3>2
  <2>13. Account(new, k, g, n, 1)
    BY <1>1, <2>2, <2>8, <2>9, <2>12 DEF Account
  <2>14. p.reply # None
    BY <1>5, PublishKeepsRun DEF p, t
  <2> QED
    BY <2>1, <2>7, <2>8, <2>13, <2>14 DEF p
<1> QED
  BY <1>4, <1>5

\* What the loop has in hand: a sample that is neither queued nor dropped yet.
InHand == IF stage = "offer" THEN 1 ELSE 0

Offered ==
  stage = "offer" /\ Active(service) =>
    message.epoch = service.epoch /\ sockets.tx[SocketOf(stream)] = <<>>

Balanced == Account(service, sockets, generation, delivered, InHand) /\ Offered

SInv == clock <= MaxTime /\ delivered \in Nat /\ Balanced

LEMMA QueuedTypes ==
  ASSUME NEW g, NEW k, Good(k, g)
  PROVE  /\ Queued(k) \in Nat /\ Queued(Closed) = 0
         /\ \A x \in Sockets : Len(k.tx[x]) \in Nat
         /\ \A x \in Sockets : Queued(Bind(k, x)) = Queued(k)
<1>1. \A x \in Sockets : k.tx[x] \in Seq(Fresh(g))
  BY DEF Good, Opened
<1>2. \A x \in Sockets : Len(k.tx[x]) \in Nat
  BY <1>1, LenProperties
<1>3. 1 \in Sockets /\ 2 \in Sockets
  BY DEF Sockets
<1>4. Closed.tx[1] = <<>> /\ Closed.tx[2] = <<>> /\ Len(<<>>) = 0
  BY <1>3 DEF Closed
<1>5. \A x \in Sockets : Bind(k, x).tx = k.tx
  BY BindGood
<1>6. Queued(k) \in Nat
  <2> DEFINE a == Len(k.tx[1])
             b == Len(k.tx[2])
  <2>1. a \in Nat /\ b \in Nat /\ Queued(k) = a + b
    BY <1>2, <1>3 DEF Queued
  <2> HIDE DEF a, b
  <2> QED
    BY <2>1
<1>7. Queued(Closed) = 0
  BY <1>4 DEF Queued
<1>8. \A x \in Sockets : Queued(Bind(k, x)) = Queued(k)
  BY <1>5 DEF Queued
<1> QED
  BY <1>2, <1>6, <1>7, <1>8

LEMMA SlotsInitially == Init => SInv
<1> SUFFICES ASSUME Init PROVE SInv
  OBVIOUS
<1>1. ~Active(service) /\ clock = 0 /\ delivered = 0 /\ MaxTime \in Nat
  BY FirmwareAssumption DEF Init, NewService, Active, Times
<1> QED
  BY <1>1 DEF SInv, Balanced, Account, Offered

\* A step that leaves the run inactive, or where it was, keeps the number of samples delivered.
LEMMA Counted ==
  ASSUME delivered' = Count(delivered), delivered \in Nat
  PROVE  /\ delivered' \in Nat
         /\ (Active(service) /\ Active(service') /\ service'.epoch = service.epoch)
              => delivered' = delivered
BY DEF Count, Generation

LEMMA PublicationsBalance ==
  ASSUME NEW g, NEW k, NEW s, Publications(g, k, s), Account(s, k, g, delivered', 0)
  PROVE  Balanced'
<1>1. service' = s /\ sockets' = Synchronised(g, k, s) /\ generation' = Generation(s)
      /\ stage' = "publish"
  BY DEF Publications
<1>2. Account(s, Synchronised(g, k, s), Generation(s), delivered', 0)
  BY SynchronisedAccount
<1> QED
  BY <1>1, <1>2 DEF Balanced, Offered, InHand

LEMMA NextStreamBalances ==
  ASSUME NEW k, NEW s, NextStream(k, s), Account(s, k, generation, delivered', 0)
  PROVE  Balanced'
<1>1. service' = s
  BY DEF NextStream
<1>2. CASE stage' = "publish" /\ sockets' = k /\ UNCHANGED generation
  BY <1>1, <1>2 DEF Balanced, Offered, InHand
<1>3. CASE Finish(k, s)
  <2>1. Account(s, Synchronised(generation, k, s), Generation(s), delivered', 0)
    BY SynchronisedAccount
  <2> QED
    BY <1>1, <1>3, <2>1 DEF Finish, Balanced, Offered, InHand
<1> QED
  BY <1>2, <1>3 DEF NextStream

LEMMA InactiveBalances == ASSUME ~Active(service') PROVE Balanced'
BY DEF Balanced, Account, Offered

LEMMA WakeBalances == ASSUME IInv, SInv, Wake PROVE Balanced'
<1> DEFINE t == Tick(service, clock)
           s == Woken(t)
           k == Reset(s)
           opened == [k EXCEPT !.open = [x \in Sockets |-> TRUE]]
<1>1. /\ stage = "asleep" /\ generation' = Generation(s) /\ delivered' = Count(delivered)
      /\ \/ service' = s /\ sockets' = k /\ stage' = "asleep"
         \/ service' = s /\ sockets' = opened /\ stage' = "receive"
         \/ service' = End(s) /\ sockets' = Closed /\ stage' = "halted"
  BY DEF Wake
<1>2. Sound(t) /\ Account(t, sockets, generation, delivered, 0) /\ Good(sockets, generation)
      /\ (Active(t) => Active(service) /\ t.epoch = service.epoch)
  <2>1. Account(service, sockets, generation, delivered, 0)
    BY <1>1 DEF SInv, Balanced, InHand
  <2> QED
    BY <2>1, TickSound, TickKeepsAccount, TickSchedules DEF IInv, Times, RunOf
<1> HIDE DEF t
<1>3. Sound(s) /\ (Active(s) => s = t /\ k = Synchronised(generation, sockets, s))
  BY <1>2, Ended DEF Woken, Reset
<1>4. Active(s) => Account(s, k, Generation(s), delivered, 0)
  BY <1>2, <1>3, SynchronisedAccount
<1>5. Good(k, Generation(s))
  BY ClosedGood, SynchronisedGood DEF Reset, IInv
<1>6. opened.tx = k.tx
  BY <1>5 DEF Good, Opened
<1> HIDE DEF s, k, opened
<1>7. Queued(opened) = Queued(k)
  BY <1>6 DEF Queued
<1>8. CASE Active(service')
  <2>1. service' = s /\ sockets' \in {k, opened} /\ stage' # "offer" /\ Active(s)
    BY <1>1, <1>3, <1>8, Ended
  <2>2. Account(s, sockets', Generation(s), delivered, 0)
    BY <1>4, <1>7, <2>1, AccountKept
  <2>3. delivered' = delivered
    BY <1>1, <1>2, <1>3, <1>8, <2>1, Counted DEF SInv, Balanced
  <2> QED
    BY <1>1, <2>1, <2>2, <2>3 DEF Balanced, Offered, InHand
<1> QED
  BY <1>8, InactiveBalances

LEMMA ReceiveNothingBalances == ASSUME IInv, SInv, ReceiveNothing PROVE Balanced'
<1>1. /\ stage = "receive" /\ Publications(generation, sockets, service)
      /\ delivered' = Count(delivered) /\ service' = service
  BY DEF ReceiveNothing, Publications
<1>2. Account(service, sockets, generation, delivered', 0)
  BY <1>1, Counted DEF SInv, Balanced, InHand, Account
<1> QED
  BY <1>1, <1>2, PublicationsBalance

LEMMA ReceiveFaultBalances == ASSUME IInv, SInv, ReceiveFault PROVE Balanced'
<1> DEFINE d == Head(sockets.rx).datagram
           k == [sockets EXCEPT !.rx = Tail(@)]
           s == Reject(service, d.fault = "crc" /\ d.local = config)
<1>1. /\ stage = "receive" /\ sockets.rx # <<>> /\ Publications(generation, k, s)
      /\ delivered' = Count(delivered) /\ service' = s
  BY DEF ReceiveFault, Publications
<1>2. Untouched(service, s)
  BY RejectUntouched DEF IInv, Sound
<1>3. k.tx = sockets.tx
  BY DEF IInv, Good, Opened
<1> HIDE DEF s, k
<1>4. Queued(k) = Queued(sockets)
  BY <1>3 DEF Queued
<1>5. Account(s, k, generation, delivered, 0)
  BY <1>1, <1>2, <1>4, AccountKept DEF SInv, Balanced, InHand, Untouched, Active
<1>6. Account(s, k, generation, delivered', 0)
  BY <1>1, <1>2, <1>5, Counted DEF SInv, Balanced, Account, Untouched, Active
<1> QED
  BY <1>1, <1>6, PublicationsBalance

\* A request leaves the run and its account alone, ends it, or starts one: its generation is
\* another then, so that the sockets are closed and nothing is delivered yet.
LEMMA HandleAccount ==
  ASSUME NEW s, Sound(s), NEW m, WellFormed(m), NEW now \in Nat,
         NEW k, NEW g, g = Generation(s), Good(k, g), NEW n, Account(s, k, g, n, 0)
  PROVE  LET u == Handle(s, m, now).service IN
         \/ Account(u, k, g, n, 0) /\ (Active(u) => Active(s) /\ u.epoch = s.epoch)
         \/ Generation(u) # g /\ Account(u, Closed, Generation(u), 0, 0)
<1> DEFINE u == Handle(s, m, now).service
<1>1. CASE ~Active(u)
  BY <1>1 DEF Account
<1>2. CASE Active(u)
  <2>1. \/ /\ Active(s) /\ u.schedules = s.schedules /\ u.epoch = s.epoch
           /\ u.counters.skipped = s.counters.skipped
        \/ /\ ~Active(s) \/ u.epoch # s.epoch
           /\ m.config \in Configuration /\ u.schedules = FirstSlots(m.config, now)
           /\ u.counters.skipped = 0
    BY <1>2, HandleSchedules DEF Times
  <2> HIDE DEF u
  <2>2. CASE /\ Active(s) /\ u.schedules = s.schedules /\ u.epoch = s.epoch
             /\ u.counters.skipped = s.counters.skipped
    <3>1. Account(u, k, g, n, 0)
      BY <2>2, AccountKept
    <3> QED
      BY <2>2, <3>1 DEF u
  <2>3. CASE /\ ~Active(s) \/ u.epoch # s.epoch
             /\ m.config \in Configuration /\ u.schedules = FirstSlots(m.config, now)
             /\ u.counters.skipped = 0
    <3>1. Generation(u) # g
      BY <1>2, <2>3 DEF Generation, u
    <3>2. /\ \A i \in Streams : u.schedules[i] = [due |-> now + m.config.period[i],
                                                  period |-> m.config.period[i], sequence |-> 0]
          /\ \A i \in Streams : m.config.period[i] \in Nat
      BY <2>3 DEF FirstSlots, Configuration
    <3>3. Ahead(u)
      <4> SUFFICES ASSUME NEW i \in Streams
                   PROVE  (u.schedules[i].sequence + 1) * u.schedules[i].period
                             <= u.schedules[i].due
        BY DEF Ahead
      <4> DEFINE d == m.config.period[i]
      <4>1. d \in Nat /\ u.schedules[i] = [due |-> now + d, period |-> d, sequence |-> 0]
        BY <3>2
      <4> HIDE DEF d
      <4>2. /\ u.schedules[i].sequence = 0 /\ u.schedules[i].period = d
            /\ u.schedules[i].due = now + d
        BY <4>1
      <4>3. (0 + 1) * d <= now + d
        BY <4>1
      <4> QED
        BY <4>2, <4>3
    <3>4. Slots(u) = 0
      BY <3>2 DEF Slots, Streams
    <3>5. Queued(Closed) = 0
      BY QueuedTypes
    <3>6. Account(u, Closed, Generation(u), 0, 0)
      BY <2>3, <3>3, <3>4, <3>5 DEF Account
    <3> QED
      BY <3>1, <3>6 DEF u
  <2> QED
    BY <2>1, <2>2, <2>3
<1> QED
  BY <1>1, <1>2

LEMMA ReceiveRequestBalances == ASSUME IInv, SInv, ReceiveRequest PROVE Balanced'
<1> DEFINE d == Head(sockets.rx).datagram
           rest == [sockets EXCEPT !.rx = Tail(@)]
           h == Handle(service, d.request, clock)
           u == h.service
           k == Synchronised(generation, rest, u)
           g == Generation(u)
<1>1. /\ stage = "receive" /\ sockets.rx # <<>> /\ delivered' = Count(delivered)
      /\ \/ Publications(g, Bind(k, 0), u)
         \/ /\ service' = u /\ generation' = g /\ sockets' = Bind(k, 0) /\ stage' = "reply"
         \/ service' = End(u)
  BY DEF ReceiveRequest, Publications
<1>2. d \in Datagrams /\ Good(rest, generation) /\ rest.tx = sockets.tx
  <2>1. rest.tx = sockets.tx
    BY DEF IInv, Good, Opened
  <2> QED
    BY <1>1, <2>1, ReceiveGood DEF IInv
<1>3. d.request \in Asked
  BY <1>2, FirmwareAssumption DEF Asked
<1> HIDE DEF d
<1>4. Sound(u) /\ WellFormed(d.request)
  BY <1>3, HandleReplies, AskedTypes DEF IInv
<1>5. generation = Generation(service)
  BY <1>1 DEF IInv, StageStands
<1>6. Account(service, rest, generation, delivered, 0)
  <2> HIDE DEF rest
  <2>1. Queued(rest) = Queued(sockets)
    BY <1>2 DEF Queued
  <2>2. Account(service, sockets, generation, delivered, 0)
    BY <1>1 DEF SInv, Balanced, InHand
  <2> QED
    BY <2>1, <2>2, AccountKept
<1> HIDE DEF rest
<1>7. \/ Account(u, rest, generation, delivered, 0)
           /\ (Active(u) => Active(service) /\ u.epoch = service.epoch)
      \/ g # generation /\ Account(u, Closed, g, 0, 0)
  BY <1>2, <1>4, <1>5, <1>6, HandleAccount DEF IInv
<1> HIDE DEF h
<1>8. CASE Active(service')
  <2>1. service' = u /\ Active(u)
    BY <1>1, <1>4, <1>8, Ended DEF Publications
  <2>2. Account(u, k, g, delivered', 0) /\ Good(k, g)
    <3>1. Good(k, g)
      BY <1>2, SynchronisedGood
    <3>2. CASE g # generation /\ Account(u, Closed, g, 0, 0)
      <4>1. delivered' = 0 /\ k = Closed
        BY <1>1, <1>5, <2>1, <3>2 DEF Count, Synchronised
      <4> QED
        BY <3>1, <3>2, <4>1
    <3>3. CASE /\ Account(u, rest, generation, delivered, 0)
               /\ Active(service) /\ u.epoch = service.epoch
      <4>1. delivered' = delivered
        BY <1>1, <1>8, <2>1, <3>3, Counted DEF SInv
      <4> QED
        BY <3>1, <3>3, <4>1, SynchronisedAccount
    <3> QED
      BY <1>7, <2>1, <3>2, <3>3
  <2> HIDE DEF k
  <2>3. Account(u, Bind(k, 0), g, delivered', 0)
    BY <2>2, Capacities, QueuedTypes, AccountKept
  <2>4. CASE Publications(g, Bind(k, 0), u)
    BY <2>3, <2>4, PublicationsBalance
  <2>5. CASE service' = u /\ generation' = g /\ sockets' = Bind(k, 0) /\ stage' = "reply"
    BY <2>3, <2>5 DEF Balanced, Offered, InHand
  <2>6. CASE service' = End(u)
    BY <1>4, <1>8, <2>6, Ended
  <2> QED
    BY <1>1, <2>4, <2>5, <2>6 DEF k
<1> QED
  BY <1>8, InactiveBalances

\* The steps of the loop after a request was handled keep the run or end it.
LEMMA KeptAccount ==
  ASSUME NEW s, NEW k, NEW g, NEW n, NEW h, Account(s, k, g, n, h), Sound(s),
         NEW c \in CounterState, c.skipped = s.counters.skipped, NEW l, Queued(l) = Queued(k)
  PROVE  Account([s EXCEPT !.counters = c], l, g, n, h)
<1> DEFINE t == [s EXCEPT !.counters = c]
<1>1. t.lease = s.lease /\ t.epoch = s.epoch /\ t.schedules = s.schedules /\ t.counters = c
  BY DEF Sound, ServiceState
<1> HIDE DEF t
<1>2. Account(t, l, g, n, h)
  BY <1>1, AccountKept DEF Active
<1> QED
  BY <1>2 DEF t

LEMMA SentCounts ==
  ASSUME NEW c \in CounterState, NEW x \in Sockets, NEW success \in BOOLEAN
  PROVE  Sent(c, x, success) \in CounterState /\ Sent(c, x, success).skipped = c.skipped
BY SentTypes DEF Sent, CounterState

LEMMA ReplyBalances == ASSUME IInv, SInv, Reply PROVE Balanced'
<1> DEFINE s == Tick(service, clock)
           ok == Sent(s.counters, 0, TRUE)
           ko == Sent(s.counters, 0, FALSE)
           k == Send(sockets, 0, message)
<1>1. /\ stage = "reply" /\ delivered' = Count(delivered)
      /\ \/ Publications(generation, sockets, s)
         \/ /\ MaySend(sockets, 0)
            /\ Publications(generation, k, [s EXCEPT !.counters = ok])
         \/ Publications(generation, sockets, [s EXCEPT !.counters = ko])
  <2>1. s \in ServiceState
    BY TickKeepsRun DEF IInv, KeepsRun, Sound
  <2>2. /\ [s EXCEPT !.counters = Sent(@, 0, TRUE)] = [s EXCEPT !.counters = ok]
        /\ [s EXCEPT !.counters = Sent(@, 0, FALSE)] = [s EXCEPT !.counters = ko]
    BY <2>1 DEF ServiceState
  <2> QED
    BY <2>2 DEF Reply, Publications
<1>2. /\ Sound(s) /\ Account(s, sockets, generation, delivered, 0)
      /\ (Active(s) => Active(service) /\ s.epoch = service.epoch)
  <2>1. Account(service, sockets, generation, delivered, 0)
    BY <1>1 DEF SInv, Balanced, InHand
  <2> QED
    BY <2>1, TickSound, TickKeepsAccount, TickSchedules DEF IInv, Times, RunOf
<1>3. k.tx[1] = sockets.tx[1] /\ k.tx[2] = sockets.tx[2]
  BY DEF IInv, Good, Opened, Send, Sockets
<1>4. /\ ok \in CounterState /\ ok.skipped = s.counters.skipped
      /\ ko \in CounterState /\ ko.skipped = s.counters.skipped
  BY <1>2, Capacities, SentCounts DEF Sound, ServiceState
<1> HIDE DEF s, ok, ko, k
<1>5. Queued(k) = Queued(sockets)
  BY <1>3 DEF Queued
<1>6. CASE Active(service')
  <2>1. service' \in {s, [s EXCEPT !.counters = ok], [s EXCEPT !.counters = ko]}
    BY <1>1 DEF Publications
  <2>2. Active(s) /\ service'.epoch = s.epoch
    BY <1>2, <1>6, <2>1 DEF Active, Sound, ServiceState
  <2>3. delivered' = delivered
    BY <1>1, <1>2, <1>6, <2>2, Counted DEF SInv
  <2>4. /\ Account([s EXCEPT !.counters = ok], k, generation, delivered, 0)
        /\ Account([s EXCEPT !.counters = ko], sockets, generation, delivered, 0)
    BY <1>2, <1>4, <1>5, KeptAccount
  <2> QED
    BY <1>1, <1>2, <2>3, <2>4, PublicationsBalance
<1> QED
  BY <1>6, InactiveBalances

\* A packet that moves on, or is given up and counted as skipped, leaves the account in balance.
LEMMA MovedAccount ==
  ASSUME NEW s, Sound(s), NEW k, Queued(k) \in Nat, NEW l, Queued(l) \in Nat, NEW g,
         NEW n \in Nat, NEW h \in Nat, NEW j \in Nat, Account(s, k, g, n, h),
         NEW c \in CounterState,
         c.skipped < CounterMax =>
           /\ s.counters.skipped < CounterMax
           /\ c.skipped + Queued(l) + j = s.counters.skipped + Queued(k) + h
  PROVE  Account([s EXCEPT !.counters = c], l, g, n, j)
<1> DEFINE t == [s EXCEPT !.counters = c]
<1>1. /\ t.lease = s.lease /\ t.epoch = s.epoch /\ t.schedules = s.schedules /\ t.counters = c
      /\ s.counters \in CounterState
  BY DEF Sound, ServiceState
<1> HIDE DEF t
<1>2. /\ Generation(t) = Generation(s) /\ (Active(t) => Active(s)) /\ (Ahead(s) => Ahead(t))
      /\ Slots(t) = Slots(s)
  BY <1>1 DEF Generation, Active, Ahead, Slots
<1>3. c.skipped \in Nat /\ s.counters.skipped \in Nat
  BY <1>1, CounterAssumption DEF CounterState, CounterRange
<1>4. ASSUME Active(t), c.skipped < CounterMax
      PROVE  Slots(t) = n + Queued(l) + j + c.skipped
  <2>1. Slots(s) = n + Queued(k) + h + s.counters.skipped
    BY <1>2, <1>4 DEF Account
  <2> QED
    BY <1>2, <1>3, <1>4, <2>1
<1>5. Account(t, l, g, n, j)
  BY <1>1, <1>2, <1>4 DEF Account
<1> QED
  BY <1>5 DEF t

LEMMA BindFailedBalances ==
  ASSUME NEW k, NEW s, Sound(s), BindFailed(k, s)
  PROVE  Balanced'
BY Ended, InactiveBalances DEF BindFailed

\* The packet that gives way to a newer one was the only one in its queue.
LEMMA CloseQueued ==
  ASSUME SinglePlaces, NEW g, NEW k, Good(k, g), NEW x \in {1, 2}, k.tx[x] # <<>>
  PROVE  Queued(Bind(Close(k, x), x)) = Queued(k) - 1
<1> DEFINE c == Close(k, x)
           b == Bind(c, x)
<1>1. x \in Sockets /\ 1 \in Sockets /\ 2 \in Sockets
  BY DEF Sockets
<1>2. k.tx[x] \in Seq(Fresh(g)) /\ Len(k.tx[x]) <= 1
  BY <1>1 DEF Good, Opened, Within, SinglePlaces
<1>3. Len(k.tx[x]) = 1
  <2> DEFINE m == Len(k.tx[x])
  <2>1. m \in Nat \ {0} /\ m <= 1
    BY <1>2, EmptySeq
  <2> HIDE DEF m
  <2>2. m = 1
    BY <2>1
  <2> QED
    BY <2>2 DEF m
<1>4. Good(c, g) /\ b.tx = c.tx
  BY <1>1, CloseGood, BindGood
<1>5. c.tx[x] = <<>> /\ \A y \in Sockets \ {x} : c.tx[y] = k.tx[y]
  BY <1>1 DEF Close, Good, Opened
<1>6. Len(<<>>) = 0 /\ Len(k.tx[1]) \in Nat /\ Len(k.tx[2]) \in Nat
  BY <1>1, QueuedTypes, EmptySeq
<1> HIDE DEF c, b
<1>7. CASE x = 1
  <2>1. b.tx[1] = <<>> /\ b.tx[2] = k.tx[2]
    BY <1>1, <1>4, <1>5, <1>7
  <2> DEFINE m == Len(k.tx[2])
  <2>2. m \in Nat /\ Len(b.tx[1]) = 0 /\ Len(b.tx[2]) = m /\ Len(k.tx[1]) = 1
    BY <1>3, <1>6, <1>7, <2>1
  <2> HIDE DEF m
  <2>3. Queued(b) = 0 + m /\ Queued(k) = 1 + m
    BY <2>2 DEF Queued, m
  <2>4. Queued(b) = Queued(k) - 1
    BY <2>2, <2>3
  <2> QED
    BY <1>7, <2>4 DEF b, c
<1>8. CASE x = 2
  <2>1. b.tx[2] = <<>> /\ b.tx[1] = k.tx[1]
    BY <1>1, <1>4, <1>5, <1>8
  <2> DEFINE m == Len(k.tx[1])
  <2>2. m \in Nat /\ Len(b.tx[2]) = 0 /\ Len(b.tx[1]) = m /\ Len(k.tx[2]) = 1
    BY <1>3, <1>6, <1>8, <2>1
  <2> HIDE DEF m
  <2>3. Queued(b) = m + 0 /\ Queued(k) = m + 1
    BY <2>2 DEF Queued, m
  <2>4. Queued(b) = Queued(k) - 1
    BY <2>2, <2>3
  <2> QED
    BY <1>8, <2>4 DEF b, c
<1> QED
  BY <1>7, <1>8

LEMMA SampleBalances ==
  ASSUME SinglePlaces, Unwrapped, IInv, SInv, Sample
  PROVE  Balanced'
<1> DEFINE x == SocketOf(stream)
           p == Publish(service, stream, clock)
           k == Bind(sockets, x)
           l == Bind(Close(k, x), x)
           s == p.service
           r == Replaced(s)
<1>1. /\ stage = "publish" /\ delivered' = Count(delivered)
      /\ \/ BindFailed(sockets, service)
         \/ p.reply = None /\ NextStream(k, s)
         \/ /\ p.reply # None /\ k.tx[x] = <<>> /\ service' = s /\ sockets' = k
            /\ message' = p.reply /\ stage' = "offer" /\ UNCHANGED <<generation, stream>>
         \/ /\ p.reply # None /\ k.tx[x] # <<>> /\ service' = r /\ sockets' = l
            /\ message' = p.reply /\ stage' = "offer" /\ UNCHANGED <<generation, stream>>
         \/ BindFailed(Close(k, x), r)
  BY DEF Sample
<1>2. /\ Sound(service) /\ Good(sockets, generation) /\ stream \in Streams /\ x \in {1, 2}
      /\ x \in Sockets /\ clock \in Nat /\ clock <= MaxTime /\ delivered \in Nat
      /\ Account(service, sockets, generation, delivered, 0)
  BY <1>1 DEF IInv, SInv, Balanced, InHand, SocketOf, Streams, Sockets
<1>3. Sound(s) /\ (Active(s) => Active(service) /\ s.epoch = service.epoch)
  BY <1>2, PublishKeepsRun DEF KeepsRun, RunOf, Active
<1>4. Good(k, generation) /\ Queued(k) = Queued(sockets) /\ Queued(sockets) \in Nat
  BY <1>2, BindGood, QueuedTypes
<1>5. /\ p.reply = None => Account(s, sockets, generation, delivered, 0)
      /\ p.reply # None => /\ Account(s, sockets, generation, delivered, 1)
                           /\ Active(s) /\ p.reply.epoch = s.epoch
  BY <1>2, <1>4, PublishAccount
<1> HIDE DEF p
<1>6. Sound(r) /\ RunOf(r) = RunOf(s)
  BY <1>3, Capacities, Accounting DEF Accounts
<1>7. Good(l, generation) /\ l.tx[x] = <<>>
  BY <1>2, <1>4, CloseGood, BindGood
<1> HIDE DEF x, k, l, s
<1>8. CASE Active(service')
  <2>1. CASE p.reply = None /\ NextStream(k, s)
    <3>1. delivered' = delivered
      BY <1>1, <1>2, <1>3, <1>8, <2>1, Counted DEF NextStream
    <3>2. Account(s, k, generation, delivered', 0)
      BY <1>4, <1>5, <2>1, <3>1, AccountKept
    <3> QED
      BY <2>1, <3>2, NextStreamBalances
  <2>2. CASE /\ p.reply # None /\ k.tx[x] = <<>> /\ service' = s /\ sockets' = k
             /\ message' = p.reply /\ stage' = "offer" /\ UNCHANGED <<generation, stream>>
    <3>1. delivered' = delivered
      BY <1>1, <1>2, <1>3, <1>8, <2>2, Counted
    <3>2. Account(s, k, generation, delivered', 1)
      BY <1>4, <1>5, <2>2, <3>1, AccountKept
    <3>3. Offered'
      BY <1>5, <2>2 DEF Offered, x
    <3> QED
      BY <2>2, <3>2, <3>3 DEF Balanced, InHand
  <2>3. CASE /\ p.reply # None /\ k.tx[x] # <<>> /\ service' = r /\ sockets' = l
             /\ message' = p.reply /\ stage' = "offer" /\ UNCHANGED <<generation, stream>>
    <3> DEFINE c == Skip(s.counters, 1)
    <3>1. r.epoch = s.epoch /\ (Active(r) => Active(s))
      BY <1>6 DEF RunOf, Active
    <3>2. delivered' = delivered
      BY <1>1, <1>2, <1>3, <1>8, <2>3, <3>1, Counted
    <3>3. Queued(l) = Queued(k) - 1 /\ Queued(l) \in Nat
      BY <1>2, <1>4, <1>7, <2>3, CloseQueued, QueuedTypes DEF l
    <3>4. s.counters \in CounterState /\ c \in CounterState
      BY <1>3, CounterTypes DEF Sound, ServiceState
    <3>5. c.skipped < CounterMax =>
            s.counters.skipped < CounterMax /\ c.skipped = s.counters.skipped + 1
      BY <3>4, SkipCounts
    <3>6. r = [s EXCEPT !.counters = c]
      BY <1>3 DEF Replaced, Sound, ServiceState
    <3>7. s.counters.skipped \in Nat /\ c.skipped \in Nat
      BY <3>4, CounterAssumption DEF CounterState, CounterRange
    <3> HIDE DEF c
    <3>8. Account(s, sockets, generation, delivered, 1)
      BY <1>5, <2>3
    <3>9. c.skipped < CounterMax =>
            /\ s.counters.skipped < CounterMax
            /\ c.skipped + Queued(l) + 1 = s.counters.skipped + Queued(sockets) + 1
      BY <1>4, <3>3, <3>5, <3>7
    <3>10. Account(r, l, generation, delivered, 1)
      <4> HIDE DEF r
      <4>1. Account([s EXCEPT !.counters = c], l, generation, delivered, 1)
        BY <1>2, <1>3, <1>4, <3>3, <3>4, <3>8, <3>9, MovedAccount
      <4> QED
        BY <3>6, <4>1
    <3>11. Offered'
      BY <1>5, <1>7, <2>3, <3>1 DEF Offered, x
    <3> QED
      BY <2>3, <3>2, <3>10, <3>11 DEF Balanced, InHand
  <2> QED
    BY <1>1, <1>2, <1>6, <2>1, <2>2, <2>3, BindFailedBalances
<1> QED
  BY <1>8, InactiveBalances

LEMMA OfferBalances == ASSUME IInv, SInv, Offer PROVE Balanced'
<1> DEFINE x == SocketOf(stream)
           s == Tick(service, clock)
           ok == Sent(s.counters, x, TRUE)
           ko == Skip(Sent(s.counters, x, FALSE), 1)
           k == Send(sockets, x, message)
<1>1. /\ stage = "offer" /\ delivered' = Count(delivered)
      /\ \/ (~Active(s) \/ message.epoch # s.epoch) /\ NextStream(sockets, s)
         \/ /\ Active(s) /\ message.epoch = s.epoch /\ MaySend(sockets, x)
            /\ NextStream(k, [s EXCEPT !.counters = ok])
         \/ NextStream(sockets, [s EXCEPT !.counters = ko])
  <2>1. s \in ServiceState
    BY TickKeepsRun DEF IInv, KeepsRun, Sound
  <2>2. /\ [s EXCEPT !.counters = Sent(@, x, TRUE)] = [s EXCEPT !.counters = ok]
        /\ [s EXCEPT !.counters = Skip(Sent(@, x, FALSE), 1)] = [s EXCEPT !.counters = ko]
    BY <2>1 DEF ServiceState
  <2> HIDE DEF s, x, ok, ko, k
  <2> QED
    BY <2>2 DEF Offer, s, x, k
<1>2. /\ Sound(s) /\ Account(s, sockets, generation, delivered, 1)
      /\ (Active(s) => Active(service) /\ s.epoch = service.epoch)
  <2>1. Account(service, sockets, generation, delivered, 1)
    BY <1>1 DEF SInv, Balanced, InHand
  <2> QED
    BY <2>1, TickSound, TickKeepsAccount, TickSchedules DEF IInv, Times, RunOf
<1>3. /\ x \in {1, 2} /\ x \in Sockets /\ delivered \in Nat /\ Good(sockets, generation)
      /\ Queued(sockets) \in Nat
  BY QueuedTypes DEF IInv, SInv, SocketOf, Streams, Sockets
<1> HIDE DEF x, s
<1>4. Active(s) => sockets.tx[x] = <<>> /\ message.epoch = s.epoch
  BY <1>1, <1>2 DEF SInv, Balanced, Offered, x
<1>5. Active(s) => Queued(k) = Queued(sockets) + 1
  <2> SUFFICES ASSUME Active(s) PROVE Queued(k) = Queued(sockets) + 1
    OBVIOUS
  <2>1. k.tx[x] = Append(<<>>, message) /\ \A y \in Sockets \ {x} : k.tx[y] = sockets.tx[y]
    BY <1>3, <1>4 DEF Good, Opened, Send
  <2>2. Len(Append(<<>>, message)) = 1 /\ Len(<<>>) = 0
    OBVIOUS
  <2>3. Len(sockets.tx[1]) \in Nat /\ Len(sockets.tx[2]) \in Nat /\ 1 \in Sockets /\ 2 \in Sockets
    BY <1>3, QueuedTypes DEF Sockets
  <2> HIDE DEF k
  <2>4. Len(k.tx[x]) = 1 /\ Len(sockets.tx[x]) = 0
    BY <1>4, <2>1, <2>2
  <2>5. CASE x = 1
    <3> DEFINE m == Len(sockets.tx[2])
    <3>1. m \in Nat /\ Len(k.tx[2]) = m
      BY <2>1, <2>3, <2>5
    <3>2. Len(k.tx[1]) = 1 /\ Len(sockets.tx[1]) = 0
      BY <2>4, <2>5
    <3> HIDE DEF m
    <3>3. Queued(k) = 1 + m /\ Queued(sockets) = 0 + m
      BY <3>1, <3>2 DEF Queued, m
    <3> QED
      BY <3>1, <3>3
  <2>6. CASE x = 2
    <3> DEFINE m == Len(sockets.tx[1])
    <3>1. m \in Nat /\ Len(k.tx[1]) = m
      BY <2>1, <2>3, <2>6
    <3>2. Len(k.tx[2]) = 1 /\ Len(sockets.tx[2]) = 0
      BY <2>4, <2>6
    <3> HIDE DEF m
    <3>3. Queued(k) = m + 1 /\ Queued(sockets) = m + 0
      BY <3>1, <3>2 DEF Queued, m
    <3> QED
      BY <3>1, <3>3
  <2> QED
    BY <1>3, <2>5, <2>6
<1>6. /\ s.counters \in CounterState /\ ok \in CounterState /\ ko \in CounterState
      /\ ok.skipped = s.counters.skipped
      /\ ko.skipped < CounterMax =>
           s.counters.skipped < CounterMax /\ ko.skipped = s.counters.skipped + 1
  <2>1. s.counters \in CounterState
    BY <1>2 DEF Sound, ServiceState
  <2> DEFINE c == Sent(s.counters, x, FALSE)
  <2>2. /\ ok \in CounterState /\ ok.skipped = s.counters.skipped
        /\ c \in CounterState /\ c.skipped = s.counters.skipped
    BY <1>3, <2>1, SentCounts
  <2>3. ko = Skip(c, 1) /\ 1 \in Nat
    OBVIOUS
  <2> HIDE DEF c, ok, ko
  <2>4. ko \in CounterState
    BY <2>2, <2>3, CounterTypes
  <2>5. ko.skipped < CounterMax => c.skipped < CounterMax /\ ko.skipped = c.skipped + 1
    BY <2>2, <2>3, SkipCounts
  <2> QED
    BY <2>1, <2>2, <2>4, <2>5
<1> HIDE DEF ok, ko
<1>7. ok.skipped \in Nat /\ ko.skipped \in Nat /\ s.counters.skipped \in Nat
  BY <1>6, CounterAssumption DEF CounterState, CounterRange
<1> DEFINE sent == [s EXCEPT !.counters = ok]
           failed == [s EXCEPT !.counters = ko]
<1>8. /\ sent.lease = s.lease /\ sent.epoch = s.epoch
      /\ failed.lease = s.lease /\ failed.epoch = s.epoch
  BY <1>2 DEF Sound, ServiceState
<1> HIDE DEF ok, ko, k
<1>9. Account(failed, sockets, generation, delivered, 0)
  <2>1. ko.skipped < CounterMax =>
          /\ s.counters.skipped < CounterMax
          /\ ko.skipped + Queued(sockets) + 0 = s.counters.skipped + Queued(sockets) + 1
    BY <1>3, <1>6, <1>7
  <2> QED
    BY <1>2, <1>3, <1>6, <2>1, MovedAccount
<1>10. Active(s) => Account(sent, k, generation, delivered, 0)
  <2> SUFFICES ASSUME Active(s) PROVE Account(sent, k, generation, delivered, 0)
    OBVIOUS
  <2>1. Queued(k) \in Nat /\ Queued(k) = Queued(sockets) + 1
    BY <1>3, <1>5
  <2>2. ok.skipped < CounterMax =>
          /\ s.counters.skipped < CounterMax
          /\ ok.skipped + Queued(k) + 0 = s.counters.skipped + Queued(sockets) + 1
    BY <1>3, <1>6, <1>7, <2>1
  <2> QED
    BY <1>2, <1>3, <1>6, <2>1, <2>2, MovedAccount
<1> HIDE DEF sent, failed
<1>11. CASE Active(service')
  <2>1. /\ service' \in {s, sent, failed}
        /\ \/ ~Active(s) /\ service' = s
           \/ Active(s) /\ NextStream(k, sent) /\ service' = sent
           \/ NextStream(sockets, failed) /\ service' = failed
    BY <1>1, <1>4 DEF NextStream, sent, failed
  <2>2. Active(s) /\ service'.epoch = s.epoch
    BY <1>8, <1>11, <2>1 DEF Active
  <2>3. delivered' = delivered
    BY <1>1, <1>2, <1>3, <1>11, <2>2, Counted
  <2> QED
    BY <1>9, <1>10, <2>1, <2>2, <2>3, NextStreamBalances
<1> QED
  BY <1>11, InactiveBalances

LEMMA TransmitBalances ==
  ASSUME IInv, SInv, NEW x \in Sockets, Transmit(x)
  PROVE  Balanced' /\ delivered' \in Nat
<1> DEFINE k == [sockets EXCEPT !.tx[x] = Tail(@)]
<1>1. /\ stage = "asleep" /\ sockets.tx[x] # <<>> /\ sockets' = k
      /\ delivered' = IF x = 0 THEN delivered ELSE delivered + 1
      /\ UNCHANGED <<service, generation, stage>>
  BY DEF Transmit
<1>2. /\ Good(sockets, generation) /\ delivered \in Nat
      /\ Account(service, sockets, generation, delivered, 0)
  BY <1>1 DEF IInv, SInv, Balanced, InHand
<1>3. delivered' \in Nat
  BY <1>1, <1>2
<1>4. k.tx[x] = Tail(sockets.tx[x]) /\ \A y \in Sockets \ {x} : k.tx[y] = sockets.tx[y]
  BY <1>2 DEF Good, Opened
<1>5. sockets.tx[x] \in Seq(Fresh(generation))
  BY <1>2 DEF Good, Opened
<1>6. Len(Tail(sockets.tx[x])) = Len(sockets.tx[x]) - 1
  <2> DEFINE q == sockets.tx[x]
  <2>1. q \in Seq(Fresh(generation)) /\ q # <<>>
    BY <1>1, <1>5
  <2> HIDE DEF q
  <2>2. Len(Tail(q)) = Len(q) - 1
    BY <2>1, HeadTailProperties
  <2> QED
    BY <2>2 DEF q
<1> HIDE DEF k
<1>7. Queued(k) + delivered' = Queued(sockets) + delivered
  <2> DEFINE m == Len(sockets.tx[1])
             n == Len(sockets.tx[2])
  <2>1. m \in Nat /\ n \in Nat /\ 1 \in Sockets /\ 2 \in Sockets
    BY <1>2, QueuedTypes DEF Sockets
  <2>2. CASE x = 0
    <3>1. k.tx[1] = sockets.tx[1] /\ k.tx[2] = sockets.tx[2]
      BY <1>4, <2>1, <2>2
    <3>2. Queued(k) = Queued(sockets)
      BY <3>1 DEF Queued
    <3> QED
      BY <1>1, <2>2, <3>2
  <2>3. CASE x = 1
    <3>1. Len(k.tx[2]) = n
      BY <1>4, <2>1, <2>3
    <3>2. Len(k.tx[1]) = m - 1
      BY <1>4, <1>6, <2>3
    <3> HIDE DEF m, n
    <3>3. Queued(k) = (m - 1) + n /\ Queued(sockets) = m + n
      BY <3>1, <3>2 DEF Queued, m, n
    <3> QED
      BY <1>1, <1>2, <2>1, <2>3, <3>3
  <2>4. CASE x = 2
    <3>1. Len(k.tx[1]) = m
      BY <1>4, <2>1, <2>4
    <3>2. Len(k.tx[2]) = n - 1
      BY <1>4, <1>6, <2>4
    <3> HIDE DEF m, n
    <3>3. Queued(k) = m + (n - 1) /\ Queued(sockets) = m + n
      BY <3>1, <3>2 DEF Queued, m, n
    <3> QED
      BY <1>1, <1>2, <2>1, <2>4, <3>3
  <2> QED
    BY <2>2, <2>3, <2>4 DEF Sockets
<1>8. Account(service, k, generation, delivered', 0)
  <2>1. Good(k, generation)
    BY <1>1, <1>2, TransmitGood DEF k
  <2>2. Queued(k) \in Nat /\ Queued(sockets) \in Nat
    BY <1>2, <2>1, QueuedTypes
  <2>3. service.counters.skipped \in Nat
    BY CounterAssumption DEF IInv, Sound, ServiceState, CounterState, CounterRange
  <2> QED
    BY <1>2, <1>3, <1>7, <2>2, <2>3 DEF Account
<1> QED
  BY <1>1, <1>3, <1>8 DEF Balanced, Offered, InHand

\* Nothing that the account speaks of changes.
LEMMA UnchangedBalances ==
  ASSUME SInv, UNCHANGED <<service, generation, stage, stream, message, delivered>>,
         sockets'.tx = sockets.tx
  PROVE  Balanced' /\ delivered' \in Nat
<1>1. Queued(sockets') = Queued(sockets)
  BY DEF Queued
<1>2. Account(service, sockets', generation, delivered, InHand)
  BY <1>1, AccountKept DEF SInv, Balanced
<1> QED
  BY <1>2 DEF SInv, Balanced, Offered, InHand

LEMMA SlotsStep ==
  ASSUME SinglePlaces, Unwrapped
  PROVE  IInv /\ SInv /\ [Next]_vars => SInv'
<1> SUFFICES ASSUME IInv, SInv, [Next]_vars PROVE SInv'
  OBVIOUS
<1>1. CASE Firmware
  <2>1. Balanced'
    BY <1>1, WakeBalances, ReceiveNothingBalances, ReceiveFaultBalances, ReceiveRequestBalances,
       ReplyBalances, SampleBalances, OfferBalances DEF Firmware
  <2>2. clock' = clock /\ delivered' = Count(delivered)
    BY <1>1 DEF Firmware, Wake, ReceiveNothing, ReceiveFault, ReceiveRequest, Reply, Sample,
                Offer, Publications
  <2> QED
    BY <2>1, <2>2, Counted DEF SInv
<1>2. CASE \E x \in Sockets : Transmit(x)
  BY <1>2, TransmitBalances DEF SInv, Transmit
<1>3. CASE \E d \in Datagrams : Arrive(d)
  <2>1. /\ UNCHANGED <<service, generation, stage, stream, message, delivered, clock>>
        /\ sockets'.tx = sockets.tx
    BY <1>3 DEF Arrive, IInv, Good, Opened
  <2> QED
    BY <2>1, UnchangedBalances DEF SInv
<1>4. CASE NetworkChange \/ UNCHANGED vars
  <2>1. UNCHANGED <<service, generation, stage, stream, message, delivered, clock, sockets>>
    BY <1>4 DEF NetworkChange, vars
  <2> QED
    BY <2>1, UnchangedBalances DEF SInv
<1>5. CASE Elapse
  <2>1. /\ UNCHANGED <<service, generation, stage, stream, message, delivered, sockets>>
        /\ clock' = clock + 1 /\ clock < MaxTime
    BY <1>5 DEF Elapse
  <2>2. clock' <= MaxTime
    BY <2>1, FirmwareAssumption DEF IInv, Times
  <2> QED
    BY <2>1, <2>2, UnchangedBalances DEF SInv
<1> QED
  BY <1>1, <1>2, <1>3, <1>4, <1>5 DEF Next, Network

\* Every slot of a run left the board, is queued, or was counted as skipped, however late the
\* loop is and whatever the network does: a slot is counted when its sample is replaced, cannot
\* be sent or was never taken, and a run that starts finds no sample of the one before.  This
\* holds for sockets that queue one sample, as the code has them, and up to the time at which a
\* stream could have used all sequence numbers.
THEOREM SlotsCorrect ==
  ASSUME SinglePlaces, Unwrapped
  PROVE  Spec => []SlotsAccounted
<1>1. Init => SInv
  BY SlotsInitially
<1>2. IInv /\ SInv /\ [Next]_vars => SInv'
  BY SlotsStep
<1>3. IInv /\ SInv => SlotsAccounted
  <2> SUFFICES ASSUME IInv, SInv, stage = "asleep", Active(service),
                      service.counters.skipped < CounterMax
               PROVE  service.schedules[0].sequence + service.schedules[1].sequence
                        = delivered + Len(sockets.tx[1]) + Len(sockets.tx[2])
                            + service.counters.skipped
    BY DEF SlotsAccounted
  <2> DEFINE m == Len(sockets.tx[1])
             n == Len(sockets.tx[2])
  <2>1. m \in Nat /\ n \in Nat /\ delivered \in Nat
    BY QueuedTypes DEF IInv, SInv, Sockets
  <2>2. service.counters.skipped \in Nat
    BY CounterAssumption DEF IInv, Sound, ServiceState, CounterState, CounterRange
  <2> DEFINE c == service.counters.skipped
  <2> HIDE DEF m, n, c
  <2>3. Slots(service) = delivered + (m + n) + 0 + c
    BY DEF SInv, Balanced, Account, InHand, Queued, m, n, c
  <2>4. delivered + (m + n) + 0 + c = delivered + m + n + c
    BY <2>1, <2>2 DEF c
  <2> QED
    BY <2>3, <2>4 DEF Slots, m, n, c
<1> QED
  BY <1>1, <1>2, <1>3, Invariance, PTL DEF Spec

-----------------------------------------------------------------------------
(* Refinement of BenchmarkBoard.                                             *)

\* The loop takes requests only while the board is on the network: it looks at the link
\* and the address when it wakes up, and both change only while it sleeps.
Reachable == stage = "receive" => ready

LEMMA StaysReachable == Reachable /\ [Next]_vars => Reachable'
BY DEF Reachable, Next, Firmware, Network, Wake, ReceiveNothing, ReceiveFault, ReceiveRequest,
       Reply, Sample, Offer, Arrive, Transmit, NetworkChange, Elapse, Publications, NextStream,
       Finish, BindFailed, ready, environment, vars

\* A call that leaves the run as it is or ends it.
KeepsOrEnds(s, t) == RunOf(t) = RunOf(s) \/ Ends(s, t)

LEMMA EndedRun ==
  ASSUME NEW s, Sound(s), NEW t, Sound(t), RunOf(s) = RunOf(t)
  PROVE  RunOf(End(s)) = RunOf(End(t)) /\ (Active(s) <=> Active(t))
BY DEF RunOf, End, Active, Sound, ServiceState

LEMMA EndsInactive ==
  ASSUME NEW s, Sound(s), NEW t, Sound(t), Ends(s, t)
  PROVE  ~Active(t)
BY Ended DEF Ends, RunOf, Active

LEMMA KeepsOrEndsTwice ==
  ASSUME NEW s, Sound(s), NEW t, Sound(t), NEW u, KeepsOrEnds(s, t), KeepsOrEnds(t, u)
  PROVE  KeepsOrEnds(s, u)
BY EndedRun, EndsInactive DEF KeepsOrEnds, Ends

LEMMA EndKeepsOrEnds ==
  ASSUME NEW s, Sound(s)
  PROVE  KeepsOrEnds(s, End(s))
BY Ended DEF KeepsOrEnds, Ends

LEMMA TickKeepsOrEnds ==
  ASSUME NEW s, Sound(s), NEW now \in Nat
  PROVE  Sound(Tick(s, now)) /\ KeepsOrEnds(s, Tick(s, now))
BY TickMoves DEF KeepsOrEnds, Times

LEMMA PublishKeepsOrEnds ==
  ASSUME NEW s, Sound(s), NEW i \in Streams, NEW now \in Nat
  PROVE  LET p == Publish(s, i, now) IN Sound(p.service) /\ KeepsOrEnds(s, p.service)
<1> DEFINE t == Tick(s, now)
           p == Publish(s, i, now)
<1>1. Sound(t) /\ KeepsOrEnds(s, t)
  BY TickKeepsOrEnds
<1>2. Sound(p.service) /\ RunOf(p.service) = RunOf(t)
  BY PublishKeepsRun DEF KeepsRun
<1> HIDE DEF t, p
<1>3. KeepsOrEnds(s, p.service)
  BY <1>1, <1>2, KeepsOrEndsTwice DEF KeepsOrEnds
<1> QED
  BY <1>2, <1>3 DEF p

\* Every step but the handling of a request keeps the run or ends it.
LEMMA LoopKeepsOrEnds ==
  ASSUME IInv, Firmware, ~ReceiveRequest
  PROVE  KeepsOrEnds(service, service')
<1> DEFINE t == Tick(service, clock)
           p == Publish(service, stream, clock).service
           x == SocketOf(stream)
<1>1. /\ Sound(service) /\ Sound(t) /\ KeepsOrEnds(service, t)
      /\ Sound(p) /\ KeepsOrEnds(service, p) /\ x \in Sockets /\ 0 \in Sockets
  BY TickKeepsOrEnds, PublishKeepsOrEnds, Capacities DEF IInv
<1>2. ASSUME NEW s, Sound(s), KeepsOrEnds(service, s)
      PROVE  Sound(End(s)) /\ KeepsOrEnds(service, End(s))
  BY <1>1, <1>2, Ended, EndKeepsOrEnds, KeepsOrEndsTwice
<1>3. ASSUME NEW s, Sound(s), KeepsOrEnds(service, s), NEW u, Accounts(s, u)
      PROVE  Sound(u) /\ KeepsOrEnds(service, u)
  <2>1. Sound(u) /\ KeepsOrEnds(s, u)
    BY <1>3 DEF Accounts, KeepsOrEnds
  <2> QED
    BY <1>1, <1>3, <2>1, KeepsOrEndsTwice
<1>4. CASE Wake
  <2> DEFINE w == Woken(t)
  <2>1. w \in {t, End(t)}
    BY DEF Woken
  <2>2. Sound(w) /\ KeepsOrEnds(service, w)
    BY <1>1, <1>2, <2>1
  <2>3. service' \in {w, End(w)}
    BY <1>4 DEF Wake
  <2> HIDE DEF w
  <2> QED
    BY <1>2, <2>2, <2>3
<1>5. CASE ReceiveNothing
  BY <1>5 DEF ReceiveNothing, Publications, KeepsOrEnds
<1>6. CASE ReceiveFault
  BY <1>6, RejectSound DEF ReceiveFault, Publications, KeepsOrEnds, IInv
<1>7. CASE Reply
  <2>1. \/ service' = t
        \/ service' = [t EXCEPT !.counters = Sent(@, 0, TRUE)]
        \/ service' = [t EXCEPT !.counters = Sent(@, 0, FALSE)]
    BY <1>7 DEF Reply, Publications
  <2> HIDE DEF t
  <2>2. service' = t \/ Accounts(t, service')
    BY <1>1, <2>1, Accounting
  <2> QED
    BY <1>1, <1>3, <2>2
<1>8. CASE Sample
  <2> DEFINE r == Replaced(p)
  <2>1. service' \in {End(service), p, r, End(r)}
    BY <1>8 DEF Sample, BindFailed, NextStream
  <2> HIDE DEF p
  <2>2. Accounts(p, r)
    BY <1>1, Accounting
  <2> HIDE DEF r
  <2>3. Sound(r) /\ KeepsOrEnds(service, r)
    BY <1>1, <1>3, <2>2
  <2> QED
    BY <1>1, <1>2, <2>1, <2>3, EndKeepsOrEnds
<1>9. CASE Offer
  <2>1. \/ service' = t
        \/ service' = [t EXCEPT !.counters = Sent(@, x, TRUE)]
        \/ service' = [t EXCEPT !.counters = Skip(Sent(@, x, FALSE), 1)]
    BY <1>9 DEF Offer, NextStream
  <2> HIDE DEF t, x
  <2>2. service' = t \/ Accounts(t, service')
    BY <1>1, <2>1, Accounting
  <2> QED
    BY <1>1, <1>3, <2>2
<1> QED
  BY <1>4, <1>5, <1>6, <1>7, <1>8, <1>9 DEF Firmware

Online == link /\ config # None

\* A run that is kept is no step of the board, one that ends is released.
LEMMA BoardReleases ==
  ASSUME Sound(service), KeepsOrEnds(service, service'), Online' = Online
  PROVE  [Board!BoardNext]_<<Board!vars, Online>>
<1> USE DEF RunNumber, RunHolder, RunLast, RunDeadline
<1>1. CASE RunOf(service') = RunOf(service)
  BY <1>1, ViewOfRun DEF Board!vars, Online
<1>2. CASE Ends(service, service')
  BY <1>2, EndView, ViewTypes DEF Ends, Board!BoardNext, Board!Release, Online
<1> QED
  BY <1>1, <1>2 DEF KeepsOrEnds

\* A request that is handled grants, renews or releases a run, and the board may lose the
\* run at once.
LEMMA BoardHandles ==
  ASSUME Sound(service), NEW t, NEW u, Sound(t), Result(service, t, u),
         service' = u \/ service' = End(u), Online, Online' = Online
  PROVE  [Board!BoardNext]_<<Board!vars, Online>>
<1> USE DEF RunNumber, RunHolder, RunLast, RunDeadline
<1>1. Sound(u) /\ KeepsOrEnds(service, t) /\ Moves(t, u) /\ Sound(End(u)) /\ ~Active(End(u))
  BY Ended DEF Result, KeepsOrEnds
<1>2. CASE KeepsOrEnds(t, u)
  <2>1. KeepsOrEnds(service, u)
    BY <1>1, <1>2, KeepsOrEndsTwice
  <2>2. KeepsOrEnds(service, End(u))
    BY <1>1, <2>1, EndKeepsOrEnds, KeepsOrEndsTwice
  <2> QED
    BY <2>1, <2>2, BoardReleases
<1>3. CASE Grants(t, u)
  <2>1. /\ RunNumber(u) = RunNumber(t) /\ RunNumber(u) <= MaxEpoch /\ RunNumber(t) \in Nat
        /\ RunHolder(u) \in Clients /\ RunLast(u) \in Nat /\ RunDeadline(u) \in Nat
    BY <1>1, <1>3, GrantView, ViewTypes
  <2>2. RunNumber(t) = IF RunHolder(service) = None THEN RunNumber(service)
                       ELSE RunNumber(service) + 1
    <3>1. CASE RunOf(t) = RunOf(service)
      <4>1. RunHolder(t) = None
        BY <1>1, <1>3, GrantView
      <4> QED
        BY <3>1, <4>1, ViewOfRun
    <3>2. CASE Ends(service, t)
      BY <3>2, EndView, ViewTypes DEF Ends
    <3> QED
      BY <1>1, <3>1, <3>2 DEF KeepsOrEnds
  <2>3. CASE service' = u
    BY <2>1, <2>2, <2>3 DEF Board!BoardNext, Board!Grant, Online
  <2>4. CASE service' = End(u)
    <3>1. Active(u)
      BY <1>3 DEF Grants
    <3>2. /\ RunNumber(End(u)) = RunNumber(u) + 1
          /\ RunHolder(End(u)) = None /\ RunLast(End(u)) = 0 /\ RunDeadline(End(u)) = 0
      BY <1>1, <3>1, EndView
    <3> QED
      BY <2>1, <2>2, <2>4, <3>2, LeaseAssumption DEF Board!BoardNext, Board!Abort, Online
  <2> QED
    BY <2>3, <2>4
<1>4. CASE Renews(t, u)
  <2>1. Active(t) /\ RunOf(t) = RunOf(service) /\ Active(u)
    BY <1>1, <1>4, EndsInactive DEF Renews, KeepsOrEnds
  <2>2. /\ RunNumber(t) = RunNumber(service) /\ RunHolder(t) = RunHolder(service)
        /\ RunLast(t) = RunLast(service) /\ RunDeadline(t) = RunDeadline(service)
    BY <2>1, ViewOfRun
  <2>3. /\ RunNumber(u) = RunNumber(t) /\ RunHolder(u) = RunHolder(t) /\ RunHolder(t) # None
        /\ RunLast(u) \in Nat /\ RunLast(u) > RunLast(t) /\ RunDeadline(u) \in Nat
    BY <1>1, <1>4, RenewView
  <2>4. CASE service' = u
    BY <2>2, <2>3, <2>4 DEF Board!BoardNext, Board!Renew, Online
  <2>5. CASE service' = End(u)
    <3>1. /\ RunNumber(End(u)) = RunNumber(u) + 1
          /\ RunHolder(End(u)) = None /\ RunLast(End(u)) = 0 /\ RunDeadline(End(u)) = 0
      BY <1>1, <2>1, EndView
    <3> QED
      BY <2>2, <2>3, <2>5, <3>1 DEF Board!BoardNext, Board!Release, Online
  <2> QED
    BY <2>4, <2>5
<1> QED
  BY <1>1, <1>2, <1>3, <1>4 DEF Moves, KeepsOrEnds

LEMMA BoardStep ==
  ASSUME IInv, Reachable, [Next]_vars
  PROVE  [Board!BoardNext]_<<Board!vars, Online>>
<1>1. CASE Firmware /\ ~ReceiveRequest
  <2>1. Online' = Online
    BY <1>1 DEF Firmware, Wake, ReceiveNothing, ReceiveFault, Reply, Sample, Offer, environment,
                Online
  <2> QED
    BY <1>1, <2>1, LoopKeepsOrEnds, BoardReleases DEF IInv
<1>2. CASE ReceiveRequest
  <2> DEFINE d == Head(sockets.rx).datagram
             t == Tick(service, clock)
             u == Handle(service, d.request, clock).service
  <2>1. /\ stage = "receive" /\ sockets.rx # <<>> /\ UNCHANGED <<link, config>>
        /\ service' = u \/ service' = End(u)
    BY <1>2 DEF ReceiveRequest, Publications, environment
  <2>2. Good(sockets, generation)
    BY DEF IInv
  <2>3. d \in Datagrams
    BY <2>1, <2>2, ReceiveGood
  <2>4. d.request \in Asked
    BY <2>3, FirmwareAssumption DEF Asked
  <2>5. Sound(t) /\ Result(service, t, u)
    BY <2>4, AskedTypes, HandleSound, TickSound DEF IInv, Times
  <2>6. Online /\ Online' = Online
    BY <2>1 DEF Reachable, ready, Online
  <2> HIDE DEF d, t, u
  <2> QED
    BY <2>1, <2>5, <2>6, BoardHandles DEF IInv
<1>3. CASE UNCHANGED service
  <2>1. UNCHANGED Board!vars
    BY <1>3 DEF Board!vars, RunNumber, RunHolder, RunLast, RunDeadline, Active
  <2> QED
    BY <2>1 DEF Board!BoardNext, Board!NetworkChange, Online
<1> QED
  BY <1>1, <1>2, <1>3 DEF Next, Network, Arrive, Transmit, NetworkChange, Elapse, vars

\* The firmware implements the promise of BenchmarkBoard, for any number of clients, runs and
\* addresses and whatever the network does: run numbers are never used twice, one client holds
\* the board at a time, only its fresh identities move the deadline, nothing is granted or
\* renewed while the board is off the network, and a run that cannot be answered for is over
\* at once.
THEOREM Refinement == Spec => BoardSpec
<1>1. Init => Reachable /\ Board!Init
  <2> SUFFICES ASSUME Init PROVE Reachable /\ Board!Init
    OBVIOUS
  <2>1. Reachable
    BY DEF Init, Reachable
  <2>2. Board!Init
    BY DEF Init, NewService, Board!Init, RunNumber, RunHolder, RunLast, RunDeadline, Active
  <2> QED
    BY <2>1, <2>2
<1>2. IInv /\ Reachable /\ [Next]_vars => [Board!BoardNext]_<<Board!vars, Online>>
  BY BoardStep
<1> QED
  BY <1>1, <1>2, StaysReachable, Invariance, PTL DEF Spec, BoardSpec, Board!BoardSpec, Online

-----------------------------------------------------------------------------
(* The sample that waits is the newest.                                      *)

Newest(s, k, i) ==
  LET queue == k.tx[SocketOf(i)] IN
  queue # <<>> =>
    /\ Len(queue) = 1
    /\ queue[1].kind = "publication" /\ queue[1].stream = i
    /\ (queue[1].sequence + 1) % SequenceMod = s.schedules[i].sequence

AllNewest(s, k) == Active(s) => \A i \in Streams : Newest(s, k, i)

\* A sample in hand is the last one taken, and its queue is empty.
TakenLast ==
  stage = "offer" /\ Active(service) =>
    /\ message.kind = "publication" /\ message.stream = stream
    /\ (message.sequence + 1) % SequenceMod = service.schedules[stream].sequence
    /\ sockets.tx[SocketOf(stream)] = <<>>

QInv == AllNewest(service, sockets) /\ TakenLast

\* The step leaves the schedules of a run that goes on alone.
SameSchedules(s, t) == Active(t) => Active(s) /\ t.schedules = s.schedules

LEMMA NewestKept ==
  ASSUME NEW s, NEW k, AllNewest(s, k), NEW t, SameSchedules(s, t), NEW l, l.tx = k.tx
  PROVE  AllNewest(t, l)
BY DEF AllNewest, Newest, SameSchedules

LEMMA ClosedNewest ==
  ASSUME NEW s
  PROVE  AllNewest(s, Closed)
<1>1. \A i \in Streams : Closed.tx[SocketOf(i)] = <<>>
  BY Capacities DEF Closed
<1> QED
  BY <1>1 DEF AllNewest, Newest

LEMMA SynchronisedNewest ==
  ASSUME NEW s, NEW k, AllNewest(s, k), NEW g
  PROVE  AllNewest(s, Synchronised(g, k, s))
BY ClosedNewest DEF Synchronised

LEMMA PublicationsNewest ==
  ASSUME NEW g, NEW k, NEW s, Publications(g, k, s), AllNewest(s, k)
  PROVE  QInv'
<1>1. service' = s /\ sockets' = Synchronised(g, k, s) /\ stage' = "publish"
  BY DEF Publications
<1>2. AllNewest(service', sockets')
  BY <1>1, SynchronisedNewest
<1> QED
  BY <1>1, <1>2 DEF QInv, TakenLast, AllNewest, Newest, Active

LEMMA NextStreamNewest ==
  ASSUME NEW k, NEW s, NextStream(k, s), AllNewest(s, k)
  PROVE  QInv'
<1>1. /\ service' = s /\ stage' # "offer"
      /\ sockets' = k \/ sockets' = Synchronised(generation, k, s)
  BY DEF NextStream, Finish
<1>2. AllNewest(service', sockets')
  BY <1>1, SynchronisedNewest
<1> QED
  BY <1>1, <1>2 DEF QInv, TakenLast, AllNewest, Newest, Active

LEMMA InactiveNewest == ASSUME ~Active(service') PROVE QInv'
BY DEF QInv, TakenLast, AllNewest, Active

LEMMA TickSameSchedules ==
  ASSUME NEW s, Sound(s), NEW now \in Nat
  PROVE  SameSchedules(s, Tick(s, now))
BY TickSchedules DEF SameSchedules, Times

LEMMA CountedSameSchedules ==
  ASSUME NEW s, Sound(s), NEW c
  PROVE  SameSchedules(s, [s EXCEPT !.counters = c])
BY DEF SameSchedules, Sound, ServiceState, Active

\* A sample that is taken is numbered one before the next one of its stream.
LEMMA PublishNumbers ==
  ASSUME NEW s, Sound(s), NEW i \in Streams, NEW now \in Nat
  PROVE  LET p == Publish(s, i, now) IN
         /\ p.reply = None => SameSchedules(s, p.service)
         /\ p.reply # None =>
              /\ Active(s) /\ p.reply.kind = "publication" /\ p.reply.stream = i
              /\ (p.reply.sequence + 1) % SequenceMod = p.service.schedules[i].sequence
              /\ \A j \in Streams \ {i} : p.service.schedules[j] = s.schedules[j]
<1> DEFINE t == Tick(s, now)
           p == Publish(s, i, now)
           n == DueSequence(t, i, now)
           due == now + (t.schedules[i].period
                           - ((now - t.schedules[i].due) % t.schedules[i].period))
           counted == Skip(t.counters, Skipped(t, i, now))
           payload == Pattern(t.lease.config.payload, t.lease.config.seed, n)
<1>1. t \in ServiceState /\ SameSchedules(s, t)
  BY TickSameSchedules, TickSound DEF Sound, Times
<1>2. p = IF ~IsDue(t, i, now) THEN [service |-> t, reply |-> None]
          ELSE [service |-> [t EXCEPT !.schedules[i] = Advanced(t, i, now), !.counters = counted],
                reply |-> [kind |-> "publication", stream |-> i, client |-> t.lease.client,
                           epoch |-> t.epoch, sequence |-> n, payload |-> payload]]
  BY <1>1 DEF Publish, ServiceState
<1>3. Advanced(t, i, now) = [t.schedules[i] EXCEPT !.sequence = (n + 1) % SequenceMod, !.due = due]
  BY DEF Advanced
<1>4. IsDue(t, i, now) => p.reply # None
  BY PublishKeepsRun
<1> HIDE DEF t, p, n, due, counted, payload
<1>5. CASE ~IsDue(t, i, now)
  BY <1>1, <1>2, <1>5 DEF p
<1>6. CASE IsDue(t, i, now)
  <2>1. Active(t) /\ t.schedules[i] \in Publication
    BY <1>1, <1>6 DEF IsDue, ServiceState
  <2> DEFINE next == Advanced(t, i, now)
  <2>2. next.sequence = (n + 1) % SequenceMod
    BY <1>3, <2>1 DEF Publication
  <2> HIDE DEF next
  <2>3. /\ p.service.schedules = [t.schedules EXCEPT ![i] = next]
        /\ p.reply.kind = "publication" /\ p.reply.stream = i /\ p.reply.sequence = n
    BY <1>1, <1>2, <1>6 DEF ServiceState, next
  <2>4. /\ p.service.schedules[i] = next
        /\ \A j \in Streams \ {i} : p.service.schedules[j] = t.schedules[j]
    BY <1>1, <2>3 DEF ServiceState
  <2> QED
    BY <1>1, <1>4, <1>6, <2>1, <2>2, <2>3, <2>4 DEF SameSchedules, p
<1> QED
  BY <1>5, <1>6

LEMMA WakeNewest == ASSUME IInv, QInv, Wake PROVE QInv'
<1> DEFINE t == Tick(service, clock)
           s == Woken(t)
           k == Reset(s)
           opened == [k EXCEPT !.open = [x \in Sockets |-> TRUE]]
<1>1. \/ service' = s /\ sockets' \in {k, opened} /\ stage' # "offer"
      \/ service' = End(s)
  BY DEF Wake
<1>2. Sound(t) /\ AllNewest(t, sockets)
  BY TickKeepsOrEnds, TickSameSchedules, NewestKept DEF IInv, QInv
<1> HIDE DEF t
<1>3. Sound(s) /\ (Active(s) => s = t /\ k = Synchronised(generation, sockets, s))
  BY <1>2, Ended DEF Woken, Reset
<1>4. Good(k, Generation(s))
  BY ClosedGood, SynchronisedGood DEF Reset, IInv
<1>5. opened.tx = k.tx
  BY <1>4 DEF Good, Opened
<1>6. AllNewest(s, k)
  BY <1>2, <1>3, SynchronisedNewest DEF AllNewest
<1> HIDE DEF s, k, opened
<1>7. CASE service' = s /\ sockets' \in {k, opened} /\ stage' # "offer"
  <2>1. AllNewest(service', sockets')
    BY <1>5, <1>6, <1>7, NewestKept DEF SameSchedules
  <2> QED
    BY <1>7, <2>1 DEF QInv, TakenLast, AllNewest, Newest, Active
<1> QED
  BY <1>1, <1>3, <1>7, Ended, InactiveNewest

LEMMA ReceiveNewest ==
  ASSUME IInv, QInv, ReceiveNothing \/ ReceiveFault \/ ReceiveRequest
  PROVE  QInv'
<1> DEFINE d == Head(sockets.rx).datagram
           rest == [sockets EXCEPT !.rx = Tail(@)]
           h == Handle(service, d.request, clock)
           u == h.service
           k == Synchronised(generation, rest, u)
           g == Generation(u)
<1>1. rest.tx = sockets.tx
  BY DEF IInv, Good, Opened
<1>2. CASE ReceiveNothing
  BY <1>2, PublicationsNewest DEF ReceiveNothing, QInv
<1>3. CASE ReceiveFault
  <2> DEFINE s == Reject(service, d.fault = "crc" /\ d.local = config)
  <2>1. Publications(generation, rest, s)
    BY <1>3 DEF ReceiveFault
  <2>2. SameSchedules(service, s)
    BY RejectUntouched DEF Untouched, IInv, Sound, SameSchedules, Active
  <2> HIDE DEF s, rest
  <2> QED
    BY <1>1, <2>1, <2>2, NewestKept, PublicationsNewest DEF QInv
<1>4. CASE ReceiveRequest
  <2>1. /\ stage = "receive" /\ sockets.rx # <<>>
        /\ \/ Publications(g, Bind(k, 0), u)
           \/ service' = u /\ sockets' = Bind(k, 0) /\ stage' = "reply"
           \/ service' = End(u)
    BY <1>4 DEF ReceiveRequest
  <2>2. d \in Datagrams /\ Good(rest, generation) /\ generation = Generation(service)
    BY <2>1, ReceiveGood DEF IInv, StageStands
  <2>3. d.request \in Asked
    BY <2>2, FirmwareAssumption DEF Asked
  <2> HIDE DEF d
  <2>4. Sound(u) /\ WellFormed(d.request)
    BY <2>3, HandleReplies, AskedTypes DEF IInv
  <2>5. Active(u) => \/ Active(service) /\ u.schedules = service.schedules
                     \/ g # generation
    BY <2>2, <2>4, HandleSchedules DEF IInv, Times, Generation
  <2> HIDE DEF h, rest
  <2>6. AllNewest(u, k) /\ Good(k, g)
    <3>1. Good(k, g)
      BY <2>2, SynchronisedGood
    <3>2. CASE g # generation
      BY <3>1, <3>2, ClosedNewest DEF Synchronised
    <3>3. CASE SameSchedules(service, u)
      <4>1. AllNewest(u, rest)
        BY <1>1, <3>3, NewestKept DEF QInv
      <4> QED
        BY <3>1, <4>1, SynchronisedNewest
    <3> QED
      BY <2>5, <3>2, <3>3 DEF SameSchedules
  <2> HIDE DEF k, g
  <2>7. AllNewest(u, Bind(k, 0))
    <3>1. Bind(k, 0).tx = k.tx
      BY <2>6, Capacities, BindGood
    <3> QED
      BY <2>6, <3>1, NewestKept DEF SameSchedules
  <2>8. CASE service' = u /\ sockets' = Bind(k, 0) /\ stage' = "reply"
    BY <2>7, <2>8 DEF QInv, TakenLast, AllNewest, Newest, Active
  <2> QED
    BY <2>1, <2>4, <2>7, <2>8, Ended, InactiveNewest, PublicationsNewest
<1> QED
  BY <1>2, <1>3, <1>4

LEMMA ReplyNewest == ASSUME IInv, QInv, Reply PROVE QInv'
<1> DEFINE s == Tick(service, clock)
           sent == [s EXCEPT !.counters = Sent(@, 0, TRUE)]
           failed == [s EXCEPT !.counters = Sent(@, 0, FALSE)]
           k == Send(sockets, 0, message)
<1>1. \/ Publications(generation, sockets, s)
      \/ Publications(generation, k, sent)
      \/ Publications(generation, sockets, failed)
  BY DEF Reply
<1>2. Sound(s) /\ AllNewest(s, sockets) /\ Good(sockets, generation)
  BY TickKeepsOrEnds, TickSameSchedules, NewestKept DEF IInv, QInv
<1>3. \A i \in Streams : k.tx[SocketOf(i)] = sockets.tx[SocketOf(i)]
  BY <1>2, Capacities DEF Good, Opened, Send
<1> HIDE DEF s, k
<1>4. AllNewest(s, k)
  BY <1>2, <1>3 DEF AllNewest, Newest
<1>5. SameSchedules(s, sent) /\ SameSchedules(s, failed)
  BY <1>2 DEF SameSchedules, Sound, ServiceState, Active
<1> HIDE DEF sent, failed
<1>6. AllNewest(sent, k) /\ AllNewest(failed, sockets)
  BY <1>2, <1>4, <1>5, NewestKept
<1> QED
  BY <1>1, <1>2, <1>6, PublicationsNewest

LEMMA BindFailedNewest ==
  ASSUME NEW k, NEW s, Sound(s), BindFailed(k, s)
  PROVE  QInv'
BY Ended, InactiveNewest DEF BindFailed

LEMMA SampleNewest == ASSUME IInv, QInv, Sample PROVE QInv'
<1> DEFINE x == SocketOf(stream)
           p == Publish(service, stream, clock)
           k == Bind(sockets, x)
           l == Bind(Close(k, x), x)
           s == p.service
           r == Replaced(s)
<1>1. \/ BindFailed(sockets, service)
      \/ p.reply = None /\ NextStream(k, s)
      \/ /\ p.reply # None /\ k.tx[x] = <<>> /\ service' = s /\ sockets' = k
         /\ message' = p.reply /\ UNCHANGED stream
      \/ /\ p.reply # None /\ service' = r /\ sockets' = l
         /\ message' = p.reply /\ UNCHANGED stream
      \/ BindFailed(Close(k, x), r)
  BY DEF Sample
<1>2. Sound(service) /\ Good(sockets, generation) /\ stream \in Streams /\ x \in Sockets
  BY Capacities DEF IInv
<1>3. Sound(s)
  BY <1>2, PublishKeepsRun DEF KeepsRun, IInv
<1>4. Good(k, generation) /\ k.tx = sockets.tx
  BY <1>2, BindGood
<1>5. /\ p.reply = None => SameSchedules(service, s)
      /\ p.reply # None =>
           /\ Active(service) /\ p.reply.kind = "publication" /\ p.reply.stream = stream
           /\ (p.reply.sequence + 1) % SequenceMod = s.schedules[stream].sequence
           /\ \A j \in Streams \ {stream} : s.schedules[j] = service.schedules[j]
  BY <1>2, PublishNumbers DEF IInv
<1> HIDE DEF p
<1>6. Sound(r) /\ r.schedules = s.schedules
  <2>1. Sound(r)
    BY <1>3, Capacities, Accounting DEF Accounts
  <2>2. r.schedules = s.schedules
    BY <1>3 DEF Replaced, Sound, ServiceState
  <2> QED
    BY <2>1, <2>2
<1>7. l.tx[x] = <<>> /\ \A j \in Streams \ {stream} : l.tx[SocketOf(j)] = k.tx[SocketOf(j)]
  <2>1. Good(Close(k, x), generation) /\ Close(k, x).tx[x] = <<>>
    BY <1>2, <1>4, CloseGood
  <2>2. l.tx = Close(k, x).tx
    BY <1>2, <2>1, BindGood
  <2>3. \A y \in Sockets \ {x} : Close(k, x).tx[y] = k.tx[y]
    BY <1>4 DEF Close, Good, Opened
  <2>4. \A j \in Streams \ {stream} : SocketOf(j) \in Sockets \ {x}
    BY <1>2, Capacities DEF SocketOf, Streams
  <2> QED
    BY <2>1, <2>2, <2>3, <2>4
<1> HIDE DEF k, l, s, r
<1>8. ASSUME p.reply # None, NEW q, q.schedules = s.schedules, NEW e, e.tx[x] = <<>>,
             \A j \in Streams \ {stream} : e.tx[SocketOf(j)] = k.tx[SocketOf(j)],
             service' = q, sockets' = e, message' = p.reply, UNCHANGED stream
      PROVE  QInv'
  <2>1. Active(service) /\ \A j \in Streams : Newest(service, sockets, j)
    BY <1>5, <1>8 DEF QInv, AllNewest
  <2>2. \A j \in Streams : Newest(q, e, j)
    BY <1>4, <1>5, <1>8, <2>1 DEF Newest, x
  <2>3. TakenLast'
    BY <1>5, <1>8 DEF TakenLast, x
  <2> QED
    BY <1>8, <2>2, <2>3 DEF QInv, AllNewest, Newest, Active
<1>9. CASE p.reply = None /\ NextStream(k, s)
  <2>1. AllNewest(s, k)
    BY <1>4, <1>5, <1>9, NewestKept DEF QInv
  <2> QED
    BY <1>9, <2>1, NextStreamNewest
<1> QED
  BY <1>1, <1>2, <1>6, <1>7, <1>8, <1>9, BindFailedNewest

LEMMA OfferNewest == ASSUME IInv, QInv, Offer PROVE QInv'
<1> DEFINE x == SocketOf(stream)
           s == Tick(service, clock)
           sent == [s EXCEPT !.counters = Sent(@, x, TRUE)]
           failed == [s EXCEPT !.counters = Skip(Sent(@, x, FALSE), 1)]
           k == Send(sockets, x, message)
<1>1. /\ stage = "offer"
      /\ \/ NextStream(sockets, s)
         \/ Active(s) /\ NextStream(k, sent)
         \/ NextStream(sockets, failed)
  BY DEF Offer
<1>2. /\ Sound(s) /\ AllNewest(s, sockets) /\ Good(sockets, generation) /\ SameSchedules(service, s)
      /\ stream \in Streams /\ x \in Sockets
  BY TickKeepsOrEnds, TickSameSchedules, NewestKept, Capacities DEF IInv, QInv
<1>3. SameSchedules(s, sent) /\ SameSchedules(s, failed)
  BY <1>2 DEF SameSchedules, Sound, ServiceState, Active
<1> HIDE DEF s
<1>4. ASSUME Active(s) PROVE AllNewest(s, k)
  <2>1. /\ sockets.tx[x] = <<>> /\ message.kind = "publication" /\ message.stream = stream
        /\ (message.sequence + 1) % SequenceMod = s.schedules[stream].sequence
    BY <1>1, <1>2, <1>4 DEF QInv, TakenLast, SameSchedules
  <2>2. k.tx[x] = Append(<<>>, message) /\ \A y \in Sockets \ {x} : k.tx[y] = sockets.tx[y]
    BY <1>2, <2>1 DEF Good, Opened, Send
  <2>3. Len(Append(<<>>, message)) = 1 /\ Append(<<>>, message)[1] = message
    OBVIOUS
  <2>4. \A j \in Streams \ {stream} : SocketOf(j) \in Sockets \ {x}
    BY <1>2, Capacities DEF SocketOf, Streams
  <2> HIDE DEF k
  <2>5. Newest(s, k, stream)
    BY <2>1, <2>2, <2>3 DEF Newest, x
  <2>6. \A j \in Streams \ {stream} : Newest(s, k, j)
    BY <1>2, <1>4, <2>2, <2>4 DEF AllNewest, Newest
  <2> QED
    BY <2>5, <2>6 DEF AllNewest
<1> HIDE DEF sent, failed, k
<1>5. AllNewest(failed, sockets) /\ (Active(s) => AllNewest(sent, k))
  BY <1>2, <1>3, <1>4, NewestKept
<1> QED
  BY <1>1, <1>2, <1>5, NextStreamNewest

LEMMA TransmitNewest == ASSUME IInv, QInv, NEW x \in Sockets, Transmit(x) PROVE QInv'
<1> DEFINE k == [sockets EXCEPT !.tx[x] = Tail(@)]
<1>1. /\ stage = "asleep" /\ sockets.tx[x] # <<>> /\ sockets' = k
      /\ UNCHANGED <<service, stage>>
  BY DEF Transmit
<1>2. /\ k.tx[x] = Tail(sockets.tx[x]) /\ \A y \in Sockets \ {x} : k.tx[y] = sockets.tx[y]
      /\ sockets.tx[x] \in Seq(Fresh(generation))
  BY DEF IInv, Good, Opened
<1> HIDE DEF k
<1>3. Len(sockets.tx[x]) = 1 => Tail(sockets.tx[x]) = <<>>
  <2> DEFINE q == sockets.tx[x]
  <2>1. q \in Seq(Fresh(generation)) /\ q # <<>>
    BY <1>1, <1>2
  <2> HIDE DEF q
  <2> DEFINE r == Tail(q)
  <2>2. r \in Seq(Fresh(generation)) /\ Len(r) = Len(q) - 1
    BY <2>1, HeadTailProperties
  <2> HIDE DEF r
  <2>3. Len(q) = 1 => Len(r) = 0
    BY <2>2
  <2>4. Len(q) = 1 => r = <<>>
    BY <2>2, <2>3, EmptySeq
  <2> QED
    BY <2>4 DEF q, r
<1>4. ASSUME Active(service), NEW i \in Streams PROVE Newest(service, k, i)
  <2>1. Newest(service, sockets, i) /\ SocketOf(i) \in Sockets
    BY <1>4, Capacities DEF QInv, AllNewest
  <2> QED
    BY <1>1, <1>2, <1>3, <2>1 DEF Newest
<1>5. AllNewest(service, k)
  BY <1>4 DEF AllNewest
<1> QED
  BY <1>1, <1>5 DEF QInv, TakenLast, AllNewest, Newest, Active

LEMMA UnchangedNewest ==
  ASSUME QInv, UNCHANGED <<service, stage, stream, message>>, sockets'.tx = sockets.tx
  PROVE  QInv'
BY DEF QInv, TakenLast, AllNewest, Newest, Active

\* A sample never waits while a newer one of its stream is dropped: what is queued during a
\* run is the last sample taken, alone, for queues of any size and sequences that wrap.
THEOREM NewestQueued == Spec => []QueuedNewest
<1>1. Init => QInv
  BY InactiveNewest DEF Init, NewService, Active, QInv, AllNewest, TakenLast
<1>2. ASSUME IInv, QInv, [Next]_vars PROVE QInv'
  <2>1. CASE Firmware
    BY <1>2, <2>1, WakeNewest, ReceiveNewest, ReplyNewest, SampleNewest, OfferNewest DEF Firmware
  <2>2. CASE \E x \in Sockets : Transmit(x)
    BY <1>2, <2>2, TransmitNewest
  <2>3. CASE \E d \in Datagrams : Arrive(d)
    <3>1. UNCHANGED <<service, stage, stream, message>> /\ sockets'.tx = sockets.tx
      BY <1>2, <2>3 DEF Arrive, IInv, Good, Opened
    <3> QED
      BY <1>2, <3>1, UnchangedNewest
  <2>4. CASE NetworkChange \/ Elapse \/ UNCHANGED vars
    <3>1. UNCHANGED <<service, stage, stream, message, sockets>>
      BY <2>4 DEF NetworkChange, Elapse, vars
    <3> QED
      BY <1>2, <3>1, UnchangedNewest
  <2> QED
    BY <1>2, <2>1, <2>2, <2>3, <2>4 DEF Next, Network
<1>3. QInv => QueuedNewest
  BY DEF QInv, AllNewest, Newest, QueuedNewest
<1> QED
  BY <1>1, <1>2, <1>3, Invariance, PTL DEF Spec
=============================================================================
