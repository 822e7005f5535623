---------------------------- MODULE MessagingProofs ----------------------------
(***************************************************************************)
(* What Messaging guarantees for every choice of periods, drain limit,     *)
(* sequence modulus, counter width and reply budget.                       *)
(***************************************************************************)
EXTENDS Messaging, FiniteSetTheorems, SequenceTheorems, TLAPS

\* A socket is open while its task receives or waits for it to drain.
Opened ==
  /\ cmd.pc # "head" => cmd.open
  /\ \A i \in Publishers : pub[i].pc = "flush" => pub[i].open

\* The loss "behind" belongs to the sample being sent, which was taken late.
LossesRecorded ==
  \A i \in Publishers : "behind" \in lost[i] <=> pub[i].pc = "flush" /\ pub[i].late

IInv ==
  /\ TypeOK /\ Opened /\ LossesRecorded
  /\ SlotsOnGrid /\ SlotsAccounted /\ NoStalePacket /\ FailuresShow

-----------------------------------------------------------------------------
(* Whole periods and sequence numbers.                                       *)

LEMMA Division ==
  ASSUME NEW n \in Int, NEW d \in Nat \ {0}
  PROVE  /\ n \div d \in Int /\ n % d \in 0..(d - 1)
         /\ n = d * (n \div d) + (n % d)
OBVIOUS

\* Two multiples of d that differ do so by at least d.
LEMMA Multiples ==
  ASSUME NEW d \in Nat \ {0}, NEW a \in Int, NEW b \in Int, a < b
  PROVE  d * a + d <= d * b
<1>1. d * (b - a) >= d
  <2> DEFINE k == b - a
  <2>1. k \in Int /\ k >= 1
    OBVIOUS
  <2> HIDE DEF k
  <2>2. d * k >= d
    BY <2>1
  <2> QED BY <2>2 DEF k
<1>2. d * (b - a) = d * b - d * a
  OBVIOUS
<1> QED BY <1>1, <1>2

LEMMA RemainderUnique ==
  ASSUME NEW d \in Nat \ {0}, NEW q \in Int, NEW r \in 0..(d - 1)
  PROVE  (d * q + r) % d = r
<1> DEFINE n == d * q + r
           k == n \div d
           m == n % d
<1>1. n \in Int
  OBVIOUS
<1>2. k \in Int /\ m \in 0..(d - 1) /\ n = d * k + m
  BY <1>1, Division
<1> HIDE DEF k, m
<1>3. ~(q < k) /\ ~(k < q)
  BY <1>2, Multiples
<1>4. q = k
  BY <1>2, <1>3
<1> QED BY <1>2, <1>4 DEF m

LEMMA RemainderAdded ==
  ASSUME NEW d \in Nat \ {0}, NEW n \in Int, NEW k \in Int
  PROVE  ((n % d) + k) % d = (n + k) % d
<1> DEFINE m == n % d
           p == n \div d
           r == (m + k) % d
           q == (m + k) \div d
<1>1. p \in Int /\ m \in 0..(d - 1) /\ n = d * p + m
  BY Division
<1> HIDE DEF m, p
<1>2. q \in Int /\ r \in 0..(d - 1) /\ m + k = d * q + r
  <2>1. m + k \in Int
    BY <1>1
  <2> QED BY <2>1, Division
<1> HIDE DEF q, r
<1>3. n + k = d * (p + q) + r
  BY <1>1, <1>2
<1>4. (d * (p + q) + r) % d = r
  BY <1>1, <1>2, RemainderUnique
<1> QED BY <1>3, <1>4 DEF r, m

LEMMA RemainderKept ==
  ASSUME NEW d \in Nat \ {0}, NEW n \in Int
  PROVE  (n % d) % d = n % d
<1> DEFINE m == n % d
           q == m \div d
           r == m % d
<1>1. m \in 0..(d - 1)
  BY Division
<1> HIDE DEF m
<1>2. q \in Int /\ r \in 0..(d - 1) /\ m = d * q + r
  BY <1>1, Division
<1> HIDE DEF q, r
<1>3. q > 0 => d * q >= d
  BY <1>2, Multiples
<1>4. q < 0 => d * q + d <= 0
  BY <1>2, Multiples
<1>5. q = 0
  BY <1>1, <1>2, <1>3, <1>4
<1>6. m = r
  BY <1>1, <1>2, <1>5
<1> QED BY <1>6 DEF m, r

\* A time has one distance in whole periods to the first period.
LEMMA PeriodsUnique ==
  ASSUME NEW d \in Nat \ {0}, NEW u \in Int, NEW a \in Int, NEW b \in Int,
         u + a * d \in 1..d, u + b * d \in 1..d
  PROVE  a = b
<1>1. a * d = d * a /\ b * d = d * b
  OBVIOUS
<1>2. ~(a < b) /\ ~(b < a)
  BY <1>1, Multiples
<1> QED BY <1>2
-----------------------------------------------------------------------------
(* Counters, slots due and the sum over both publishers.                     *)

LEMMA Numbers ==
  /\ Publishers \subseteq {1, 2} /\ \A i \in Publishers : Period[i] \in Nat \ {0}
  /\ SequenceMod \in Nat \ {0} /\ QueueLength \in Nat \ {0}
  /\ MaxLate \in Nat /\ DrainLimit \in Nat /\ Credit \in Nat /\ Cost \in Nat
  /\ CounterMax \in Nat
BY MessagingAssumption, CounterAssumption

\* Saturating addition: exact while it has not reached the maximum.
LEMMA Saturates ==
  ASSUME NEW n \in CounterRange, NEW amount \in Nat
  PROVE  /\ SatAdd(n, amount) \in CounterRange
         /\ SatAdd(n, amount) < CounterMax => n < CounterMax /\ SatAdd(n, amount) = n + amount
         /\ SatAdd(n, 0) = n
BY Numbers DEF SatAdd, CounterRange

LEMMA Counts ==
  ASSUME NEW c \in CounterState
  PROVE  /\ Received(c) \in CounterState /\ Received(c).active = c.active
         /\ Received(c).skipped = c.skipped
         /\ \A b \in BOOLEAN :
              /\ Rejected(c, b) \in CounterState /\ Rejected(c, b).active = c.active
              /\ Rejected(c, b).skipped = c.skipped
         /\ \A n \in Nat : /\ Skip(c, n) \in CounterState /\ Skip(c, n).active = c.active
                          /\ Skip(c, n).skipped = SatAdd(c.skipped, n)
         /\ \A s \in Sockets : /\ Active(c, s) \in CounterState
                              /\ Active(c, s).skipped = c.skipped
                              /\ Active(c, s).active = [c.active EXCEPT ![s] = TRUE]
         /\ \A s \in Sockets : \A b \in BOOLEAN :
              /\ Sent(c, s, b) \in CounterState /\ Sent(c, s, b).skipped = c.skipped
              /\ Sent(c, s, b).active = [c.active EXCEPT ![s] = ~b]
<1>1. /\ SatAdd(c.received, 1) \in CounterRange /\ SatAdd(c.rejected, 1) \in CounterRange
      /\ SatAdd(c.crc_rejections, 1) \in CounterRange /\ SatAdd(c.send_errors, 1) \in CounterRange
      /\ \A n \in Nat : SatAdd(c.skipped, n) \in CounterRange
  BY Saturates DEF CounterState
<1>2. Received(c) \in CounterState /\ Received(c).active = c.active
      /\ Received(c).skipped = c.skipped
  BY <1>1 DEF Received, CounterState
<1>3. ASSUME NEW b \in BOOLEAN
      PROVE  Rejected(c, b) \in CounterState /\ Rejected(c, b).active = c.active
             /\ Rejected(c, b).skipped = c.skipped
  BY <1>1 DEF Rejected, CounterState
<1>4. ASSUME NEW n \in Nat
      PROVE  Skip(c, n) \in CounterState /\ Skip(c, n).active = c.active
             /\ Skip(c, n).skipped = SatAdd(c.skipped, n)
  BY <1>1 DEF Skip, CounterState
<1>5. ASSUME NEW s \in Sockets
      PROVE  Active(c, s) \in CounterState /\ Active(c, s).skipped = c.skipped
             /\ Active(c, s).active = [c.active EXCEPT ![s] = TRUE]
  BY DEF Active, CounterState
<1>6. ASSUME NEW s \in Sockets, NEW b \in BOOLEAN
      PROVE  Sent(c, s, b) \in CounterState /\ Sent(c, s, b).skipped = c.skipped
             /\ Sent(c, s, b).active = [c.active EXCEPT ![s] = ~b]
  BY <1>1 DEF Sent, CounterState
<1> QED BY <1>2, <1>3, <1>4, <1>5, <1>6

\* The slots of period d that have passed `u` before the next one.
DueAt(u, d) == IF u > 0 THEN 0 ELSE (-u) \div d + 1

LEMMA DueTyped ==
  ASSUME NEW d \in Nat \ {0}, NEW u \in Int, u <= d
  PROVE  DueAt(u, d) \in Nat /\ u + DueAt(u, d) * d \in 1..d
<1>1. CASE u > 0
  BY <1>1 DEF DueAt
<1>2. CASE u <= 0
  <2> DEFINE q == (-u) \div d
             r == (-u) % d
  <2>1. q \in Int /\ r \in 0..(d - 1) /\ -u = d * q + r
    <3>1. -u \in Int
      OBVIOUS
    <3> QED BY <3>1, Division
  <2>2. q >= 0
    BY <1>2
  <2>3. DueAt(u, d) = q + 1
    BY <1>2 DEF DueAt
  <2> HIDE DEF q, r
  <2>4. (q + 1) * d = d * q + d
    BY <2>1
  <2> QED BY <2>1, <2>2, <2>3, <2>4
<1> QED BY <1>1, <1>2

LEMMA DueIs ==
  ASSUME NEW d \in Nat \ {0}, NEW u \in Int, u <= d, NEW n \in Int, u + n * d \in 1..d
  PROVE  DueAt(u, d) = n
<1>1. DueAt(u, d) \in Int /\ u + DueAt(u, d) * d \in 1..d
  BY DueTyped
<1> QED BY <1>1, PeriodsUnique

LEMMA DueOfPublisher ==
  ASSUME TypeOK, NEW i \in Publishers
  PROVE  /\ Due(i) = DueAt(pub[i].until, Period[i]) /\ Due(i) \in Nat
         /\ pub[i].until + Due(i) * Period[i] \in 1..Period[i]
         /\ pub[i].until <= 0 => Due(i) = Skipped(pub[i], i) + 1 /\ Skipped(pub[i], i) \in Nat
<1>1. pub[i].until \in Int /\ pub[i].until <= Period[i] /\ Period[i] \in Nat \ {0}
  <2>1. pub[i].until \in -MaxLate..Period[i]
    BY DEF TypeOK
  <2> QED
    BY <2>1, Numbers
<1>2. Due(i) = DueAt(pub[i].until, Period[i])
  BY DEF Due, DueAt
<1>3. Due(i) \in Nat /\ pub[i].until + Due(i) * Period[i] \in 1..Period[i]
  BY <1>1, <1>2, DueTyped
<1>4. ASSUME pub[i].until <= 0
      PROVE  Due(i) = Skipped(pub[i], i) + 1 /\ Skipped(pub[i], i) \in Nat
  <2>1. (-pub[i].until) \div Period[i] \in Nat
    <3>1. -pub[i].until \in Nat
      BY <1>1, <1>4
    <3> QED BY <1>1, <3>1
  <2> QED BY <1>1, <1>4, <2>1 DEF Due, Skipped
<1> QED BY <1>2, <1>3, <1>4

\* The owed slots of a publisher in terms of its record.
Waiting(p, d) == DueAt(p.until, d) + Len(p.tx)

LEMMA WaitingTyped ==
  ASSUME NEW d \in Nat \ {0}, NEW p \in PublisherState, p.until <= d
  PROVE  Waiting(p, d) \in Nat /\ Len(p.tx) = IF p.tx = <<>> THEN 0 ELSE 1
<1>1. p.until \in Int /\ (p.tx = <<>> \/ \E n \in 0..SequenceMod - 1 : p.tx = <<n>>)
  BY DEF PublisherState
<1>2. Len(p.tx) = IF p.tx = <<>> THEN 0 ELSE 1
  <2>1. CASE p.tx = <<>>
    BY <2>1
  <2>2. ASSUME NEW n \in 0..SequenceMod - 1, p.tx = <<n>>
        PROVE  Len(p.tx) = IF p.tx = <<>> THEN 0 ELSE 1
    BY <2>2
  <2> QED BY <1>1, <2>1, <2>2
<1>3. DueAt(p.until, d) \in Nat
  BY <1>1, DueTyped
<1> QED BY <1>2, <1>3 DEF Waiting
-----------------------------------------------------------------------------
(* The invariant, part by part.                                              *)

\* One publisher: its record p, its slot of the grid g, its losses l, its failure bit a.
PublisherGood(i, p, g, l, a) ==
  /\ p \in PublisherState /\ p.until \in -MaxLate..Period[i]
  /\ g.phase \in 1..Period[i]
  /\ p.pc = "flush" => p.open
  /\ p.until + DueAt(p.until, Period[i]) * Period[i] = g.phase
  /\ (p.sequence + DueAt(p.until, Period[i])) % SequenceMod = g.number
  /\ p.tx # <<>> => p.pc = "flush" /\ (p.tx[1] + 1) % SequenceMod = p.sequence
  /\ "behind" \in l <=> p.pc = "flush" /\ p.late
  /\ a <=> l # {}

\* The command task: its record c, its failure bit a.
CommandGood(c, a) ==
  /\ c \in CommandState /\ Len(c.rx) <= QueueLength
  /\ c.pc # "head" => c.open
  /\ c.tx # <<>> => c.pc = "flush" /\ Len(c.tx) = 1
  /\ ~c.open => a

Owing(i) == IF i \in Publishers THEN Waiting(pub[i], Period[i]) ELSE 0

Whole ==
  /\ net \in [link : BOOLEAN, address : Addresses \union {None}]
  /\ counters \in CounterState /\ owed \in Int
  /\ counters.skipped < CounterMax => owed = Owing(1) + Owing(2)
  /\ CommandGood(cmd, counters.active[0])
  /\ pub \in [Publishers -> PublisherState]
  /\ grid \in [Publishers -> [phase : Nat, number : 0..SequenceMod - 1]]
  /\ lost \in [Publishers -> SUBSET Losses]
  /\ \A i \in Publishers : PublisherGood(i, pub[i], grid[i], lost[i], counters.active[i])

LEMMA Parts == (IInv <=> Whole) /\ (IInv' <=> Whole')
<1>1. /\ \A i \in Publishers : Due(i) = DueAt(pub[i].until, Period[i])
      /\ \A i \in Publishers : Due(i)' = DueAt(pub[i].until, Period[i])'
  BY DEF Due, DueAt
<1>2. /\ Unsettled(1) = Owing(1) /\ Unsettled(2) = Owing(2)
      /\ Unsettled(1)' = Owing(1)' /\ Unsettled(2)' = Owing(2)'
  BY <1>1 DEF Unsettled, Owing, Waiting
<1>3. IInv <=> Whole
  <2>1. ASSUME IInv  PROVE  Whole
    <3>1. TypeOK /\ Opened /\ SlotsOnGrid /\ SlotsAccounted /\ NoStalePacket
          /\ FailuresShow /\ LossesRecorded
      BY <2>1 DEF IInv
    <3>2. ASSUME NEW i \in Publishers
          PROVE  PublisherGood(i, pub[i], grid[i], lost[i], counters.active[i])
      <4>1. (pub[i] \in PublisherState)
        BY <3>1 DEF TypeOK
      <4>2. /\ (pub[i].until \in -MaxLate..Period[i]) /\ (grid[i].phase \in 1..Period[i])
            /\ (pub[i].pc = "flush" => pub[i].open)
        BY <3>1 DEF TypeOK, Opened
      <4>3. /\ (pub[i].until + DueAt(pub[i].until, Period[i]) * Period[i] = grid[i].phase)
            /\ ((pub[i].sequence + DueAt(pub[i].until, Period[i])) % SequenceMod
                = grid[i].number)
        BY <1>1, <3>1 DEF SlotsOnGrid
      <4> QED BY <3>1, <4>1, <4>2, <4>3 DEF PublisherGood, NoStalePacket, FailuresShow,
                                                LossesRecorded
    <3>3. CommandGood(cmd, counters.active[0])
      BY <3>1 DEF CommandGood, TypeOK, Opened, NoStalePacket, FailuresShow
    <3> QED BY <1>2, <3>1, <3>2, <3>3 DEF Whole, TypeOK, SlotsAccounted
  <2>2. ASSUME Whole  PROVE  IInv
    <3>1. (\A i \in Publishers : PublisherGood(i, pub[i], grid[i], lost[i], counters.active[i]))
          /\ CommandGood(cmd, counters.active[0])
      BY <2>2 DEF Whole
    <3>2. TypeOK
      BY <2>2, <3>1 DEF Whole, TypeOK, PublisherGood, CommandGood
    <3>3. Opened /\ NoStalePacket
      BY <3>1 DEF Opened, NoStalePacket, PublisherGood, CommandGood
    <3>4. FailuresShow /\ LossesRecorded
      BY <3>1 DEF FailuresShow, LossesRecorded, PublisherGood, CommandGood
    <3>5. SlotsOnGrid
      BY <1>1, <3>1 DEF SlotsOnGrid, PublisherGood
    <3>6. SlotsAccounted
      BY <1>2, <2>2 DEF SlotsAccounted, Whole
    <3> QED BY <3>2, <3>3, <3>4, <3>5, <3>6 DEF IInv
  <2> QED BY <2>1, <2>2
<1>4. IInv' <=> Whole'
  <2>1. ASSUME IInv'  PROVE  Whole'
    <3>1. TypeOK' /\ Opened' /\ SlotsOnGrid' /\ SlotsAccounted' /\ NoStalePacket'
          /\ FailuresShow' /\ LossesRecorded'
      BY <2>1 DEF IInv
    <3>2. ASSUME NEW i \in Publishers
          PROVE  PublisherGood(i, pub[i], grid[i], lost[i], counters.active[i])'
      <4>1. (pub[i] \in PublisherState)'
        BY <3>1 DEF TypeOK
      <4>2. /\ (pub[i].until \in -MaxLate..Period[i])' /\ (grid[i].phase \in 1..Period[i])'
            /\ (pub[i].pc = "flush" => pub[i].open)'
        BY <3>1 DEF TypeOK, Opened
      <4>3. /\ (pub[i].until + DueAt(pub[i].until, Period[i]) * Period[i] = grid[i].phase)'
            /\ ((pub[i].sequence + DueAt(pub[i].until, Period[i])) % SequenceMod
                = grid[i].number)'
        BY <1>1, <3>1 DEF SlotsOnGrid
      <4> QED BY <3>1, <4>1, <4>2, <4>3 DEF PublisherGood, NoStalePacket, FailuresShow,
                                                LossesRecorded
    <3>3. CommandGood(cmd, counters.active[0])'
      BY <3>1 DEF CommandGood, TypeOK, Opened, NoStalePacket, FailuresShow
    <3> QED BY <1>2, <3>1, <3>2, <3>3 DEF Whole, TypeOK, SlotsAccounted
  <2>2. ASSUME Whole'  PROVE  IInv'
    <3>1. (\A i \in Publishers : PublisherGood(i, pub[i], grid[i], lost[i], counters.active[i]))'
          /\ CommandGood(cmd, counters.active[0])'
      BY <2>2 DEF Whole
    <3>2. TypeOK'
      BY <2>2, <3>1 DEF Whole, TypeOK, PublisherGood, CommandGood
    <3>3. Opened' /\ NoStalePacket'
      BY <3>1 DEF Opened, NoStalePacket, PublisherGood, CommandGood
    <3>4. FailuresShow' /\ LossesRecorded'
      BY <3>1 DEF FailuresShow, LossesRecorded, PublisherGood, CommandGood
    <3>5. SlotsOnGrid'
      BY <1>1, <3>1 DEF SlotsOnGrid, PublisherGood
    <3>6. SlotsAccounted'
      BY <1>2, <2>2 DEF SlotsAccounted, Whole
    <3> QED BY <3>2, <3>3, <3>4, <3>5, <3>6 DEF IInv
  <2> QED BY <2>1, <2>2
<1> QED BY <1>3, <1>4
-----------------------------------------------------------------------------
(* A step of one publisher, which changes nothing of the others.             *)

LEMMA OwingTyped ==
  ASSUME Whole
  PROVE  /\ \A i \in Publishers : Waiting(pub[i], Period[i]) \in Nat
         /\ Owing(1) \in Nat /\ Owing(2) \in Nat
<1>1. ASSUME NEW i \in Publishers  PROVE  Waiting(pub[i], Period[i]) \in Nat
  <2>1. pub[i] \in PublisherState /\ pub[i].until \in -MaxLate..Period[i]
    BY DEF Whole, PublisherGood
  <2>2. pub[i].until <= Period[i] /\ Period[i] \in Nat \ {0}
    BY <2>1, Numbers
  <2> QED BY <2>1, <2>2, WaitingTyped
<1> QED BY <1>1 DEF Owing

LEMMA PublisherStep ==
  ASSUME IInv, NEW i \in Publishers, NEW r \in PublisherState, NEW a \in BOOLEAN,
         NEW l \in SUBSET Losses, lost' = [lost EXCEPT ![i] = l],
         pub' = [pub EXCEPT ![i] = r], counters' \in CounterState,
         counters'.active = [counters.active EXCEPT ![i] = a],
         UNCHANGED <<net, cmd, grid>>,
         PublisherGood(i, r, grid[i], l, a), owed' \in Int,
         counters'.skipped < CounterMax =>
           /\ counters.skipped < CounterMax
           /\ owed' = owed + Waiting(r, Period[i]) - Waiting(pub[i], Period[i])
  PROVE  IInv'
<1>1. Whole
  BY Parts
<1>2. i \in {1, 2} /\ counters.active \in [Sockets -> BOOLEAN]
  BY <1>1, Numbers DEF Whole, CounterState
<1>3. /\ counters'.active[0] = counters.active[0] /\ counters'.active[i] = a
      /\ \A j \in Publishers \ {i} : counters'.active[j] = counters.active[j]
  BY <1>2, Numbers DEF Sockets
<1>4. pub' \in [Publishers -> PublisherState] /\ lost' \in [Publishers -> SUBSET Losses]
  BY <1>1 DEF Whole
<1>5. /\ pub'[i] = r /\ \A j \in Publishers \ {i} : pub'[j] = pub[j]
      /\ lost'[i] = l /\ \A j \in Publishers \ {i} : lost'[j] = lost[j]
  BY <1>1 DEF Whole
<1>6. \A j \in Publishers :
        PublisherGood(j, pub'[j], grid'[j], lost'[j], counters'.active[j])
  BY <1>1, <1>3, <1>5 DEF Whole
<1>7. CommandGood(cmd', counters'.active[0])
  BY <1>1, <1>3 DEF Whole
<1>8. ASSUME counters'.skipped < CounterMax
      PROVE  owed' = Owing(1)' + Owing(2)'
  <2>1. counters.skipped < CounterMax /\ owed = Owing(1) + Owing(2)
        /\ owed' = owed + Waiting(r, Period[i]) - Waiting(pub[i], Period[i])
    BY <1>1, <1>8 DEF Whole
  <2>2. Owing(i) = Waiting(pub[i], Period[i]) /\ Owing(i)' = Waiting(r, Period[i])
    BY <1>5 DEF Owing
  <2>3. \A j \in {1, 2} \ {i} : Owing(j)' = Owing(j)
    BY <1>5 DEF Owing
  <2>4. Owing(1) \in Nat /\ Owing(2) \in Nat
    BY <1>1, OwingTyped
  <2>5. Waiting(r, Period[i]) \in Nat
    <3>1. r.until <= Period[i] /\ Period[i] \in Nat \ {0}
      BY Numbers DEF PublisherGood
    <3> QED BY <3>1, WaitingTyped
  <2> QED BY <1>2, <2>1, <2>2, <2>3, <2>4, <2>5
<1> QED BY <1>1, <1>4, <1>6, <1>7, <1>8, Parts DEF Whole

\* The slots a late publisher skips, and the bit they set.
LEMMA SkipsCounted ==
  ASSUME NEW c \in CounterState, NEW s \in Sockets, NEW n \in Nat
  PROVE  /\ CountSkipped(c, s, n) \in CounterState
         /\ CountSkipped(c, s, n).skipped = SatAdd(c.skipped, n)
         /\ CountSkipped(c, s, n).active = [c.active EXCEPT ![s] = n > 0 \/ c.active[s]]
<1>1. CASE n > 0
  <2>1. Skip(c, n) \in CounterState /\ Skip(c, n).active = c.active
        /\ Skip(c, n).skipped = SatAdd(c.skipped, n)
    BY Counts
  <2>2. /\ Active(Skip(c, n), s) \in CounterState
        /\ Active(Skip(c, n), s).skipped = Skip(c, n).skipped
        /\ Active(Skip(c, n), s).active = [Skip(c, n).active EXCEPT ![s] = TRUE]
    BY <2>1, Counts
  <2>3. n > 0 \/ c.active[s] <=> TRUE
    BY <1>1
  <2> QED BY <1>1, <2>1, <2>2, <2>3 DEF CountSkipped
<1>2. CASE n = 0
  <2>1. SatAdd(c.skipped, 0) = c.skipped
    BY Saturates DEF CounterState
  <2>2. [c.active EXCEPT ![s] = n > 0 \/ c.active[s]] = c.active
    BY <1>2 DEF CounterState
  <2> QED BY <1>2, <2>1, <2>2 DEF CountSkipped
<1> QED BY <1>1, <1>2
-----------------------------------------------------------------------------
(* Taking a slot.                                                            *)

\* The slot taken is the newest that is due: the next one is that of the grid, and the
\* sequence number has advanced by the slots taken and skipped.
LEMMA SlotTaken ==
  ASSUME Whole, NEW i \in Publishers, pub[i].until <= 0
  PROVE  LET p == TakeDue(pub[i], i)
         IN  /\ p \in PublisherState /\ p.until \in 1..Period[i] /\ DueAt(p.until, Period[i]) = 0
             /\ p.until = grid[i].phase /\ p.sequence % SequenceMod = grid[i].number
             /\ p.sequence = (pub[i].sequence + Skipped(pub[i], i) + 1) % SequenceMod
             /\ p.late = (Skipped(pub[i], i) > 0) /\ p.tx = pub[i].tx /\ p.open = pub[i].open
             /\ p.pc = pub[i].pc
             /\ DueAt(pub[i].until, Period[i]) = Skipped(pub[i], i) + 1
             /\ Skipped(pub[i], i) \in Nat
<1> DEFINE p == TakeDue(pub[i], i)
           n == Skipped(pub[i], i)
<1>1. IInv /\ TypeOK
  BY Parts DEF IInv
<1>2. /\ DueAt(pub[i].until, Period[i]) = n + 1 /\ n \in Nat
      /\ pub[i].until + (n + 1) * Period[i] \in 1..Period[i]
  BY <1>1, DueOfPublisher
<1>3. /\ pub[i] \in PublisherState /\ pub[i].sequence \in 0..SequenceMod - 1
      /\ pub[i].until + (n + 1) * Period[i] = grid[i].phase
      /\ (pub[i].sequence + (n + 1)) % SequenceMod = grid[i].number
  <2>1. pub[i] \in PublisherState /\ PublisherGood(i, pub[i], grid[i], lost[i], counters.active[i])
    BY DEF Whole
  <2>2. pub[i].sequence \in 0..SequenceMod - 1
    BY <2>1 DEF PublisherState
  <2> QED BY <1>2, <2>1, <2>2 DEF PublisherGood
<1>4. /\ p.until = pub[i].until + (n + 1) * Period[i]
      /\ p.sequence = (pub[i].sequence + n + 1) % SequenceMod
      /\ p.late = (n > 0) /\ p.tx = pub[i].tx /\ p.open = pub[i].open /\ p.pc = pub[i].pc
  BY <1>3 DEF TakeDue, PublisherState
<1>5. p.until \in Int /\ (n > 0) \in BOOLEAN
  BY <1>2, <1>4, Numbers
<1>6. pub[i].sequence + n + 1 \in Int /\ pub[i].sequence + n + 1 = pub[i].sequence + (n + 1)
  BY <1>2, <1>3, Numbers
<1>7. (pub[i].sequence + n + 1) % SequenceMod \in 0..(SequenceMod - 1)
  BY <1>6, Numbers, Division
<1>8. p \in PublisherState
  BY <1>3, <1>5, <1>7 DEF TakeDue, PublisherState
<1>9. p.sequence % SequenceMod = p.sequence
  <2> DEFINE m == pub[i].sequence + n + 1
  <2>1. m \in Int /\ SequenceMod \in Nat \ {0} /\ m % SequenceMod \in 0..(SequenceMod - 1)
        /\ p.sequence = m % SequenceMod
    BY <1>4, <1>6, <1>7, Numbers
  <2> HIDE DEF m, p
  <2>2. (m % SequenceMod) % SequenceMod = m % SequenceMod
    BY <2>1, RemainderKept
  <2> QED BY <2>1, <2>2
<1>10. DueAt(p.until, Period[i]) = 0
  BY <1>2, <1>4 DEF DueAt
<1> HIDE DEF p, n
<1> QED BY <1>2, <1>3, <1>4, <1>6, <1>8, <1>9, <1>10 DEF p, n

\* Whatever becomes of the sample, a slot taken stays on the grid and is accounted for if
\* the slots neither sent nor queued are counted as skipped.
LEMMA SlotStep ==
  ASSUME IInv, NEW i \in Publishers, NEW r \in PublisherState, NEW a \in BOOLEAN,
         NEW n \in Nat, NEW l \in SUBSET Losses, lost' = [lost EXCEPT ![i] = l],
         pub[i].pc # "flush", pub[i].until <= 0,
         pub' = [pub EXCEPT ![i] = r], Settle(0), UNCHANGED <<net, cmd, grid>>,
         r.until = TakeDue(pub[i], i).until, r.sequence = TakeDue(pub[i], i).sequence,
         counters' \in CounterState, counters'.active = [counters.active EXCEPT ![i] = a],
         counters'.skipped = SatAdd(counters.skipped, n),
         n + Len(r.tx) = Skipped(pub[i], i) + 1,
         r.pc = "flush" => r.open,
         r.tx # <<>> => r.pc = "flush" /\ (r.tx[1] + 1) % SequenceMod = r.sequence,
         "behind" \in l <=> r.pc = "flush" /\ r.late, a <=> l # {}
  PROVE  IInv'
<1>1. Whole
  BY Parts
<1>2. /\ r.until \in 1..Period[i] /\ DueAt(r.until, Period[i]) = 0
      /\ r.until = grid[i].phase /\ r.sequence % SequenceMod = grid[i].number
      /\ DueAt(pub[i].until, Period[i]) = Skipped(pub[i], i) + 1
      /\ Skipped(pub[i], i) \in Nat
  BY <1>1, SlotTaken
<1>3. Period[i] \in Nat \ {0} /\ r.sequence \in Int /\ SequenceMod \in Nat \ {0}
  BY Numbers DEF PublisherState
<1>4. PublisherGood(i, r, grid[i], l, a)
  <2>1. r.until \in -MaxLate..Period[i] /\ grid[i].phase \in 1..Period[i]
    BY <1>1, <1>2, Numbers DEF Whole, PublisherGood
  <2>2. r.until + DueAt(r.until, Period[i]) * Period[i] = grid[i].phase
    BY <1>2, <1>3
  <2>3. (r.sequence + DueAt(r.until, Period[i])) % SequenceMod = grid[i].number
    BY <1>2, <1>3
  <2> QED BY <2>1, <2>2, <2>3 DEF PublisherGood
<1>5. counters.skipped \in CounterRange /\ counters'.skipped \in CounterRange /\ owed \in Int
      /\ CounterMax \in Nat
  BY <1>1, Numbers DEF Whole, CounterState
<1>6. owed' \in Int
  BY <1>5 DEF Settle, CounterRange
<1>7. Len(pub[i].tx) = 0 /\ Len(r.tx) \in Nat
  <2>1. pub[i].tx = <<>>
    BY <1>1 DEF Whole, PublisherGood
  <2>2. r.until \in Int /\ r.until <= Period[i]
    BY <1>2, <1>3
  <2>3. Len(r.tx) \in Nat
    BY <1>3, <2>2, WaitingTyped
  <2> QED BY <2>1, <2>3
<1>8. ASSUME counters'.skipped < CounterMax
      PROVE  /\ counters.skipped < CounterMax
             /\ owed' = owed + Waiting(r, Period[i]) - Waiting(pub[i], Period[i])
  <2>1. counters.skipped < CounterMax /\ counters'.skipped = counters.skipped + n
    BY <1>5, <1>8, Saturates
  <2>2. owed' = owed - n
    BY <1>5, <1>8, <2>1 DEF Settle, CounterRange
  <2>3. Waiting(r, Period[i]) = Len(r.tx) /\ Waiting(pub[i], Period[i]) = Skipped(pub[i], i) + 1
    BY <1>2, <1>7 DEF Waiting
  <2> QED BY <1>2, <1>5, <1>7, <2>1, <2>2, <2>3
<1> HIDE DEF Settle
<1> QED BY <1>4, <1>6, <1>8, PublisherStep
-----------------------------------------------------------------------------
(* The actions of a publication task.                                        *)

LEMMA HeadOf ==
  ASSUME NEW p \in PublisherState
  PROVE  /\ AtHead(p) \in PublisherState
         /\ AtHead(p).until = p.until /\ AtHead(p).sequence = p.sequence
         /\ AtHead(p).late = p.late
         /\ Ready => AtHead(p).pc = "select" /\ AtHead(p).open = p.open /\ AtHead(p).tx = p.tx
         /\ ~Ready => AtHead(p).pc = "asleep" /\ ~AtHead(p).open /\ AtHead(p).tx = <<>>
BY DEF AtHead, PublisherState

LEMMA SocketOf == \A i \in Publishers : i \in Sockets /\ i # 0
BY Numbers DEF Sockets

LEMMA LinkLostKeeps ==
  ASSUME IInv, NEW i \in Publishers, LinkLost(i)  PROVE  IInv'
<1> DEFINE r == AtHead(pub[i])
<1>1. Whole /\ i \in Sockets
  BY Parts, SocketOf
<1>2. /\ pub[i] \in PublisherState /\ counters \in CounterState /\ owed \in Int
      /\ pub[i].until \in Int /\ pub[i].tx = <<>> /\ pub[i].pc = "select"
      /\ PublisherGood(i, pub[i], grid[i], lost[i], counters.active[i])
  BY <1>1 DEF Whole, PublisherGood, PublisherState, LinkLost
<1>3. /\ r \in PublisherState /\ r.until = pub[i].until /\ r.sequence = pub[i].sequence
      /\ r.tx = <<>> /\ r.pc = "asleep"
  BY <1>2, HeadOf DEF LinkLost
<1>4. /\ counters' \in CounterState /\ counters'.skipped = counters.skipped
      /\ counters'.active = [counters.active EXCEPT ![i] = TRUE]
  BY <1>1, <1>2, Counts DEF LinkLost
<1>5. /\ pub' = [pub EXCEPT ![i] = r] /\ UNCHANGED <<net, cmd, grid>> /\ owed' = owed
      /\ owed' \in Int /\ lost' = [lost EXCEPT ![i] = {"earlier"}]
  BY <1>2 DEF LinkLost
<1>6. Waiting(r, Period[i]) = Waiting(pub[i], Period[i]) /\ Waiting(r, Period[i]) \in Nat
  <2>1. pub[i].until <= Period[i] /\ Period[i] \in Nat \ {0}
    BY <1>2, Numbers DEF PublisherGood
  <2>2. Waiting(r, Period[i]) \in Nat
    BY <1>3, <2>1, WaitingTyped
  <2> QED BY <1>2, <1>3, <2>2 DEF Waiting
<1>7. PublisherGood(i, r, grid[i], {"earlier"}, TRUE)
  BY <1>2, <1>3 DEF PublisherGood
<1> HIDE DEF r
<1>8. owed' = owed + Waiting(r, Period[i]) - Waiting(pub[i], Period[i])
      /\ {"earlier"} \in SUBSET Losses
  BY <1>2, <1>5, <1>6 DEF Losses
<1> QED BY <1>3, <1>4, <1>5, <1>7, <1>8, PublisherStep

\* What the slot actions share.
LEMMA SlotFacts ==
  ASSUME IInv, NEW i \in Publishers, pub[i].pc \in {"select", "asleep"}, pub[i].until <= 0
  PROVE  /\ i \in Sockets /\ counters \in CounterState /\ counters.active[i] \in BOOLEAN
         /\ Skipped(pub[i], i) \in Nat /\ pub[i].pc # "flush"
         /\ lost[i] \in SUBSET Losses /\ "behind" \notin lost[i]
         /\ (counters.active[i] <=> lost[i] # {})
         /\ TakeDue(pub[i], i) \in PublisherState
         /\ TakeDue(pub[i], i).tx = <<>> /\ TakeDue(pub[i], i).pc # "flush"
         /\ TakeDue(pub[i], i).late = (Skipped(pub[i], i) > 0)
         /\ TakeDue(pub[i], i).sequence
            = (pub[i].sequence + Skipped(pub[i], i) + 1) % SequenceMod
<1>1. Whole /\ i \in Sockets
  BY Parts, SocketOf
<1>2. /\ pub[i].tx = <<>> /\ counters \in CounterState
      /\ lost[i] \in SUBSET Losses /\ "behind" \notin lost[i]
      /\ (counters.active[i] <=> lost[i] # {})
  BY <1>1 DEF Whole, PublisherGood
<1>3. counters.active[i] \in BOOLEAN
  BY <1>1, <1>2 DEF CounterState
<1> QED BY <1>1, <1>2, <1>3, SlotTaken

LEMMA TakeUnreadyKeeps ==
  ASSUME IInv, NEW i \in Publishers, TakeUnready(i)  PROVE  IInv'
<1> DEFINE p == TakeDue(pub[i], i)
           r == AtHead(p)
           n == Skipped(pub[i], i) + 1
           c == CountSkipped(counters, i, n)
<1>1. /\ ~Ready /\ pub[i].pc \in {"select", "asleep"} /\ pub[i].until <= 0
      /\ pub' = [pub EXCEPT ![i] = r] /\ counters' = c /\ Settle(0)
      /\ UNCHANGED <<net, cmd, grid>> /\ lost' = [lost EXCEPT ![i] = {"earlier"}]
  BY DEF TakeUnready, Counted, Slot
<1>2. /\ i \in Sockets /\ counters \in CounterState /\ pub[i].pc # "flush"
      /\ n \in Nat /\ n > 0 /\ p \in PublisherState
  BY <1>1, SlotFacts
<1> HIDE DEF p
<1>3. /\ r \in PublisherState /\ r.until = p.until /\ r.sequence = p.sequence
      /\ r.pc = "asleep" /\ r.tx = <<>>
  BY <1>1, <1>2, HeadOf
<1> HIDE DEF n
<1>4. /\ counters' \in CounterState /\ counters'.skipped = SatAdd(counters.skipped, n)
      /\ counters'.active = [counters.active EXCEPT ![i] = TRUE]
  <2>1. n > 0 \/ counters.active[i] <=> TRUE
    BY <1>2
  <2> QED BY <1>1, <1>2, <2>1, SkipsCounted
<1>5. n + Len(r.tx) = Skipped(pub[i], i) + 1
  BY <1>2, <1>3 DEF n
<1>6. r.until = TakeDue(pub[i], i).until /\ r.sequence = TakeDue(pub[i], i).sequence
  BY <1>3 DEF p
<1>7. {"earlier"} \in SUBSET Losses /\ "behind" \notin {"earlier"}
  BY DEF Losses
<1> HIDE DEF r, c, Settle
<1> QED BY <1>1, <1>2, <1>3, <1>4, <1>5, <1>6, <1>7, SlotStep

LEMMA EncodeFailsKeeps ==
  ASSUME IInv, NEW i \in Publishers, EncodeFails(i)  PROVE  IInv'
<1> DEFINE p == TakeDue(pub[i], i)
           q == [p EXCEPT !.open = TRUE]
           r == AtHead(q)
           n == Skipped(pub[i], i) + 1
           c == CountSkipped(counters, i, n)
<1>1. /\ Ready /\ pub[i].pc \in {"select", "asleep"} /\ pub[i].until <= 0
      /\ pub' = [pub EXCEPT ![i] = r] /\ counters' = c /\ Settle(0)
      /\ UNCHANGED <<net, cmd, grid>> /\ lost' = [lost EXCEPT ![i] = {"earlier"}]
  BY DEF EncodeFails, Counted, Slot
<1>2. /\ i \in Sockets /\ counters \in CounterState /\ pub[i].pc # "flush"
      /\ n \in Nat /\ n > 0 /\ p \in PublisherState /\ p.tx = <<>>
  BY <1>1, SlotFacts
<1> HIDE DEF p
<1>3. /\ q \in PublisherState /\ q.until = p.until /\ q.sequence = p.sequence
      /\ q.open /\ q.tx = <<>>
  BY <1>2 DEF PublisherState
<1> HIDE DEF q
<1>4. /\ r \in PublisherState /\ r.until = p.until /\ r.sequence = p.sequence
      /\ r.pc = "select" /\ r.tx = <<>> /\ r.open
  BY <1>1, <1>3, HeadOf
<1> HIDE DEF n
<1>5. /\ counters' \in CounterState /\ counters'.skipped = SatAdd(counters.skipped, n)
      /\ counters'.active = [counters.active EXCEPT ![i] = TRUE]
  <2>1. n > 0 \/ counters.active[i] <=> TRUE
    BY <1>2
  <2> QED BY <1>1, <1>2, <2>1, SkipsCounted
<1>6. n + Len(r.tx) = Skipped(pub[i], i) + 1
  BY <1>2, <1>4 DEF n
<1>7. r.until = TakeDue(pub[i], i).until /\ r.sequence = TakeDue(pub[i], i).sequence
  BY <1>4 DEF p
<1>8. {"earlier"} \in SUBSET Losses /\ "behind" \notin {"earlier"}
  BY DEF Losses
<1> HIDE DEF r, c, Settle
<1> QED BY <1>1, <1>2, <1>4, <1>5, <1>6, <1>7, <1>8, SlotStep

LEMMA RefusedKeeps ==
  ASSUME IInv, NEW i \in Publishers, Refused(i)  PROVE  IInv'
<1> DEFINE p == TakeDue(pub[i], i)
           q == Undrained(p)
           r == AtHead(q)
           n == Skipped(pub[i], i) + 1
           c == CountSkipped(counters, i, n)
<1>1. /\ Ready /\ pub[i].pc \in {"select", "asleep"} /\ pub[i].until <= 0
      /\ pub' = [pub EXCEPT ![i] = r] /\ counters' = Sent(c, i, FALSE) /\ Settle(0)
      /\ UNCHANGED <<net, cmd, grid>> /\ lost' = [lost EXCEPT ![i] = {"earlier"}]
  BY DEF Refused, Counted, Slot
<1>2. /\ i \in Sockets /\ counters \in CounterState /\ pub[i].pc # "flush"
      /\ n \in Nat /\ p \in PublisherState
  BY <1>1, SlotFacts
<1> HIDE DEF p
<1>3. /\ q \in PublisherState /\ q.until = p.until /\ q.sequence = p.sequence /\ q.tx = <<>>
  BY <1>2 DEF Undrained, PublisherState
<1> HIDE DEF q
<1>4. /\ r \in PublisherState /\ r.until = p.until /\ r.sequence = p.sequence
      /\ r.pc = "select" /\ r.tx = <<>>
  BY <1>1, <1>3, HeadOf
<1> HIDE DEF n
<1>5. /\ counters' \in CounterState /\ counters'.skipped = SatAdd(counters.skipped, n)
      /\ counters'.active = [counters.active EXCEPT ![i] = TRUE]
  <2>1. /\ c \in CounterState /\ c.skipped = SatAdd(counters.skipped, n)
        /\ c.active = [counters.active EXCEPT ![i] = n > 0 \/ counters.active[i]]
    BY <1>2, SkipsCounted
  <2> HIDE DEF c
  <2>2. /\ Sent(c, i, FALSE) \in CounterState /\ Sent(c, i, FALSE).skipped = c.skipped
        /\ Sent(c, i, FALSE).active = [c.active EXCEPT ![i] = TRUE]
    BY <1>2, <2>1, Counts
  <2>3. [c.active EXCEPT ![i] = TRUE] = [counters.active EXCEPT ![i] = TRUE]
    BY <1>2, <2>1 DEF CounterState
  <2> QED BY <1>1, <2>1, <2>2, <2>3
<1>6. n + Len(r.tx) = Skipped(pub[i], i) + 1
  BY <1>2, <1>4 DEF n
<1>7. r.until = TakeDue(pub[i], i).until /\ r.sequence = TakeDue(pub[i], i).sequence
  BY <1>4 DEF p
<1>8. {"earlier"} \in SUBSET Losses /\ "behind" \notin {"earlier"}
  BY DEF Losses
<1> HIDE DEF r, c, Settle
<1> QED BY <1>1, <1>2, <1>4, <1>5, <1>6, <1>7, <1>8, SlotStep

LEMMA OfferKeeps ==
  ASSUME IInv, NEW i \in Publishers, Offer(i)  PROVE  IInv'
<1> DEFINE p == TakeDue(pub[i], i)
           n == Skipped(pub[i], i)
           sample == (pub[i].sequence + n) % SequenceMod
           d == Least(Period[i], DrainLimit)
           r == [p EXCEPT !.open = TRUE, !.pc = "flush", !.tx = <<sample>>, !.drain = d]
           c == CountSkipped(counters, i, n)
           l == IF n > 0 THEN lost[i] \union {"behind"} ELSE lost[i]
<1>1. /\ pub[i].pc \in {"select", "asleep"} /\ pub[i].until <= 0
      /\ pub' = [pub EXCEPT ![i] = r] /\ counters' = CountSkipped(counters, i, n + 0)
      /\ Settle(0) /\ UNCHANGED <<net, cmd, grid>> /\ lost' = [lost EXCEPT ![i] = l]
  BY DEF Offer, Counted, Slot
<1>2. /\ i \in Sockets /\ counters \in CounterState /\ pub[i].pc # "flush"
      /\ n \in Nat /\ p \in PublisherState /\ n + 0 = n /\ counters.active[i] \in BOOLEAN
      /\ p.sequence = (pub[i].sequence + n + 1) % SequenceMod /\ p.late = (n > 0)
      /\ lost[i] \in SUBSET Losses /\ "behind" \notin lost[i]
      /\ (counters.active[i] <=> lost[i] # {})
  BY <1>1, SlotFacts
<1>3. pub[i].sequence + n \in Int /\ SequenceMod \in Nat \ {0}
  <2>1. pub[i] \in PublisherState
    BY Parts DEF Whole
  <2> QED BY <1>2, <2>1, Numbers DEF PublisherState
<1>4. /\ sample \in 0..SequenceMod - 1
      /\ (sample + 1) % SequenceMod = (pub[i].sequence + n + 1) % SequenceMod
  <2> DEFINE m == pub[i].sequence + n
  <2>1. m \in Int
    BY <1>3
  <2> HIDE DEF m
  <2>2. m % SequenceMod \in 0..(SequenceMod - 1)
    BY <1>3, <2>1, Division
  <2>3. \A k \in Int : ((m % SequenceMod) + k) % SequenceMod = (m + k) % SequenceMod
    BY <1>3, <2>1, RemainderAdded
  <2>4. ((m % SequenceMod) + 1) % SequenceMod = (m + 1) % SequenceMod
    BY <2>3
  <2> QED BY <1>3, <2>2, <2>4 DEF m
<1>5. d \in 0..DrainLimit
  BY Numbers DEF Least
<1> HIDE DEF p, sample, d
<1>6. r \in PublisherState
  BY <1>2, <1>4, <1>5 DEF PublisherState
<1>7. /\ r.until = p.until /\ r.sequence = p.sequence /\ r.pc = "flush" /\ r.open
      /\ r.tx = <<sample>> /\ r.late = p.late
  BY <1>2 DEF PublisherState
<1> HIDE DEF n, r
<1>8. /\ counters' \in CounterState /\ counters'.skipped = SatAdd(counters.skipped, n)
      /\ counters'.active = [counters.active EXCEPT ![i] = n > 0 \/ counters.active[i]]
  BY <1>1, <1>2, SkipsCounted
<1>9. n + Len(r.tx) = Skipped(pub[i], i) + 1 /\ r.tx[1] = sample
  BY <1>2, <1>7 DEF n
<1>10. r.until = TakeDue(pub[i], i).until /\ r.sequence = TakeDue(pub[i], i).sequence
  BY <1>7 DEF p
<1>11. r.tx # <<>> => r.pc = "flush" /\ (r.tx[1] + 1) % SequenceMod = r.sequence
  BY <1>2, <1>4, <1>7, <1>9
<1>12. (n > 0 \/ counters.active[i]) \in BOOLEAN
  OBVIOUS
<1>13. l \in SUBSET Losses /\ ("behind" \in l <=> n > 0)
  BY <1>2 DEF Losses
<1>14. "behind" \in l <=> r.pc = "flush" /\ r.late
  BY <1>2, <1>7, <1>13
<1>15. n > 0 \/ counters.active[i] <=> l # {}
  BY <1>2
<1> HIDE DEF Settle, l
<1> QED BY <1>1, <1>2, <1>6, <1>7, <1>8, <1>9, <1>10, <1>11, <1>12, <1>13, <1>14, <1>15,
           SlotStep

\* The end of a send: the record keeps its slot; what is not sent is counted as skipped.
LEMMA EndOfSend ==
  ASSUME IInv, NEW i \in Publishers, NEW q \in PublisherState, NEW a \in BOOLEAN,
         q.until = pub[i].until, q.sequence = pub[i].sequence, q.tx = <<>>,
         pub' = [pub EXCEPT ![i] = AtHead(q)], UNCHANGED <<net, cmd, grid>>,
         NEW l \in SUBSET {"earlier"}, lost' = [lost EXCEPT ![i] = l], a <=> l # {},
         counters' \in CounterState, counters'.active = [counters.active EXCEPT ![i] = a],
         counters'.skipped = SatAdd(counters.skipped, Len(pub[i].tx)),
         pub[i].tx = <<>> => owed' = owed, pub[i].tx # <<>> => Settle(0)
  PROVE  IInv'
<1> DEFINE r == AtHead(q)
           change == Len(pub[i].tx)
<1>1. Whole
  BY Parts
<1>2. /\ counters.skipped \in CounterRange /\ counters'.skipped \in CounterRange
      /\ owed \in Int /\ CounterMax \in Nat
      /\ PublisherGood(i, pub[i], grid[i], lost[i], counters.active[i])
      /\ change \in Nat /\ (pub[i].tx = <<>> => change = 0)
  BY <1>1, Numbers DEF Whole, CounterState, PublisherState
<1>3. /\ r \in PublisherState /\ r.until = pub[i].until /\ r.sequence = pub[i].sequence
      /\ r.tx = <<>> /\ r.pc # "flush"
      /\ l \in SUBSET Losses /\ "behind" \notin l
  BY HeadOf DEF Losses
<1> HIDE DEF r
<1>4. PublisherGood(i, r, grid[i], l, a)
  BY <1>2, <1>3 DEF PublisherGood
<1>5. owed' \in Int
  BY <1>2 DEF Settle, CounterRange
<1>6. Waiting(r, Period[i]) = Waiting(pub[i], Period[i]) - change
      /\ Waiting(pub[i], Period[i]) \in Nat
  <2>1. Waiting(pub[i], Period[i]) \in Nat
    BY <1>1, OwingTyped
  <2>2. DueAt(pub[i].until, Period[i]) \in Nat
    <3>1. pub[i].until \in Int /\ pub[i].until <= Period[i] /\ Period[i] \in Nat \ {0}
      BY <1>2, Numbers DEF PublisherGood
    <3> QED BY <3>1, DueTyped
  <2> QED BY <1>3, <2>1, <2>2 DEF Waiting
<1>7. ASSUME counters'.skipped < CounterMax
      PROVE  /\ counters.skipped < CounterMax
             /\ owed' = owed + Waiting(r, Period[i]) - Waiting(pub[i], Period[i])
  <2>1. counters.skipped < CounterMax /\ counters'.skipped = counters.skipped + change
    BY <1>2, <1>7, Saturates
  <2>2. owed' = owed - change
    BY <1>2, <1>7, <2>1 DEF Settle, CounterRange
  <2> QED BY <1>2, <1>6, <2>1, <2>2
<1>8. pub' = [pub EXCEPT ![i] = r]
  BY DEF r
<1> QED BY <1>3, <1>4, <1>5, <1>7, <1>8, PublisherStep

LEMMA DrainedKeeps ==
  ASSUME IInv, NEW i \in Publishers, Drained(i)  PROVE  IInv'
<1> DEFINE c == Sent(counters, i, TRUE)
<1>1. Whole /\ i \in Sockets
  BY Parts, SocketOf
<1>2. /\ pub[i] \in PublisherState /\ counters \in CounterState
      /\ pub[i].pc = "flush" /\ pub[i].tx = <<>> /\ pub[i].open /\ pub[i].late \in BOOLEAN
      /\ counters.skipped \in CounterRange /\ ("behind" \in lost[i] <=> pub[i].late)
      /\ lost \in [Publishers -> SUBSET Losses]
  BY <1>1 DEF Whole, PublisherGood, PublisherState, CounterState, Drained
<1>3. /\ c \in CounterState /\ c.skipped = counters.skipped
      /\ c.active = [counters.active EXCEPT ![i] = FALSE]
  BY <1>1, <1>2, Counts
<1> HIDE DEF c
<1>4. counters' = IF pub[i].late THEN Active(c, i) ELSE c
  BY DEF Drained, Published, c
<1>5. /\ counters' \in CounterState /\ counters'.skipped = counters.skipped
      /\ counters'.active = [counters.active EXCEPT ![i] = pub[i].late]
  <2>1. /\ Active(c, i) \in CounterState /\ Active(c, i).skipped = c.skipped
        /\ Active(c, i).active = [c.active EXCEPT ![i] = TRUE]
    BY <1>1, <1>3, Counts
  <2>2. [c.active EXCEPT ![i] = TRUE] = [counters.active EXCEPT ![i] = TRUE]
    BY <1>1, <1>2, <1>3 DEF CounterState
  <2> QED BY <1>2, <1>3, <1>4, <2>1, <2>2
<1>6. SatAdd(counters.skipped, 0) = counters.skipped
  BY <1>2, Saturates
<1>7. /\ pub' = [pub EXCEPT ![i] = AtHead(pub[i])] /\ UNCHANGED <<net, cmd, grid>>
      /\ owed' = owed
  BY DEF Drained, Published
<1> DEFINE l == IF pub[i].late THEN {"earlier"} ELSE {}
<1>8. Len(pub[i].tx) = 0 /\ l \in SUBSET {"earlier"} /\ (pub[i].late <=> l # {})
  BY <1>2
<1>9. lost' = [lost EXCEPT ![i] = l]
  BY <1>2 DEF Drained, Published
<1> HIDE DEF Settle, l
<1> QED BY <1>2, <1>5, <1>6, <1>7, <1>8, <1>9, EndOfSend

LEMMA DrainFailsKeeps ==
  ASSUME IInv, NEW i \in Publishers, DrainFails(i)  PROVE  IInv'
<1> DEFINE c == Sent(counters, i, FALSE)
           d == Skip(c, 1)
           q == Undrained(pub[i])
<1>1. Whole /\ i \in Sockets
  BY Parts, SocketOf
<1>2. /\ pub[i] \in PublisherState /\ counters \in CounterState
      /\ pub[i].tx # <<>> /\ Len(pub[i].tx) = 1 /\ counters.skipped \in CounterRange
  BY <1>1 DEF Whole, PublisherState, CounterState, DrainFails
<1>3. /\ c \in CounterState /\ c.skipped = counters.skipped
      /\ c.active = [counters.active EXCEPT ![i] = TRUE]
  BY <1>1, <1>2, Counts
<1> HIDE DEF c
<1>4. /\ d \in CounterState /\ d.skipped = SatAdd(counters.skipped, 1)
      /\ d.active = [counters.active EXCEPT ![i] = TRUE]
  <2>1. \A n \in Nat : /\ Skip(c, n) \in CounterState /\ Skip(c, n).active = c.active
                       /\ Skip(c, n).skipped = SatAdd(c.skipped, n)
    BY <1>1, <1>3, Counts
  <2> QED BY <1>3, <2>1
<1> HIDE DEF d
<1>5. counters' = IF pub[i].late THEN Active(d, i) ELSE d
  BY DEF DrainFails, Published, c, d
<1>6. /\ counters' \in CounterState /\ counters'.skipped = SatAdd(counters.skipped, 1)
      /\ counters'.active = [counters.active EXCEPT ![i] = TRUE]
  <2>1. /\ Active(d, i) \in CounterState /\ Active(d, i).skipped = d.skipped
        /\ Active(d, i).active = [d.active EXCEPT ![i] = TRUE]
    BY <1>1, <1>4, Counts
  <2>2. [d.active EXCEPT ![i] = TRUE] = [counters.active EXCEPT ![i] = TRUE]
    BY <1>1, <1>2, <1>4 DEF CounterState
  <2> QED BY <1>4, <1>5, <2>1, <2>2
<1>7. /\ q \in PublisherState /\ q.until = pub[i].until /\ q.sequence = pub[i].sequence
      /\ q.tx = <<>>
  BY <1>2 DEF Undrained, PublisherState
<1>8. /\ pub' = [pub EXCEPT ![i] = AtHead(q)] /\ UNCHANGED <<net, cmd, grid>> /\ Settle(0)
      /\ lost' = [lost EXCEPT ![i] = {"earlier"}]
  BY DEF DrainFails, Published
<1> HIDE DEF q, Settle
<1> QED BY <1>2, <1>6, <1>7, <1>8, EndOfSend

LEMMA TransmitSampleKeeps ==
  ASSUME IInv, NEW i \in Publishers, TransmitSample(i)  PROVE  IInv'
<1> DEFINE r == [pub[i] EXCEPT !.tx = <<>>]
<1>1. Whole
  BY Parts
<1>2. /\ pub[i] \in PublisherState /\ counters \in CounterState /\ owed \in Int
      /\ counters.skipped \in CounterRange /\ CounterMax \in Nat
      /\ counters.active = [counters.active EXCEPT ![i] = counters.active[i]]
      /\ counters.active[i] \in BOOLEAN
      /\ PublisherGood(i, pub[i], grid[i], lost[i], counters.active[i])
      /\ pub[i].tx # <<>> /\ Len(pub[i].tx) = 1
      /\ lost[i] \in SUBSET Losses /\ lost = [lost EXCEPT ![i] = lost[i]]
  BY <1>1, Numbers, SocketOf DEF Whole, CounterState, PublisherState, TransmitSample
<1>3. /\ r \in PublisherState /\ r.tx = <<>> /\ r.until = pub[i].until
      /\ r.sequence = pub[i].sequence /\ r.pc = pub[i].pc /\ r.late = pub[i].late
      /\ r.open = pub[i].open
  BY <1>2 DEF PublisherState
<1>4. /\ pub' = [pub EXCEPT ![i] = r] /\ UNCHANGED <<net, cmd, counters, grid, lost>>
      /\ owed' = IF counters.skipped = CounterMax THEN 0 ELSE owed - 1
  BY DEF TransmitSample
<1> HIDE DEF r
<1>5. PublisherGood(i, r, grid[i], lost[i], counters.active[i])
  BY <1>2, <1>3 DEF PublisherGood
<1>6. Waiting(r, Period[i]) = Waiting(pub[i], Period[i]) - 1
      /\ Waiting(pub[i], Period[i]) \in Nat
  <2>1. Waiting(pub[i], Period[i]) \in Nat
    BY <1>1, OwingTyped
  <2>2. DueAt(pub[i].until, Period[i]) \in Nat
    <3>1. pub[i].until \in Int /\ pub[i].until <= Period[i] /\ Period[i] \in Nat \ {0}
      BY <1>2, Numbers DEF PublisherGood
    <3> QED BY <3>1, DueTyped
  <2> QED BY <1>2, <1>3, <2>1, <2>2 DEF Waiting
<1>7. owed' \in Int /\ (counters'.skipped < CounterMax =>
        owed' = owed + Waiting(r, Period[i]) - Waiting(pub[i], Period[i]))
  BY <1>2, <1>4, <1>6 DEF CounterRange
<1> QED BY <1>2, <1>3, <1>4, <1>5, <1>7, PublisherStep
-----------------------------------------------------------------------------
(* The actions of the command task and of the stack.                         *)

LEMMA CommandStep ==
  ASSUME IInv, NEW a \in BOOLEAN,
         CommandGood(cmd', a),
         counters' \in CounterState, counters'.skipped = counters.skipped,
         counters'.active = [counters.active EXCEPT ![0] = a],
         net' \in [link : BOOLEAN, address : Addresses \union {None}],
         UNCHANGED <<pub, grid, owed, lost>>
  PROVE  IInv'
<1>1. Whole
  BY Parts
<1>2. counters.active \in [Sockets -> BOOLEAN]
  BY <1>1 DEF Whole, CounterState
<1>3. counters'.active[0] = a /\ \A i \in Publishers : counters'.active[i] = counters.active[i]
  BY <1>2, SocketOf DEF Sockets
<1>4. Owing(1)' = Owing(1) /\ Owing(2)' = Owing(2)
  BY DEF Owing
<1>5. \A i \in Publishers : PublisherGood(i, pub'[i], grid'[i], lost'[i], counters'.active[i])
  BY <1>1, <1>3 DEF Whole
<1> QED BY <1>1, <1>3, <1>4, <1>5, Parts DEF Whole

\* What the command task is before a step.
LEMMA CommandFacts ==
  ASSUME IInv
  PROVE  /\ cmd \in CommandState /\ Len(cmd.rx) <= QueueLength /\ Len(cmd.rx) \in Nat
         /\ cmd.rx \in Seq(Arrivals)
         /\ cmd.tx \in Seq({"accept", "error"})
         /\ cmd.pc # "head" => cmd.open
         /\ cmd.tx # <<>> => cmd.pc = "flush" /\ Len(cmd.tx) = 1
         /\ ~cmd.open => counters.active[0]
         /\ counters \in CounterState /\ 0 \in Sockets /\ counters.active[0] \in BOOLEAN
         /\ counters.active = [counters.active EXCEPT ![0] = counters.active[0]]
         /\ net \in [link : BOOLEAN, address : Addresses \union {None}]
<1>1. Whole /\ CommandGood(cmd, counters.active[0])
  BY Parts DEF Whole
<1>2. cmd \in CommandState
  BY <1>1 DEF CommandGood
<1>3. cmd.rx \in Seq(Arrivals) /\ cmd.tx \in Seq({"accept", "error"})
  BY <1>2 DEF CommandState
<1>4. Len(cmd.rx) \in Nat
  BY <1>3
<1>5. counters \in CounterState /\ 0 \in Sockets /\ counters.active \in [Sockets -> BOOLEAN]
  BY <1>1 DEF Whole, CounterState, Sockets
<1> QED BY <1>1, <1>2, <1>3, <1>4, <1>5 DEF Whole, CommandGood

LEMMA ClosedGood ==
  ASSUME IInv
  PROVE  CommandGood(CommandsClosed, TRUE)
<1>1. cmd \in CommandState
  BY CommandFacts
<1>2. CommandsClosed \in CommandState /\ CommandsClosed.rx = <<>> /\ CommandsClosed.tx = <<>>
      /\ CommandsClosed.pc = "head"
  <2>1. <<>> \in Seq(Arrivals) /\ <<>> \in Seq({"accept", "error"})
    BY EmptySeq
  <2> QED BY <1>1, <2>1 DEF CommandsClosed, CommandState
<1>3. Len(CommandsClosed.rx) <= QueueLength
  BY <1>2, Numbers
<1> QED BY <1>2, <1>3 DEF CommandGood

LEMMA CommandsDownKeeps ==
  ASSUME IInv, CommandsDown  PROVE  IInv'
<1>1. CommandGood(cmd', TRUE)
  BY ClosedGood DEF CommandsDown
<1>2. counters' \in CounterState /\ counters'.skipped = counters.skipped
      /\ counters'.active = [counters.active EXCEPT ![0] = TRUE]
  BY CommandFacts, Counts DEF CommandsDown
<1> QED BY <1>1, <1>2, CommandFacts, CommandStep DEF CommandsDown

LEMMA ListenKeeps ==
  ASSUME IInv, Listen  PROVE  IInv'
<1>1. cmd' \in CommandState /\ cmd'.rx = cmd.rx /\ cmd'.tx = cmd.tx /\ cmd'.open
  BY CommandFacts DEF Listen, CommandState
<1>2. CommandGood(cmd', counters.active[0])
  BY <1>1, CommandFacts DEF Listen, CommandGood
<1> QED BY <1>2, CommandFacts, CommandStep DEF Listen

LEMMA RepliedKeeps ==
  ASSUME IInv, Replied  PROVE  IInv'
<1>1. cmd' \in CommandState /\ cmd'.rx = cmd.rx /\ cmd'.tx = cmd.tx /\ cmd'.open = cmd.open
      /\ cmd.open
  BY CommandFacts DEF Replied, CommandState
<1>2. CommandGood(cmd', FALSE)
  BY <1>1, CommandFacts DEF Replied, CommandGood
<1>3. counters' \in CounterState /\ counters'.skipped = counters.skipped
      /\ counters'.active = [counters.active EXCEPT ![0] = FALSE]
  <2>1. \A b \in BOOLEAN :
          /\ Sent(counters, 0, b) \in CounterState /\ Sent(counters, 0, b).skipped = counters.skipped
          /\ Sent(counters, 0, b).active = [counters.active EXCEPT ![0] = ~b]
    BY CommandFacts, Counts
  <2> QED BY <2>1 DEF Replied
<1> QED BY <1>2, <1>3, CommandFacts, CommandStep DEF Replied

LEMMA ReplyFailsKeeps ==
  ASSUME IInv, ReplyFails  PROVE  IInv'
<1>1. CommandGood(cmd', TRUE)
  BY ClosedGood DEF ReplyFails, ReplyUndrained
<1>2. counters' \in CounterState /\ counters'.skipped = counters.skipped
      /\ counters'.active = [counters.active EXCEPT ![0] = TRUE]
  BY CommandFacts, Counts DEF ReplyFails
<1> QED BY <1>1, <1>2, CommandFacts, CommandStep DEF ReplyFails

LEMMA NetworkChangeKeeps ==
  ASSUME IInv, NetworkChange  PROVE  IInv'
<1>1. CommandGood(cmd', counters.active[0])
  BY CommandFacts DEF NetworkChange, CommandGood
<1> QED BY <1>1, CommandFacts, CommandStep DEF NetworkChange

LEMMA ArriveKeeps ==
  ASSUME IInv, NEW d \in Datagrams, Arrive(d)  PROVE  IInv'
<1>1. PICK local \in {net.address, "broadcast"} :
        cmd' = [cmd EXCEPT !.rx = Append(cmd.rx, [datagram |-> d, local |-> local])]
  BY DEF Arrive
<1>2. [datagram |-> d, local |-> local] \in Arrivals
  BY CommandFacts DEF Arrive, Ready, Arrivals
<1>3. /\ Append(cmd.rx, [datagram |-> d, local |-> local]) \in Seq(Arrivals)
      /\ Len(Append(cmd.rx, [datagram |-> d, local |-> local])) = Len(cmd.rx) + 1
  BY <1>2, CommandFacts
<1>4. cmd' \in CommandState /\ cmd'.tx = cmd.tx /\ cmd'.open = cmd.open /\ cmd'.pc = cmd.pc
      /\ Len(cmd'.rx) = Len(cmd.rx) + 1
  BY <1>1, <1>3, CommandFacts DEF CommandState
<1>5. CommandGood(cmd', counters.active[0])
  BY <1>4, CommandFacts, Numbers DEF Arrive, CommandGood
<1> QED BY <1>5, CommandFacts, CommandStep DEF Arrive

LEMMA TransmitReplyKeeps ==
  ASSUME IInv, TransmitReply  PROVE  IInv'
<1>1. Tail(cmd.tx) \in Seq({"accept", "error"}) /\ Len(Tail(cmd.tx)) = 0
  BY CommandFacts DEF TransmitReply
<1>2. cmd' \in CommandState /\ cmd'.rx = cmd.rx /\ cmd'.open = cmd.open /\ cmd'.pc = cmd.pc
      /\ cmd'.tx = Tail(cmd.tx)
  BY <1>1, CommandFacts DEF TransmitReply, CommandState
<1>3. cmd'.tx = <<>>
  BY <1>1, <1>2, EmptySeq
<1>4. CommandGood(cmd', counters.active[0])
  BY <1>2, <1>3, CommandFacts DEF CommandGood
<1> QED BY <1>4, CommandFacts, CommandStep DEF TransmitReply

\* The limiter's credit stays within its range, whatever the datagram.
LEMMA AssessTyped ==
  ASSUME IInv, NEW d
  PROVE  /\ Assess(d).credits \in 0..Credit /\ Assess(d).age \in 0..Credit
         /\ Assess(d).decision \in {"accept", "ignore", "limited", "error"}
<1>1. cmd.credits \in 0..Credit /\ cmd.age \in 0..Credit
  BY CommandFacts DEF CommandState
<1>2. Credit \in Nat /\ Cost \in Nat
  BY Numbers
<1>3. Refilled \in 0..Credit
  BY <1>1, <1>2 DEF Refilled, Least
<1>4. ~(Refilled < Cost) => Refilled - Cost \in 0..Credit
  BY <1>2, <1>3
<1>5. 0 \in 0..Credit
  BY <1>2
<1> QED BY <1>1, <1>3, <1>4, <1>5 DEF Assess

\* Every outcome of a datagram: what becomes of the task, and which counts change.
LEMMA HandledGood ==
  ASSUME IInv, cmd.pc = "recv", cmd.rx # <<>>, NEW m, NEW h \in Handled(m)
  PROVE  /\ h[2] \in CounterState /\ h[2].skipped = counters.skipped
         /\ \E a \in BOOLEAN : /\ h[2].active = [counters.active EXCEPT ![0] = a]
                               /\ CommandGood(h[1], a)
<1> DEFINE d == m.datagram
           rest == [cmd EXCEPT !.rx = Tail(@), !.pc = "head", !.decision = "none"]
           a == Assess(d)
           judged == [rest EXCEPT !.decision = a.decision, !.credits = a.credits, !.age = a.age]
           counted == IF a.decision = "accept" THEN Received(counters)
                      ELSE Rejected(counters, FALSE)
           closed == [judged EXCEPT !.open = FALSE, !.rx = <<>>, !.tx = <<>>]
           sending == [judged EXCEPT !.pc = "flush", !.tx = Append(@, a.decision),
                                     !.drain = DrainLimit]
<1>1. \/ \E b \in BOOLEAN : h = <<rest, Rejected(counters, b)>>
      \/ h = <<judged, counted>>
      \/ h = <<judged, Active(counted, 0)>>
      \/ h = <<closed, Sent(counted, 0, FALSE)>>
      \/ h = <<sending, counted>> /\ a.decision \in {"accept", "error"}
  <2>1. a.decision \in {"accept", "ignore", "limited", "error"}
    BY AssessTyped
  <2>2. (d.form = "corrupt") \in BOOLEAN
    OBVIOUS
  <2> QED BY <2>1, <2>2 DEF Handled
<1>2. /\ cmd \in CommandState /\ cmd.open /\ cmd.tx = <<>> /\ Tail(cmd.rx) \in Seq(Arrivals)
      /\ Len(Tail(cmd.rx)) <= QueueLength
  <2>1. Tail(cmd.rx) \in Seq(Arrivals) /\ Len(Tail(cmd.rx)) = Len(cmd.rx) - 1
    BY CommandFacts, HeadTailProperties
  <2> QED BY <2>1, CommandFacts, Numbers
<1>3. /\ a.decision \in {"accept", "ignore", "limited", "error"}
      /\ a.credits \in 0..Credit /\ a.age \in 0..Credit
  BY AssessTyped
<1> HIDE DEF a
<1>4. /\ rest \in CommandState /\ rest.open /\ rest.tx = <<>> /\ rest.rx = Tail(cmd.rx)
      /\ rest.pc = "head"
  BY <1>2 DEF CommandState
<1> HIDE DEF rest
<1>5. /\ judged \in CommandState /\ judged.open /\ judged.tx = <<>> /\ judged.rx = Tail(cmd.rx)
      /\ judged.pc = "head"
  BY <1>3, <1>4 DEF CommandState
<1> HIDE DEF judged
<1>6. /\ closed \in CommandState /\ closed.tx = <<>> /\ closed.rx = <<>> /\ closed.pc = "head"
      /\ Len(closed.rx) <= QueueLength
  <2>1. <<>> \in Seq(Arrivals) /\ <<>> \in Seq({"accept", "error"})
    BY EmptySeq
  <2>2. closed \in CommandState /\ closed.tx = <<>> /\ closed.rx = <<>> /\ closed.pc = "head"
    BY <1>5, <2>1 DEF CommandState
  <2> HIDE DEF closed
  <2> QED BY <2>2, Numbers
<1>7. ASSUME a.decision \in {"accept", "error"}
      PROVE  /\ sending \in CommandState /\ sending.open /\ Len(sending.tx) = 1
             /\ sending.pc = "flush" /\ sending.rx = Tail(cmd.rx)
  <2>1. Append(<<>>, a.decision) \in Seq({"accept", "error"})
        /\ Len(Append(<<>>, a.decision)) = 1
    BY <1>7, EmptySeq
  <2>2. DrainLimit \in 0..DrainLimit
    BY Numbers
  <2> QED BY <1>5, <2>1, <2>2 DEF CommandState
<1> HIDE DEF closed, sending
<1>8. /\ \A b \in BOOLEAN : CommandGood(rest, b) /\ CommandGood(judged, b)
      /\ CommandGood(closed, TRUE)
      /\ a.decision \in {"accept", "error"} => \A b \in BOOLEAN : CommandGood(sending, b)
  BY <1>2, <1>4, <1>5, <1>6, <1>7 DEF CommandGood
<1>9. counters \in CounterState /\ 0 \in Sockets /\ counters.active[0] \in BOOLEAN
      /\ counters.active = [counters.active EXCEPT ![0] = counters.active[0]]
  BY CommandFacts
<1>10. \A b \in BOOLEAN : /\ Rejected(counters, b) \in CounterState
                         /\ Rejected(counters, b).active = counters.active
                         /\ Rejected(counters, b).skipped = counters.skipped
  BY <1>9, Counts
<1>11. /\ counted \in CounterState /\ counted.active = counters.active
       /\ counted.skipped = counters.skipped
  BY <1>9, <1>10, Counts
<1> HIDE DEF counted
<1>12. /\ Active(counted, 0) \in CounterState /\ Active(counted, 0).skipped = counters.skipped
       /\ Active(counted, 0).active = [counters.active EXCEPT ![0] = TRUE]
  BY <1>9, <1>11, Counts
<1>13. /\ Sent(counted, 0, FALSE) \in CounterState
       /\ Sent(counted, 0, FALSE).skipped = counters.skipped
       /\ Sent(counted, 0, FALSE).active = [counters.active EXCEPT ![0] = TRUE]
  <2>1. \A b \in BOOLEAN :
          /\ Sent(counted, 0, b) \in CounterState /\ Sent(counted, 0, b).skipped = counted.skipped
          /\ Sent(counted, 0, b).active = [counted.active EXCEPT ![0] = ~b]
    BY <1>9, <1>11, Counts
  <2> QED BY <1>11, <2>1
<1>14. CASE \E b \in BOOLEAN : h = <<rest, Rejected(counters, b)>>
  BY <1>8, <1>9, <1>10, <1>14
<1>15. CASE h = <<judged, counted>>
  BY <1>8, <1>9, <1>11, <1>15
<1>16. CASE h = <<judged, Active(counted, 0)>>
  BY <1>8, <1>12, <1>16
<1>17. CASE h = <<closed, Sent(counted, 0, FALSE)>>
  BY <1>8, <1>13, <1>17
<1>18. CASE h = <<sending, counted>> /\ a.decision \in {"accept", "error"}
  BY <1>8, <1>9, <1>11, <1>18
<1> QED BY <1>1, <1>14, <1>15, <1>16, <1>17, <1>18

LEMMA TakeDatagramKeeps ==
  ASSUME IInv, TakeDatagram  PROVE  IInv'
<1>1. PICK h \in Handled(cmd.rx[1]) : cmd' = h[1] /\ counters' = h[2]
  BY DEF TakeDatagram
<1>2. cmd.pc = "recv" /\ cmd.rx # <<>> /\ UNCHANGED <<net, pub, grid, owed, lost>>
  BY DEF TakeDatagram
<1>3. PICK a \in BOOLEAN : /\ counters' \in CounterState /\ counters'.skipped = counters.skipped
                           /\ counters'.active = [counters.active EXCEPT ![0] = a]
                           /\ CommandGood(cmd', a)
  BY <1>1, <1>2, HandledGood
<1> QED BY <1>2, <1>3, CommandFacts, CommandStep
-----------------------------------------------------------------------------
(* The clock.                                                                *)

\* A unit of time makes a slot due exactly when the grid passes one.
LEMMA DueElapses ==
  ASSUME NEW d \in Nat \ {0}, NEW u \in Int, u <= d, NEW phase \in 1..d,
         u + DueAt(u, d) * d = phase
  PROVE  DueAt(u - 1, d) = IF phase = 1 THEN DueAt(u, d) + 1 ELSE DueAt(u, d)
<1> DEFINE n == DueAt(u, d)
<1>1. n \in Nat
  BY DueTyped
<1> HIDE DEF n
<1>2. (n + 1) * d = n * d + d /\ n * d \in Int
  BY <1>1
<1>3. u - 1 \in Int /\ u - 1 <= d /\ n + 1 \in Int /\ n \in Int /\ u + n * d = phase
  BY <1>1 DEF n
<1>4. CASE phase = 1
  <2>1. (u - 1) + (n + 1) * d = d
    BY <1>2, <1>3, <1>4
  <2>2. (u - 1) + (n + 1) * d \in 1..d
    BY <2>1
  <2>3. DueAt(u - 1, d) = n + 1
    BY <1>3, <2>2, DueIs
  <2> QED BY <1>4, <2>3 DEF n
<1>5. CASE phase # 1
  <2>1. (u - 1) + n * d \in 1..d
    BY <1>2, <1>3, <1>5
  <2>2. DueAt(u - 1, d) = n
    BY <1>3, <2>1, DueIs
  <2> QED BY <1>5, <2>2 DEF n
<1> QED BY <1>4, <1>5

\* The slots passed in one unit of time, publisher by publisher.
LEMMA SlotsPassed ==
  LET Passed(i) == IF i \in Publishers /\ Passes(i) THEN 1 ELSE 0
  IN  Cardinality({i \in Publishers : Passes(i)}) = Passed(1) + Passed(2)
<1> DEFINE S == {i \in Publishers : Passes(i)}
<1>1. Cardinality({}) = 0 /\ IsFiniteSet({})
  BY FS_EmptySet
<1>2. Cardinality({1}) = 1 /\ Cardinality({2}) = 1 /\ IsFiniteSet({1})
  BY FS_Singleton
<1>3. Cardinality({1} \cup {2}) = 2
  BY <1>2, FS_AddElement
<1>4. S = {} \/ S = {1} \/ S = {2} \/ S = {1} \cup {2}
  BY Numbers
<1>5. \A i \in {1, 2} : i \in S <=> i \in Publishers /\ Passes(i)
  OBVIOUS
<1> HIDE DEF S
<1>6. Cardinality(S) = (IF 1 \in S THEN 1 ELSE 0) + (IF 2 \in S THEN 1 ELSE 0)
  BY <1>1, <1>2, <1>3, <1>4
<1> QED BY <1>5, <1>6 DEF S

LEMMA PublisherElapses ==
  ASSUME IInv, Elapse, NEW i \in Publishers
  PROVE  /\ pub'[i] \in PublisherState
         /\ grid'[i] \in [phase : Nat, number : 0..SequenceMod - 1]
         /\ PublisherGood(i, pub'[i], grid'[i], lost[i], counters.active[i])
         /\ Waiting(pub'[i], Period[i])
            = Waiting(pub[i], Period[i]) + (IF Passes(i) THEN 1 ELSE 0)
<1> DEFINE p == pub[i]
           g == grid[i]
           d == Period[i]
           n == DueAt(p.until, d)
           q == pub'[i]
           h == grid'[i]
<1>1. Whole
  BY Parts
<1>2. /\ p \in PublisherState /\ p.until \in -MaxLate..d /\ g.phase \in 1..d
      /\ p.pc = "flush" => p.open
      /\ p.until + n * d = g.phase
      /\ (p.sequence + n) % SequenceMod = g.number
      /\ p.tx # <<>> => p.pc = "flush" /\ (p.tx[1] + 1) % SequenceMod = p.sequence
      /\ ("behind" \in lost[i] <=> p.pc = "flush" /\ p.late)
      /\ (counters.active[i] <=> lost[i] # {})
      /\ g \in [phase : Nat, number : 0..SequenceMod - 1]
  BY <1>1 DEF Whole, PublisherGood
<1>3. /\ q = [p EXCEPT !.until = @ - 1, !.drain = IF @ > 0 THEN @ - 1 ELSE 0]
      /\ h = IF Passes(i) THEN [phase |-> d, number |-> (g.number + 1) % SequenceMod]
             ELSE [g EXCEPT !.phase = @ - 1]
      /\ p.until > -MaxLate /\ (Passes(i) <=> g.phase = 1)
  BY DEF Elapse, Passes
<1>4. d \in Nat \ {0} /\ SequenceMod \in Nat \ {0} /\ MaxLate \in Nat /\ DrainLimit \in Nat
  BY Numbers
<1>5. n \in Nat /\ p.until \in Int /\ p.until <= d /\ p.sequence \in 0..SequenceMod - 1
      /\ p.drain \in 0..DrainLimit
  <2>1. p.until \in Int /\ p.until <= d
    BY <1>2, <1>4
  <2>2. n \in Nat
    BY <1>4, <2>1, DueTyped
  <2> QED BY <1>2, <2>1, <2>2 DEF PublisherState
<1>6. DueAt(p.until - 1, d) = IF g.phase = 1 THEN n + 1 ELSE n
  BY <1>2, <1>4, <1>5, DueElapses
<1> HIDE DEF p, g, q, h, d, n
<1>7. (g.number + 1) % SequenceMod = (p.sequence + (n + 1)) % SequenceMod
  <2> DEFINE m == p.sequence + n
  <2>1. m \in Int /\ m + 1 = p.sequence + (n + 1) /\ g.number = m % SequenceMod
    <3>1. p.sequence \in Int /\ n \in Int
      BY <1>4, <1>5
    <3>2. m \in Int /\ m + 1 = p.sequence + (n + 1)
      BY <3>1
    <3> QED BY <1>2, <3>2
  <2> HIDE DEF m
  <2>2. \A k \in Int : ((m % SequenceMod) + k) % SequenceMod = (m + k) % SequenceMod
    BY <1>4, <2>1, RemainderAdded
  <2>3. ((m % SequenceMod) + 1) % SequenceMod = (m + 1) % SequenceMod
    BY <2>2
  <2> QED BY <2>1, <2>3
<1>8. (g.number + 1) % SequenceMod \in 0..SequenceMod - 1
  <2>1. g.number + 1 \in Int
    BY <1>2, <1>4
  <2>2. \A m \in Int : m % SequenceMod \in 0..(SequenceMod - 1)
    BY <1>4, Division
  <2> QED BY <2>1, <2>2
<1>9. /\ p.until - 1 \in Int /\ p.until - 1 \in -MaxLate..d
      /\ (IF p.drain > 0 THEN p.drain - 1 ELSE 0) \in 0..DrainLimit
  <2>1. p.until - 1 \in Int /\ p.until - 1 \in -MaxLate..d
    <3>1. p.until > -MaxLate
      BY <1>3
    <3> QED BY <1>4, <1>5, <3>1
  <2>2. (IF p.drain > 0 THEN p.drain - 1 ELSE 0) \in 0..DrainLimit
    BY <1>4, <1>5
  <2> QED BY <2>1, <2>2
<1>10. /\ q \in PublisherState /\ q.until = p.until - 1 /\ q.pc = p.pc /\ q.open = p.open
       /\ q.sequence = p.sequence /\ q.tx = p.tx /\ q.late = p.late
  BY <1>2, <1>3, <1>9 DEF PublisherState
<1>11. /\ h \in [phase : Nat, number : 0..SequenceMod - 1] /\ h.phase \in 1..d
       /\ h.phase = (IF g.phase = 1 THEN d ELSE g.phase - 1)
       /\ h.number = (IF g.phase = 1 THEN (g.number + 1) % SequenceMod ELSE g.number)
  <2>1. CASE g.phase = 1
    BY <1>3, <1>4, <1>8, <2>1
  <2>2. CASE g.phase # 1
    <3>1. g.phase - 1 \in 1..d /\ g.phase - 1 \in Nat
      BY <1>2, <1>4, <2>2
    <3> QED BY <1>2, <1>3, <2>2, <3>1
  <2> QED BY <2>1, <2>2
<1>12. q.until + DueAt(q.until, d) * d = h.phase
  <2>1. (n + 1) * d = n * d + d /\ n * d \in Int
    BY <1>4, <1>5
  <2>2. q.until = p.until - 1 /\ p.until + n * d = g.phase
        /\ DueAt(q.until, d) = IF g.phase = 1 THEN n + 1 ELSE n
    BY <1>2, <1>6, <1>10
  <2>3. CASE g.phase = 1
    BY <1>4, <1>5, <1>11, <2>1, <2>2, <2>3
  <2>4. CASE g.phase # 1
    BY <1>4, <1>5, <1>11, <2>1, <2>2, <2>4
  <2> QED BY <2>3, <2>4
<1>13. (q.sequence + DueAt(q.until, d)) % SequenceMod = h.number
  BY <1>2, <1>6, <1>7, <1>10, <1>11
<1>14. PublisherGood(i, q, h, lost[i], counters.active[i])
  BY <1>2, <1>9, <1>10, <1>11, <1>12, <1>13 DEF PublisherGood, d
<1>15. Waiting(q, d) = Waiting(p, d) + (IF Passes(i) THEN 1 ELSE 0)
  <2>1. Len(p.tx) \in Nat /\ DueAt(q.until, d) = IF Passes(i) THEN n + 1 ELSE n
    <3>1. Len(p.tx) = IF p.tx = <<>> THEN 0 ELSE 1
      BY <1>2, <1>4, <1>5, WaitingTyped
    <3> QED BY <1>3, <1>6, <1>10, <3>1
  <2>2. Waiting(q, d) = DueAt(q.until, d) + Len(p.tx) /\ Waiting(p, d) = n + Len(p.tx)
    BY <1>10 DEF Waiting, n
  <2> DEFINE l == Len(p.tx)
             k == DueAt(q.until, d)
  <2>3. l \in Nat /\ k = (IF Passes(i) THEN n + 1 ELSE n)
        /\ Waiting(q, d) = k + l /\ Waiting(p, d) = n + l
    BY <2>1, <2>2
  <2> HIDE DEF l, k
  <2>4. CASE Passes(i)
    BY <1>5, <2>3, <2>4
  <2>5. CASE ~Passes(i)
    BY <1>5, <2>3, <2>5
  <2> QED BY <2>4, <2>5
<1> QED BY <1>10, <1>11, <1>14, <1>15 DEF p, q, h, d

LEMMA ElapseKeeps ==
  ASSUME IInv, Elapse  PROVE  IInv'
<1> DEFINE Passed(i) == IF i \in Publishers /\ Passes(i) THEN 1 ELSE 0
           passed == Cardinality({i \in Publishers : Passes(i)})
<1>1. Whole
  BY Parts
<1>2. UNCHANGED <<net, counters, lost>>
      /\ owed' = IF counters.skipped = CounterMax THEN 0 ELSE owed + passed
  BY DEF Elapse
<1>3. passed = Passed(1) + Passed(2) /\ Passed(1) \in {0, 1} /\ Passed(2) \in {0, 1}
  BY SlotsPassed
<1>4. \A i \in {1, 2} : Owing(i)' = Owing(i) + Passed(i) /\ Owing(i) \in Nat
  <2> SUFFICES ASSUME NEW i \in {1, 2}
               PROVE  Owing(i)' = Owing(i) + Passed(i) /\ Owing(i) \in Nat
    OBVIOUS
  <2>1. Owing(1) \in Nat /\ Owing(2) \in Nat
    BY <1>1, OwingTyped
  <2>2. CASE i \in Publishers
    <3>1. Waiting(pub'[i], Period[i])
          = Waiting(pub[i], Period[i]) + (IF Passes(i) THEN 1 ELSE 0)
      BY <2>2, PublisherElapses
    <3> QED BY <2>1, <2>2, <3>1 DEF Owing
  <2>3. CASE i \notin Publishers
    BY <2>1, <2>3 DEF Owing
  <2> QED BY <2>2, <2>3
<1> HIDE DEF Passed, passed
<1>5. CommandGood(cmd', counters.active[0])
  <2>1. CommandGood(cmd, counters.active[0]) /\ cmd \in CommandState
    BY <1>1 DEF Whole, CommandGood
  <2>2. cmd' = [cmd EXCEPT !.age = Least(@ + 1, Credit), !.drain = IF @ > 0 THEN @ - 1 ELSE 0]
    BY DEF Elapse
  <2>3. cmd.age \in 0..Credit /\ cmd.drain \in 0..DrainLimit
    BY <2>1 DEF CommandState
  <2>4. /\ Least(cmd.age + 1, Credit) \in 0..Credit
        /\ (IF cmd.drain > 0 THEN cmd.drain - 1 ELSE 0) \in 0..DrainLimit
    BY <2>3, Numbers DEF Least
  <2>5. /\ cmd' \in CommandState /\ cmd'.rx = cmd.rx /\ cmd'.tx = cmd.tx /\ cmd'.pc = cmd.pc
        /\ cmd'.open = cmd.open
    BY <2>1, <2>2, <2>4 DEF CommandState
  <2> QED BY <2>1, <2>5 DEF CommandGood
<1>6. \A i \in Publishers :
        /\ pub'[i] \in PublisherState
        /\ grid'[i] \in [phase : Nat, number : 0..SequenceMod - 1]
        /\ PublisherGood(i, pub'[i], grid'[i], lost[i], counters.active[i])
  BY PublisherElapses
<1>7. pub' \in [Publishers -> PublisherState]
      /\ grid' \in [Publishers -> [phase : Nat, number : 0..SequenceMod - 1]]
  <2>1. /\ pub' = [i \in Publishers |-> pub'[i]]
        /\ grid' = [i \in Publishers |-> grid'[i]]
    BY DEF Elapse
  <2> QED BY <1>6, <2>1
<1>8. owed \in Int /\ owed' \in Int
  BY <1>1, <1>2, <1>3 DEF Whole
<1>9. counters'.skipped < CounterMax => owed' = Owing(1)' + Owing(2)'
  <2> SUFFICES ASSUME counters.skipped < CounterMax  PROVE  owed' = Owing(1)' + Owing(2)'
    BY <1>2
  <2>1. owed = Owing(1) + Owing(2)
    BY <1>1 DEF Whole
  <2>2. owed' = owed + passed
    BY <1>1, <1>2, Numbers DEF Whole, CounterState, CounterRange
  <2> QED BY <1>3, <1>4, <2>1, <2>2
<1> QED BY <1>1, <1>2, <1>5, <1>6, <1>7, <1>8, <1>9, Parts DEF Whole
-----------------------------------------------------------------------------
(* The invariant holds.                                                      *)

LEMMA Initially == Init => IInv
<1> SUFFICES ASSUME Init  PROVE  Whole
  BY Parts
<1>1. net \in [link : BOOLEAN, address : Addresses \union {None}]
  BY DEF Init
<1>2. NewCounters \in CounterState /\ NewCounters.active \in [Sockets -> BOOLEAN]
  BY Numbers DEF NewCounters, CounterState, CounterRange, Sockets
<1>3. <<>> \in Seq(Arrivals) /\ <<>> \in Seq({"accept", "error"}) /\ Len(<<>>) = 0
  BY EmptySeq
<1>4. cmd \in CommandState
  BY <1>3, Numbers DEF Init, CommandState
<1>5. CommandGood(cmd, counters.active[0])
  BY <1>3, <1>4, Numbers DEF Init, CommandGood
<1>6. ASSUME NEW i \in Publishers
      PROVE  /\ pub[i] \in PublisherState
             /\ grid[i] \in [phase : Nat, number : 0..SequenceMod - 1]
             /\ PublisherGood(i, pub[i], grid[i], lost[i], counters.active[i])
             /\ Waiting(pub[i], Period[i]) = 0 /\ lost[i] = {}
  <2>1. /\ pub[i] = [pc |-> "asleep", open |-> FALSE, tx |-> <<>>, drain |-> 0, late |-> FALSE,
                     until |-> Period[i], sequence |-> 0]
        /\ grid[i] = [phase |-> Period[i], number |-> 0]
        /\ lost[i] = {} /\ ~counters.active[i]
    BY SocketOf DEF Init, NewCounters
  <2>2. Period[i] \in Nat \ {0} /\ SequenceMod \in Nat \ {0} /\ DrainLimit \in Nat
        /\ MaxLate \in Nat
    BY Numbers
  <2>3. 0 \in 0..SequenceMod - 1 /\ 0 \in 0..DrainLimit /\ Period[i] \in -MaxLate..Period[i]
    BY <2>2
  <2>4. pub[i] \in PublisherState
    BY <2>1, <2>2, <2>3 DEF PublisherState
  <2>5. DueAt(pub[i].until, Period[i]) = 0
    BY <2>1, <2>2 DEF DueAt
  <2>6. 0 % SequenceMod = 0
    BY <2>2
  <2>7. (pub[i].sequence + DueAt(pub[i].until, Period[i])) % SequenceMod = grid[i].number
    BY <2>1, <2>5, <2>6
  <2>8. pub[i].until + DueAt(pub[i].until, Period[i]) * Period[i] = grid[i].phase
    BY <2>1, <2>2, <2>5
  <2>9. PublisherGood(i, pub[i], grid[i], lost[i], counters.active[i])
    BY <2>1, <2>2, <2>3, <2>4, <2>7, <2>8 DEF PublisherGood
  <2>10. Waiting(pub[i], Period[i]) = 0
    BY <1>3, <2>1, <2>5 DEF Waiting
  <2> QED BY <2>1, <2>2, <2>3, <2>4, <2>9, <2>10
<1>7. pub \in [Publishers -> PublisherState]
      /\ grid \in [Publishers -> [phase : Nat, number : 0..SequenceMod - 1]]
  <2>1. /\ pub = [i \in Publishers |-> pub[i]]
        /\ grid = [i \in Publishers |-> grid[i]]
    BY DEF Init
  <2> QED BY <1>6, <2>1
<1>9. lost \in [Publishers -> SUBSET Losses]
  BY DEF Init
<1>8. owed = Owing(1) + Owing(2)
  BY <1>6 DEF Init, Owing
<1> QED BY <1>1, <1>2, <1>5, <1>6, <1>7, <1>8, <1>9 DEF Init, Whole

LEMMA Inductive == IInv /\ [Next]_vars => IInv'
<1> SUFFICES ASSUME IInv, [Next]_vars  PROVE  IInv'
  OBVIOUS
<1>1. ASSUME NEW i \in Publishers, Publisher(i)  PROVE  IInv'
  BY <1>1, LinkLostKeeps, TakeUnreadyKeeps, EncodeFailsKeeps, OfferKeeps, RefusedKeeps,
     DrainedKeeps, DrainFailsKeeps DEF Publisher
<1>2. ASSUME NEW i \in Publishers, TransmitSample(i)  PROVE  IInv'
  BY <1>2, TransmitSampleKeeps
<1>3. ASSUME Commands  PROVE  IInv'
  BY <1>3, CommandsDownKeeps, ListenKeeps, TakeDatagramKeeps, RepliedKeeps, ReplyFailsKeeps
     DEF Commands
<1>4. ASSUME NEW d \in Datagrams, Arrive(d)  PROVE  IInv'
  BY <1>4, ArriveKeeps
<1>5. ASSUME TransmitReply  PROVE  IInv'
  BY <1>5, TransmitReplyKeeps
<1>6. ASSUME NetworkChange  PROVE  IInv'
  BY <1>6, NetworkChangeKeeps
<1>7. ASSUME Elapse  PROVE  IInv'
  BY <1>7, ElapseKeeps
<1>8. ASSUME UNCHANGED vars  PROVE  IInv'
  <2>1. Whole
    BY Parts
  <2>2. Owing(1)' = Owing(1) /\ Owing(2)' = Owing(2)
    BY <1>8 DEF vars, Owing
  <2> QED BY <1>8, <2>1, <2>2, Parts DEF vars, Whole
<1> QED BY <1>1, <1>2, <1>3, <1>4, <1>5, <1>6, <1>7, <1>8 DEF Next

LEMMA Invariant == Spec => []IInv
BY Initially, Inductive, PTL DEF Spec

\* The records of the tasks, their sockets and the history keep their types: a timer never
\* runs further behind than the executor's delay, and a receive queue holds no more than
\* its socket can.
THEOREM TypeCorrect == Spec => []TypeOK
<1>1. IInv => TypeOK
  BY DEF IInv
<1> QED BY <1>1, Invariant, PTL

\* Schedule::take_due keeps the slot grid and its numbering, however late it is called.
THEOREM GridKept == Spec => []SlotsOnGrid
<1>1. IInv => SlotsOnGrid
  BY DEF IInv
<1> QED BY <1>1, Invariant, PTL

\* Every slot is due, queued, sent or counted as skipped.
THEOREM AccountCorrect == Spec => []SlotsAccounted
<1>1. IInv => SlotsAccounted
  BY DEF IInv
<1> QED BY <1>1, Invariant, PTL

\* No packet outlives the wait of the task that queued it.
THEOREM QueueFresh == Spec => []NoStalePacket
<1>1. IInv => NoStalePacket
  BY DEF IInv
<1> QED BY <1>1, Invariant, PTL

\* A closed command socket shows in the health, and a publisher's bit is set exactly while
\* some loss of its link, a slot or a packet has not been made good by a complete send.
THEOREM HealthTruthful == Spec => []FailuresShow
<1>1. IInv => FailuresShow
  BY DEF IInv
<1> QED BY <1>1, Invariant, PTL
-----------------------------------------------------------------------------
(* The limiter of error replies implements ErrorBudget.                      *)

BudgetNext == Budget!Pass \/ Budget!Reply \/ Budget!Withhold \/ Budget!Other
budgetVars == <<Least(cmd.credits + cmd.age, Credit), cmd.decision>>

\* A step of the command task that leaves the limiter alone.
LEMMA PolicyUntouched ==
  ASSUME cmd'.credits = cmd.credits, cmd'.age = cmd.age, cmd'.decision = cmd.decision
  PROVE  UNCHANGED budgetVars
BY DEF budgetVars

\* What the decision on a parsed datagram takes from the budget.
LEMMA AssessStep ==
  ASSUME IInv, NEW d,
         cmd'.credits = Assess(d).credits, cmd'.age = Assess(d).age,
         cmd'.decision = Assess(d).decision
  PROVE  BudgetNext
<1>1. cmd.credits \in 0..Credit /\ cmd.age \in 0..Credit /\ Credit \in Nat /\ Cost \in Nat
  BY CommandFacts, Numbers DEF CommandState
<1>2. Refilled \in 0..Credit /\ Refilled = Least(cmd.credits + cmd.age, Credit)
  BY <1>1 DEF Refilled, Least
<1>3. CASE Assess(d) = [decision |-> "accept", credits |-> cmd.credits, age |-> cmd.age]
  BY <1>3 DEF BudgetNext, Budget!Other
<1>4. CASE Assess(d) = [decision |-> "ignore", credits |-> cmd.credits, age |-> cmd.age]
  BY <1>4 DEF BudgetNext, Budget!Other
<1>5. CASE Refilled < Cost /\ Assess(d) = [decision |-> "limited", credits |-> Refilled, age |-> 0]
  <2>1. Least(cmd'.credits + cmd'.age, Credit) = Refilled
    BY <1>1, <1>2, <1>5 DEF Least
  <2> QED BY <1>2, <1>5, <2>1 DEF BudgetNext, Budget!Withhold
<1>6. CASE ~(Refilled < Cost)
           /\ Assess(d) = [decision |-> "error", credits |-> Refilled - Cost, age |-> 0]
  <2>1. Least(cmd'.credits + cmd'.age, Credit) = Refilled - Cost
    BY <1>1, <1>2, <1>6 DEF Least
  <2> QED BY <1>1, <1>2, <1>6, <2>1 DEF BudgetNext, Budget!Reply
<1> QED BY <1>3, <1>4, <1>5, <1>6 DEF Assess

LEMMA TakeDatagramBudget ==
  ASSUME IInv, TakeDatagram  PROVE  BudgetNext
<1>1. PICK h \in Handled(cmd.rx[1]) : cmd' = h[1]
  BY DEF TakeDatagram
<1> DEFINE d == cmd.rx[1].datagram
           a == Assess(d)
<1>2. cmd \in CommandState
  BY CommandFacts
<1>3. \/ cmd'.credits = cmd.credits /\ cmd'.age = cmd.age /\ cmd'.decision = "none"
      \/ cmd'.credits = a.credits /\ cmd'.age = a.age /\ cmd'.decision = a.decision
  <2> DEFINE rest == [cmd EXCEPT !.rx = Tail(@), !.pc = "head", !.decision = "none"]
             judged == [rest EXCEPT !.decision = a.decision, !.credits = a.credits,
                                    !.age = a.age]
             closed == [judged EXCEPT !.open = FALSE, !.rx = <<>>, !.tx = <<>>]
             sending == [judged EXCEPT !.pc = "flush", !.tx = Append(@, a.decision),
                                       !.drain = DrainLimit]
  <2>1. \E c : h = <<rest, c>> \/ h = <<judged, c>> \/ h = <<closed, c>> \/ h = <<sending, c>>
    BY DEF Handled
  <2>2. cmd' = rest \/ cmd' = judged \/ cmd' = closed \/ cmd' = sending
    <3> HIDE DEF rest, judged, closed, sending
    <3> QED BY <1>1, <2>1
  <2> HIDE DEF a
  <2> QED BY <1>2, <2>2 DEF CommandState
<1>4. CASE cmd'.credits = cmd.credits /\ cmd'.age = cmd.age /\ cmd'.decision = "none"
  BY <1>4 DEF BudgetNext, Budget!Other
<1>5. CASE cmd'.credits = a.credits /\ cmd'.age = a.age /\ cmd'.decision = a.decision
  BY <1>5, AssessStep
<1> QED BY <1>3, <1>4, <1>5

LEMMA ElapseBudget ==
  ASSUME IInv, Elapse  PROVE  BudgetNext
<1>1. cmd \in CommandState /\ cmd.credits \in 0..Credit /\ cmd.age \in 0..Credit /\ Credit \in Nat
  BY CommandFacts, Numbers DEF CommandState
<1>2. cmd'.credits = cmd.credits /\ cmd'.age = Least(cmd.age + 1, Credit)
      /\ cmd'.decision = cmd.decision
  BY <1>1 DEF Elapse, CommandState
<1>3. Least(cmd'.credits + cmd'.age, Credit)
      = Budget!Grown(Least(cmd.credits + cmd.age, Credit))
  BY <1>1, <1>2 DEF Least, Budget!Grown
<1> QED BY <1>2, <1>3 DEF BudgetNext, Budget!Pass

LEMMA BudgetStep == IInv /\ [Next]_vars => [BudgetNext]_budgetVars
<1> SUFFICES ASSUME IInv, [Next]_vars  PROVE  BudgetNext \/ UNCHANGED budgetVars
  OBVIOUS
<1>0. cmd \in CommandState
  BY CommandFacts
<1>1. CASE TakeDatagram
  BY <1>1, TakeDatagramBudget
<1>2. CASE Elapse
  BY <1>2, ElapseBudget
<1>3. CASE cmd' = cmd
  BY <1>3, PolicyUntouched
<1>4. CASE CommandsDown \/ Listen \/ Replied \/ ReplyFails \/ TransmitReply
  <2>1. cmd'.credits = cmd.credits /\ cmd'.age = cmd.age /\ cmd'.decision = cmd.decision
    BY <1>0, <1>4 DEF CommandsDown, Listen, Replied, ReplyFails, ReplyUndrained,
                      TransmitReply, CommandsClosed, CommandState
  <2> QED BY <2>1, PolicyUntouched
<1>5. ASSUME NEW d \in Datagrams, Arrive(d)  PROVE  UNCHANGED budgetVars
  <2>1. cmd'.credits = cmd.credits /\ cmd'.age = cmd.age /\ cmd'.decision = cmd.decision
    BY <1>0, <1>5 DEF Arrive, CommandState
  <2> QED BY <2>1, PolicyUntouched
<1>6. ASSUME NEW i \in Publishers, Publisher(i) \/ TransmitSample(i)  PROVE  cmd' = cmd
  BY <1>6 DEF Publisher, LinkLost, TakeUnready, EncodeFails, Offer, Refused, Slot, Drained,
              DrainFails, Published, TransmitSample
<1>7. NetworkChange => cmd' = cmd
  BY DEF NetworkChange
<1>8. UNCHANGED vars => cmd' = cmd
  BY DEF vars
<1> QED BY <1>1, <1>2, <1>3, <1>4, <1>5, <1>6, <1>7, <1>8 DEF Next, Commands

\* CommandPolicy::assess implements the budget of ErrorBudget: it grows with every unit of
\* time up to a full bucket, pays for each error reply, and withholds one only while it is
\* short.
THEOREM BudgetRefined == Spec => BudgetKept
<1>1. Init => Budget!Init
  <2> SUFFICES ASSUME Init  PROVE  Budget!Init
    OBVIOUS
  <2>1. cmd.credits = Credit /\ cmd.age = 0 /\ cmd.decision = "none" /\ Credit \in Nat
    BY Numbers DEF Init
  <2> QED BY <2>1 DEF Budget!Init, Least
<1>2. IInv /\ [Next]_vars =>
        [Budget!Pass \/ Budget!Reply \/ Budget!Withhold \/ Budget!Other]_<<Least(cmd.credits + cmd.age, Credit), cmd.decision>>
  BY BudgetStep DEF BudgetNext, budgetVars
<1> QED BY <1>1, <1>2, Invariant, PTL DEF Spec, BudgetKept, Budget!Spec
=============================================================================
