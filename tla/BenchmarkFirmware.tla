--------------------------- MODULE BenchmarkFirmware ---------------------------
(***************************************************************************)
(* The benchmark task of the firmware, run() of                            *)
(* Rust/src/servers/embassy_benchmark.rs: one cooperative loop that owns   *)
(* the service and three UDP sockets, composed with the network stack that *)
(* runs whenever the loop awaits.                                          *)
(*                                                                         *)
(* Between two awaits nothing else of the firmware runs, so the network    *)
(* acts only while stage is "asleep"; the clock may advance before every   *)
(* reading the loop takes of it.  A stage ends where the loop reads the    *)
(* clock again.  Intermediate states of the service are named with         *)
(* \E x \in {e}, which TLC evaluates once where a LET is expanded anew.    *)
(***************************************************************************)
EXTENDS BenchmarkLease, Sequences

CONSTANTS
  MaxTime,      \* bound: the last instant of the clock
  Addresses,    \* the addresses DHCP may assign
  Datagrams,    \* bound: what may arrive on the command port
  RxCapacity,   \* 2 packets in the command socket's receive queue
  TxCapacity    \* [Sockets -> Nat], 2 packets for commands, 1 for each stream

\* The patterns a probe may carry, and the samples the service publishes.
Patterns == [length : Nat, start : Nat]
Samples ==
  [kind : {"publication"}, stream : Streams, client : Clients, epoch : Epochs,
   sequence : Nat, payload : Patterns]

ASSUME FirmwareAssumption ==
  /\ MaxTime \in Times
  /\ None \notin Addresses \cup Samples
  /\ Datagrams \subseteq [fault : {"none", "crc", "other"}, local : Addresses,
                          request : Requests(Nat \ {0}, Epochs, Configuration, Patterns)]
  /\ RxCapacity \in Nat
  /\ TxCapacity \in [Sockets -> Nat]

VARIABLES
  service,      \* state
  generation,   \* the (epoch, active) pair the sockets were opened for
  config,       \* the stack's address, None until DHCP has one
  previous_config,
  link,         \* stack.is_link_up()
  sockets,      \* open flags and queues of the three sockets
  stage,        \* where the loop is
  stream,       \* the stream the publication loop is at
  message,      \* the encoded reply or sample not yet handed to its socket
  clock,
  delivered     \* history: samples of the current run that left the board

vars == <<service, generation, config, previous_config, link, sockets,
          stage, stream, message, clock, delivered>>
environment == <<config, link>>

\* Socket 0 takes commands, 1 carries status and 2 health.
SocketOf(i) == i + 1
Closed == [open |-> [s \in Sockets |-> FALSE], rx |-> <<>>, tx |-> [s \in Sockets |-> <<>>]]
\* Mutant: a socket that is closed keeps what it was to send.
Close_KeepsQueue(k, s) == [k EXCEPT !.open[s] = FALSE, !.rx = IF s = 0 THEN <<>> ELSE @]

Close(k, s) == [k EXCEPT !.open[s] = FALSE, !.tx[s] = <<>>,
                         !.rx = IF s = 0 THEN <<>> ELSE @]
Bind(k, s) == [k EXCEPT !.open[s] = TRUE]
Generation(s) == <<s.epoch, Active(s)>>

\* Mutant: requests that were queued survive.
Synchronised_KeepsRequests(g, k, s) ==
  IF g # Generation(s) THEN [Closed EXCEPT !.rx = k.rx] ELSE k

\* The sockets are closed, and their queues dropped, when the run is another one
\* than the one they were opened for (g).
Synchronised(g, k, s) == IF g # Generation(s) THEN Closed ELSE k

\* try_send_to: a queue that is full refuses; an encoding error or a fragmented
\* buffer may refuse as well.
MaySend(k, s) == k.open[s] /\ Len(k.tx[s]) < TxCapacity[s]
Send(k, s, m) == [k EXCEPT !.tx[s] = Append(@, m)]

\* Samples are counted from the acquisition of the run that publishes them.
Count(n) == IF Generation(service') = Generation(service) THEN n ELSE 0

Init ==
  /\ service = NewService(0)
  /\ generation = <<1, FALSE>>
  /\ config \in Addresses \cup {None}
  /\ previous_config = config
  /\ link \in BOOLEAN
  /\ \/ sockets = [Closed EXCEPT !.open = [s \in Sockets |-> TRUE]] /\ stage = "asleep"
     \/ sockets = Closed /\ stage = "halted"              \* the first bind failed
  /\ stream = 0 /\ message = None
  /\ clock = 0 /\ delivered = 0

-----------------------------------------------------------------------------
(* The loop.                                                                 *)

\* Mutant: an address is enough.
ready_WithoutLink == config # None

ready == link /\ config # None

\* Mutant: a lost link leaves the run alone.
Woken_IgnoresLink(s) == IF config # previous_config THEN End(s) ELSE s

\* Waking up: the link and the address are looked at after the clock.
Woken(s) == IF ~ready \/ config # previous_config THEN End(s) ELSE s

\* The sockets the loop goes on with, before it binds the closed ones.
Reset(s) ==
  IF ~ready \/ config # previous_config THEN Closed ELSE Synchronised(generation, sockets, s)

Wake ==
  /\ stage = "asleep"
  /\ previous_config' = config
  /\ \E s \in {Woken(Tick(service, clock))} : \E k \in {Reset(s)} :
      /\ generation' = Generation(s)
      /\ \/ /\ ~ready
            /\ service' = s /\ sockets' = k /\ stage' = "asleep"
         \/ /\ ready
            /\ service' = s /\ sockets' = [k EXCEPT !.open = [x \in Sockets |-> TRUE]]
            /\ stage' = "receive"
         \/ /\ ready
            /\ \E x \in Sockets : ~k.open[x]                 \* its bind failed
            /\ service' = End(s) /\ sockets' = Closed /\ stage' = "halted"
  /\ delivered' = Count(delivered)
  /\ UNCHANGED <<environment, stream, message, clock>>

\* Mutant: as long as requests wait, they come first.
Publications_Drain(g, k, s) ==
  /\ service' = s
  /\ sockets' = Synchronised(g, k, s)
  /\ generation' = Generation(s)
  /\ stage' = (IF sockets'.rx = <<>> THEN "publish" ELSE "asleep")
  /\ stream' = 0 /\ message' = None
  /\ delivered' = Count(delivered)

\* The sockets are synchronised and the publication loop starts.
Publications(g, k, s) ==
  /\ service' = s
  /\ sockets' = Synchronised(g, k, s)
  /\ generation' = Generation(s)
  /\ stage' = "publish" /\ stream' = 0 /\ message' = None
  /\ delivered' = Count(delivered)

ReceiveNothing ==
  /\ stage = "receive" /\ sockets.rx = <<>>
  /\ Publications(generation, sockets, service)
  /\ UNCHANGED <<environment, previous_config, clock>>

\* A truncated datagram, one for another address or one that does not decode.
ReceiveFault ==
  /\ stage = "receive" /\ sockets.rx # <<>>
  /\ LET d == Head(sockets.rx).datagram IN
       /\ d.fault # "none" \/ d.local # config
       /\ Publications(generation, [sockets EXCEPT !.rx = Tail(@)],
                       Reject(service, d.fault = "crc" /\ d.local = config))
  /\ UNCHANGED <<environment, previous_config, clock>>

\* A request.  Handling it may end or start a run, which closes the sockets, so
\* that the reply goes out through a command socket bound again.
ReceiveRequest ==
  /\ stage = "receive" /\ sockets.rx # <<>>
  /\ LET d == Head(sockets.rx).datagram
     IN \E h \in {Handle(service, d.request, clock)} :
        \E k \in {Synchronised(generation, [sockets EXCEPT !.rx = Tail(@)], h.service)} :
        \E g \in {Generation(h.service)} :
       /\ d.fault = "none" /\ d.local = config
       /\ \/ /\ h.reply = None
             /\ Publications(g, Bind(k, 0), h.service)
          \/ /\ h.reply # None
             /\ service' = h.service /\ generation' = g /\ sockets' = Bind(k, 0)
             /\ stage' = "reply" /\ message' = h.reply
             /\ delivered' = Count(delivered)
             /\ UNCHANGED stream
          \/ /\ ~k.open[0]                               \* the bind failed
             /\ service' = End(h.service) /\ generation' = g /\ sockets' = k
             /\ stage' = "asleep"
             /\ delivered' = Count(delivered)
             /\ UNCHANGED <<stream, message>>
  /\ UNCHANGED <<environment, previous_config, clock>>

\* After encoding, the clock is read again: the answer to a probe of a run that
\* ended meanwhile is dropped.
ReplyStands(s) ==
  message.kind = "probe_response" => message.epoch = s.epoch /\ Active(s)

Reply ==
  /\ stage = "reply"
  /\ \E s \in {Tick(service, clock)} :
       \/ /\ ~ReplyStands(s)
          /\ Publications(generation, sockets, s)
       \/ /\ ReplyStands(s) /\ MaySend(sockets, 0)
          /\ Publications(generation, Send(sockets, 0, message),
                          [s EXCEPT !.counters = Sent(@, 0, TRUE)])
       \/ /\ ReplyStands(s)
          /\ Publications(generation, sockets, [s EXCEPT !.counters = Sent(@, 0, FALSE)])
  /\ UNCHANGED <<environment, previous_config, clock>>

\* Mutant: the loop goes to sleep without looking at the run again.
Finish_Unsynchronised(k, s) ==
  /\ sockets' = k /\ generation' = generation
  /\ stage' = "asleep" /\ stream' = 0

\* The end of an iteration.
Finish(k, s) ==
  /\ sockets' = Synchronised(generation, k, s) /\ generation' = Generation(s)
  /\ stage' = "asleep" /\ stream' = 0

\* On to the next stream, or to the end of the iteration.
NextStream(k, s) ==
  /\ service' = s
  /\ message' = None
  /\ \/ /\ stream = 0
        /\ stream' = 1 /\ stage' = "publish" /\ sockets' = k
        /\ UNCHANGED generation
     \/ stream = 1 /\ Finish(k, s)

\* A socket could not be bound: the run ends and the loop is left.
BindFailed(k, s) ==
  /\ service' = End(s)
  /\ message' = None
  /\ Finish(k, End(s))

\* Mutant: the sample that was replaced is not accounted for.
Replaced_Uncounted(s) == s

\* A sample still in the queue gives way to the newer one.
Replaced(s) == [s EXCEPT !.counters = Skip(@, 1)]

Sample ==
  /\ stage = "publish"
  /\ LET x == SocketOf(stream)
     IN \E p \in {Publish(service, stream, clock)} :
        \E k \in {Bind(sockets, x)} :
       \/ /\ ~sockets.open[x]
          /\ BindFailed(sockets, service)
       \/ /\ p.reply = None
          /\ NextStream(k, p.service)
       \/ /\ p.reply # None /\ k.tx[x] = <<>>
          /\ service' = p.service /\ sockets' = k /\ message' = p.reply
          /\ stage' = "offer"
          /\ UNCHANGED <<generation, stream>>
       \/ /\ p.reply # None /\ k.tx[x] # <<>>
          /\ service' = Replaced(p.service)
          /\ sockets' = Bind(Close(k, x), x)
          /\ message' = p.reply
          /\ stage' = "offer"
          /\ UNCHANGED <<generation, stream>>
       \/ /\ p.reply # None /\ k.tx[x] # <<>>
          /\ BindFailed(Close(k, x), Replaced(p.service))
  /\ delivered' = Count(delivered)
  /\ UNCHANGED <<environment, previous_config, clock>>

\* The sample goes to its socket unless its run ended while it was encoded.
Offer ==
  /\ stage = "offer"
  /\ LET x == SocketOf(stream)
     IN \E s \in {Tick(service, clock)} :
       \/ /\ ~Active(s) \/ message.epoch # s.epoch
          /\ NextStream(sockets, s)
       \/ /\ Active(s) /\ message.epoch = s.epoch /\ MaySend(sockets, x)
          /\ NextStream(Send(sockets, x, message), [s EXCEPT !.counters = Sent(@, x, TRUE)])
       \/ /\ Active(s) /\ message.epoch = s.epoch
          /\ NextStream(sockets, [s EXCEPT !.counters = Skip(Sent(@, x, FALSE), 1)])
  /\ delivered' = Count(delivered)
  /\ UNCHANGED <<environment, previous_config, clock>>

Firmware ==
  Wake \/ ReceiveNothing \/ ReceiveFault \/ ReceiveRequest \/ Reply \/ Sample \/ Offer

-----------------------------------------------------------------------------
(* The network stack and the clock.                                          *)

Arrive(d) ==
  /\ stage \in {"asleep", "halted"} /\ link /\ sockets.open[0]
  /\ Len(sockets.rx) < RxCapacity
  /\ sockets' = [sockets EXCEPT !.rx = Append(@, [datagram |-> d,
                                                  generation |-> Generation(service)])]
  /\ UNCHANGED <<service, generation, environment, previous_config, stage, stream,
                 message, clock, delivered>>

Transmit(x) ==
  /\ stage = "asleep" /\ link /\ sockets.tx[x] # <<>>
  /\ sockets' = [sockets EXCEPT !.tx[x] = Tail(@)]
  /\ delivered' = IF x = 0 THEN delivered ELSE delivered + 1
  /\ UNCHANGED <<service, generation, environment, previous_config, stage, stream,
                 message, clock>>

NetworkChange ==
  /\ stage \in {"asleep", "halted"}
  /\ \/ link' = ~link /\ UNCHANGED config
     \/ config' \in (Addresses \cup {None}) \ {config} /\ UNCHANGED link
  /\ UNCHANGED <<service, generation, previous_config, sockets, stage, stream,
                 message, clock, delivered>>

Elapse ==
  /\ clock < MaxTime
  /\ clock' = clock + 1
  /\ UNCHANGED <<service, generation, environment, previous_config, sockets, stage,
                 stream, message, delivered>>

Network == (\E d \in Datagrams : Arrive(d)) \/ (\E x \in Sockets : Transmit(x)) \/ NetworkChange

Next == Firmware \/ Network \/ Elapse

Spec == Init /\ [][Next]_vars

\* The executor polls the loop again after every await: its timers fire.
FairSpec == Spec /\ WF_vars(Firmware)

-----------------------------------------------------------------------------
\* Every variable keeps its type; no queue exceeds its capacity.
TypeOK ==
  /\ service \in ServiceState
  /\ generation \in Epochs \X BOOLEAN
  /\ {config, previous_config} \subseteq Addresses \cup {None}
  /\ sockets.open \in [Sockets -> BOOLEAN]
  /\ Len(sockets.rx) <= RxCapacity
  /\ \A x \in Sockets : Len(sockets.tx[x]) <= TxCapacity[x]
  /\ \A x \in Sockets : ~sockets.open[x] => sockets.tx[x] = <<>>
  /\ stage \in {"asleep", "receive", "reply", "publish", "offer", "halted"}
  /\ stream \in Streams

\* Whenever the loop awaits, no sample and no answer to a probe of a run that is
\* over is left in a queue (BENCHMARK_CONTRACT: the end of a run clears its queues).
QueuesOfThisRun ==
  stage = "asleep" =>
    \A x \in Sockets : \A n \in DOMAIN sockets.tx[x] :
      LET m == sockets.tx[x][n] IN
      m.kind \in {"publication", "probe_response"} => Active(service) /\ m.epoch = service.epoch

\* A request waits in the queue only during the run, or the pause, it arrived in:
\* none that arrived before a run ended or started is handled after.
RequestsOfThisRun ==
  stage = "asleep" =>
    \A n \in DOMAIN sockets.rx : sockets.rx[n].generation = Generation(service)

\* Every slot of a run is accounted for: its sample left the board, is queued, or
\* was counted as skipped.  Stated for a counter that is not saturated and
\* sequences that did not wrap.
SlotsAccounted ==
  (stage = "asleep" /\ Active(service) /\ service.counters.skipped < CounterMax) =>
    service.schedules[0].sequence + service.schedules[1].sequence
      = delivered + Len(sockets.tx[1]) + Len(sockets.tx[2]) + service.counters.skipped

\* A sample that waits for the network during a run is the newest of its stream, and
\* alone: the loop replaces an unsent sample "instead of keeping stale work while
\* discarding the newest scheduled opportunity" (embassy_benchmark.rs).
QueuedNewest ==
  Active(service) =>
    \A i \in Streams :
      LET queue == sockets.tx[SocketOf(i)] IN
      queue # <<>> =>
        /\ Len(queue) = 1
        /\ queue[1].kind = "publication" /\ queue[1].stream = i
        /\ (queue[1].sequence + 1) % SequenceMod = service.schedules[i].sequence

\* The runs of the board, as its clients see them.
Board == INSTANCE BenchmarkBoard WITH
  run <- RunNumber(service), holder <- RunHolder(service),
  last <- RunLast(service), deadline <- RunDeadline(service),
  online <- link /\ config # None

\* The loop, the sockets and the network stack together implement the board's promise:
\* no end of a run on its way (expiry, a lost link, a socket that cannot be bound) uses
\* a number twice, and no request is carried out while the network is down.
BoardSpec == Board!BoardSpec

\* A run that is over by the clock, or that has lost its link or address, ends,
\* whatever the network keeps sending.
RunEnds ==
  LET over == Active(service) /\ (clock >= service.lease.expiry \/ ~ready) IN over ~> ~over

\* A due sample is taken, whatever the network keeps sending ("timers run even
\* under an RX flood").
SamplesTaken ==
  \A i \in Streams : IsDue(service, i, clock) ~> ~IsDue(service, i, clock)
=============================================================================
