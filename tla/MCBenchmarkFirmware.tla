------------------------- MODULE MCBenchmarkFirmware -------------------------
(***************************************************************************)
(* Instances of BenchmarkFirmware for TLC.                                 *)
(***************************************************************************)
EXTENDS BenchmarkFirmware

CONSTANTS c1, a1

MinPeriods == [i \in Streams |-> 1]
QueueLimits == [s \in Sockets |-> IF s = 0 THEN 2 ELSE 1]

Config(status, health, lease) ==
  [payload |-> 0, seed |-> 0, lease |-> lease,
   period |-> [i \in Streams |-> IF i = 0 THEN status ELSE health]]

Request(kind, epoch, id, settings, payload) ==
  [kind |-> kind, addressed |-> TRUE, client |-> c1, epoch |-> epoch, id |-> id,
   config |-> settings, payload |-> payload]
Configure(epoch, status, health, lease) ==
  Request("configure", epoch, 1, Config(status, health, lease), None)
Stop(epoch) == Request("stop", epoch, 2, None, None)
Probe(epoch) == Request("probe", epoch, 1, None, Pattern(0, 0, 1))

Sound(m, address) == [fault |-> "none", request |-> m, local |-> address]
Fault(kind, address) == [fault |-> kind, request |-> Stop(1), local |-> address]

(* What a peer sends: runs that are acquired, stopped and taken over; one that is  *)
(* probed until it expires; one that is flooded with repetitions and refused       *)
(* datagrams.  Each behaviour keeps to one sort of traffic.                        *)
Traffic ==
  [takeover |-> {Sound(m, a1) : m \in {Configure(1, 1, 2, 3), Configure(2, 1, 2, 3), Stop(1)}},
   probes |-> {Sound(m, a1) : m \in {Configure(1, 1, 2, 2), Probe(1)}},
   flood |-> {Sound(Configure(1, 1, 2, 2), a1), Fault("crc", a1)}]
AllTraffic == UNION {Traffic[sort] : sort \in DOMAIN Traffic}

VARIABLE traffic
Waiting == {sockets.rx[i].datagram : i \in DOMAIN sockets.rx}

MCInit == Init /\ traffic \in DOMAIN Traffic
MCNext == Next /\ UNCHANGED traffic /\ Waiting' \subseteq Traffic[traffic]
\* Fairness of the loop (FairSpec) is assumed under the flood, where it is used.
MCSpec ==
  MCInit /\ [][MCNext]_<<vars, traffic>> /\ WF_vars(traffic = "flood" /\ Firmware)

\* A run that is over by the clock, or off the network, ends under the flood
\* (embassy_benchmark.rs:134, 162).
RunEndsInFlood == traffic = "flood" => RunEnds
\* A due sample is taken under the flood ("timers run even under an RX flood").
SamplesTakenInFlood == traffic = "flood" => SamplesTaken
=============================================================================
