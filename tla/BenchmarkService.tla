--------------------------- MODULE BenchmarkService ---------------------------
(***************************************************************************)
(* The benchmark service under arbitrary callers: any client may present   *)
(* any request at any time, in any order and any number of times, so every *)
(* loss, duplication, delay and reordering of the network is included.     *)
(* The clock each call reads is any instant of ClockTimes, earlier ones    *)
(* included: the service handles a clock that goes back.                   *)
(***************************************************************************)
EXTENDS BenchmarkLease

CONSTANTS
  ClockTimes,      \* bound: the instants at which the service is called
  Ids,             \* bound: the control and probe identities clients use
  Configurations,  \* bound: the configurations clients ask for
  Payloads         \* bound: the patterns probes carry

ASSUME ServiceAssumption ==
  /\ ClockTimes \subseteq Times
  /\ Ids \subseteq Nat \ {0}
  /\ Configurations \subseteq Configuration

VARIABLES
  service,   \* the state of struct Service
  started    \* history: when the current run was acquired

vars == <<service, started>>

Init == \E now \in ClockTimes : service = NewService(now) /\ started = now

\* `started` follows the acquisition of a run.
Remember(now) ==
  started' = IF Active(service') /\ (service'.epoch # service.epoch \/ ~Active(service))
             THEN now ELSE started

TickAt(now) == service' = Tick(service, now) /\ Remember(now)

\* The firmware ends a run itself on link or address loss and on socket failure.
EndLocally == service' = End(service) /\ UNCHANGED started

HandleRequest(m, now) ==
  service' = Handle(service, m, now).service /\ Remember(now)

RejectDatagram(crc) == service' = Reject(service, crc) /\ UNCHANGED started

PublishStream(i, now) ==
  service' = Publish(service, i, now).service /\ Remember(now)

AllRequests == Requests(Ids, Epochs, Configurations, Payloads)

Next ==
  \/ \E now \in ClockTimes : TickAt(now)
  \/ EndLocally
  \/ \E m \in AllRequests, now \in ClockTimes : HandleRequest(m, now)
  \/ \E crc \in BOOLEAN : RejectDatagram(crc)
  \/ \E i \in Streams, now \in ClockTimes : PublishStream(i, now)

Spec == Init /\ [][Next]_vars

-----------------------------------------------------------------------------
\* Every field of the service keeps its type; the bucket and the counters stay
\* within their bounds (struct Service).
TypeOK == service \in ServiceState /\ started \in Times

\* No call leaves a run past its expiry, and a lease is never worth more than the
\* configured duration: tick() runs before every decision, so a datagram that
\* arrives at the instant of expiry already finds the run ended.
LeaseUnexpired ==
  Active(service) =>
    /\ service.last_time < service.lease.expiry
    /\ service.lease.expiry <= service.last_time + service.lease.config.lease * UsPerMs

\* The streams run with the periods of the accepted configuration while a run is
\* active and are off when none is; the final epoch is exhausted only when idle.
StreamsFollowRun ==
  /\ Active(service) =>
       /\ configuration_valid(service.lease.config)
       /\ \A i \in Streams : service.schedules[i].period = service.lease.config.period[i]
       /\ ~service.exhausted
  /\ ~Active(service) => service.schedules = IdleSchedules
  /\ service.exhausted => service.epoch = MaxEpoch

\* An absolute schedule: the next sample of an enabled stream is due a whole
\* number of periods after the run was acquired, and its sequence number counts
\* the slots before it, however late the earlier ones were taken.
SlotsOnGrid ==
  Active(service) =>
    \A i \in Streams :
      LET p == service.schedules[i]
          elapsed == p.due - started IN
      p.period > 0 =>
        /\ elapsed >= p.period
        /\ elapsed % p.period = 0
        /\ p.sequence = ((elapsed \div p.period) - 1) % SequenceMod

\* The requests that may change a run: the owner's renewal or stop, with a larger
\* identity than every accepted one.
Authorised(m) ==
  /\ m.kind \in {"renew", "stop"} /\ m.addressed
  /\ m.client = service.lease.client
  /\ m.epoch = service.epoch
  /\ m.id > service.lease.last.id

\* While a run lasts, no other request touches it: not another client's, not one
\* for another epoch, not a replayed, reordered, conflicting or malformed one.
OnlyOwnerActs ==
  Active(service) =>
    \A m \in AllRequests, now \in ClockTimes :
      (service.last_time <= now /\ now < service.lease.expiry /\ ~Authorised(m)) =>
        LET after == Handle(service, m, now).service IN
        /\ after.lease = service.lease
        /\ after.epoch = service.epoch
        /\ after.schedules = service.schedules

SameRun == Active(service) /\ Active(service') /\ service'.epoch = service.epoch

\* A stream is published at most once per call and always with the newest due
\* sample: afterwards the next slot lies ahead by at most one period.
NewestSample ==
  [][ \A i \in Streams :
        (SameRun /\ service'.schedules[i] # service.schedules[i]) =>
          /\ service'.schedules[i].due > service'.last_time
          /\ service'.schedules[i].due <= service'.last_time + service'.schedules[i].period
          /\ service'.last_time >= service.schedules[i].due ]_vars

Run == INSTANCE BenchmarkRun WITH
  run <- RunNumber(service), holder <- RunHolder(service),
  last <- RunLast(service), deadline <- RunDeadline(service)

\* The service implements the run specification (kinds 2, 3 and 4 of the
\* protocol, expiry and the local end).
RunSpec == Run!Spec
=============================================================================
