---------------------------- MODULE BenchmarkLease ----------------------------
(***************************************************************************)
(* The leased benchmark service of the firmware, as functions on its state *)
(* (Rust/messaging/src/benchmark/service.rs, struct Service).  Every       *)
(* operation of the Rust type is one operator from a service state to the  *)
(* next one; BenchmarkService and BenchmarkFirmware take the steps.        *)
(*                                                                         *)
(* Data is abstracted to what ownership and scheduling compare: a client   *)
(* is a (source address, port, session) identity, the payload pattern is   *)
(* its length and the alphabet index it starts at, and time is in          *)
(* microseconds scaled by the constants.                                   *)
(***************************************************************************)
EXTENDS Integers, Counters

CONSTANTS
  Clients,        \* (peer, session) identities that may address the board
  MaxEpoch,       \* u32::MAX
  SequenceMod,    \* 2^32, the modulus of publication sequences
  Burst,          \* 10, the capacity of the reply bucket
  TokenPeriod,    \* 100_000 us, one reply token
  UsPerMs,        \* 1000
  Alphabet,       \* 62, the length of the pattern alphabet
  MaxPayload,     \* 512
  MinPeriod,      \* [Streams -> Nat], 1000 us and 10000 us
  MaxPeriod,      \* 10000000 us
  MinLease,       \* 2000 ms
  MaxLease,       \* 30000 ms
  None            \* an absent lease, configuration or reply

\* Stream 0 is the status stream, stream 1 the health stream.
Streams == {0, 1}

ASSUME LeaseAssumption ==
  /\ MaxEpoch \in Nat \ {0}
  /\ SequenceMod \in Nat \ {0}
  /\ Burst \in Nat
  /\ TokenPeriod \in Nat \ {0}
  /\ UsPerMs \in Nat \ {0}
  /\ Alphabet \in Nat \ {0}
  /\ MaxPayload \in Nat
  /\ MinPeriod \in [Streams -> Nat \ {0}]
  /\ MaxPeriod \in Nat
  /\ MinLease \in Nat \ {0}
  /\ MaxLease \in Nat

Times == Nat
Epochs == 1..MaxEpoch
Configuration == [payload : Nat, seed : Nat, period : [Streams -> Nat], lease : Nat]
Control == [kind : {"configure", "renew", "stop"}, id : Nat,
            config : Configuration \cup {None}]
Lease == [client : Clients, config : Configuration, last : Control, expiry : Times]
Publication == [due : Times, period : Nat, sequence : 0..(SequenceMod - 1)]

ControlCodes ==
  {"APPLIED", "ALREADY_APPLIED", "STOPPED", "INVALID_CONFIGURATION", "BUSY", "STALE_RUN",
   "STALE_CONTROL", "REQUEST_CONFLICT", "NOT_ACTIVE", "RESOURCE_EXHAUSTED"}
\* The replies that share the bucket.
BucketedReplies ==
  [kind : {"result"}, client : Clients, epoch : Epochs, id : Nat, code : ControlCodes,
   remaining : Nat]
    \cup
  [kind : {"limits"}, client : Clients, epoch : Epochs, id : Nat, available : BOOLEAN]

ASSUME NoneAssumption == None \notin Lease \cup Configuration \cup BucketedReplies
ASSUME ClientAssumption == None \notin Clients

ServiceState ==
  [epoch : Epochs, exhausted : BOOLEAN, lease : Lease \cup {None},
   schedules : [Streams -> Publication], tokens : 0..Burst,
   token_time : Times, last_time : Times,
   counters : CounterState, suppressed_replies : CounterRange]

IdleSchedules == [i \in Streams |-> [due |-> 0, period |-> 0, sequence |-> 0]]

NewService(now) ==
  [epoch |-> 1, exhausted |-> FALSE, lease |-> None, schedules |-> IdleSchedules,
   tokens |-> Burst, token_time |-> now, last_time |-> now,
   counters |-> NewCounters, suppressed_replies |-> 0]

SatSub(a, b) == IF a < b THEN 0 ELSE a - b
AtMost(bound, n) == IF n < bound THEN n ELSE bound

Active(s) == s.lease # None
Owner(s, client) == Active(s) /\ s.lease.client = client

configuration_valid(c) ==
  /\ c.payload <= MaxPayload
  /\ \A i \in Streams : c.period[i] = 0 \/ c.period[i] \in MinPeriod[i]..MaxPeriod
  /\ c.lease \in MinLease..MaxLease

\* The pattern of a given length starts at this index of the alphabet and runs
\* through it cyclically, so the two numbers determine the string; an empty
\* pattern has no start.
Pattern(length, seed, token) ==
  [length |-> length,
   start |-> IF length = 0 THEN 0 ELSE ((seed % Alphabet) + (token % Alphabet)) % Alphabet]

-----------------------------------------------------------------------------
(* Ending a run and the passing of time.                                     *)

\* Mutant: the schedules survive the run.
End_KeepsSchedules(s) ==
  IF ~Active(s) THEN s
  ELSE [s EXCEPT !.lease = None,
                 !.exhausted = @ \/ s.epoch = MaxEpoch,
                 !.epoch = IF @ = MaxEpoch THEN @ ELSE @ + 1]

End(s) ==
  IF ~Active(s) THEN s
  ELSE [s EXCEPT !.lease = None, !.schedules = IdleSchedules,
                 !.exhausted = @ \/ s.epoch = MaxEpoch,
                 !.epoch = IF @ = MaxEpoch THEN @ ELSE @ + 1]

\* A clock that went back ends the run and restarts the bucket's fraction.
RolledBack(s, now) ==
  IF now < s.last_time THEN [End(s) EXCEPT !.token_time = now] ELSE s

\* Mutant: the lease still lives at the very instant it expires.
Expired_AfterExpiry(s, now) == Active(s) /\ now > s.lease.expiry

Expired(s, now) == Active(s) /\ now >= s.lease.expiry

\* Mutant: the time a token was granted for is not used up while more is needed.
Refilled_PaysTwice(s, now) ==
  LET refill == SatSub(now, s.token_time) \div TokenPeriod IN
  [s EXCEPT !.tokens = AtMost(Burst, @ + AtMost(Burst, refill)),
            !.token_time = IF refill > Burst THEN now - (SatSub(now, @) % TokenPeriod) ELSE @]

Refilled(s, now) ==
  LET refill == SatSub(now, s.token_time) \div TokenPeriod IN
  [s EXCEPT !.tokens = AtMost(Burst, @ + AtMost(Burst, refill)),
            !.token_time = IF refill > 0 THEN now - (SatSub(now, @) % TokenPeriod) ELSE @]

Tick(s, now) ==
  LET r == [RolledBack(s, now) EXCEPT !.last_time = now] IN
  Refilled(IF Expired(r, now) THEN End(r) ELSE r, now)

Reject(s, crc) ==
  IF Active(s) THEN [s EXCEPT !.counters = Rejected(@, crc)] ELSE s

-----------------------------------------------------------------------------
(* Requests.  `addressed` is FALSE for a datagram that decodes but fails     *)
(* structural validation, names another device or boot, or is no request.    *)

Requests(ids, epochs, configurations, payloads) ==
  [kind : {"configure"}, addressed : {TRUE}, client : Clients, epoch : epochs,
   id : ids, config : configurations, payload : {None}]
    \cup
  [kind : {"renew", "stop", "capabilities"}, addressed : {TRUE}, client : Clients,
   epoch : epochs, id : ids, config : {None}, payload : {None}]
    \cup
  [kind : {"probe"}, addressed : {TRUE}, client : Clients, epoch : epochs,
   id : ids, config : {None}, payload : payloads]
    \cup
  [kind : {"renew"}, addressed : {FALSE}, client : Clients, epoch : epochs,
   id : ids, config : {None}, payload : {None}]

ControlOf(m) == [kind |-> m.kind, id |-> m.id, config |-> m.config]

\* Mutants: the exhausted epoch is run again; ownership is not checked.
Assess_ReusesLastEpoch(s, m) ==
  IF m.epoch # s.epoch THEN "STALE_RUN"
  ELSE IF Active(s) /\ ~Owner(s, m.client) THEN "BUSY"
  ELSE IF Active(s) /\ m.id = s.lease.last.id
       THEN IF s.lease.last = ControlOf(m) THEN "ALREADY_APPLIED" ELSE "REQUEST_CONFLICT"
  ELSE IF Active(s) /\ m.id < s.lease.last.id THEN "STALE_CONTROL"
  ELSE IF m.kind = "configure" /\ ~configuration_valid(m.config) THEN "INVALID_CONFIGURATION"
  ELSE IF m.kind = "configure" /\ Active(s) THEN "BUSY"
  ELSE IF m.kind # "configure" /\ ~Active(s) THEN "NOT_ACTIVE"
  ELSE IF m.kind = "stop" THEN "STOPPED" ELSE "APPLIED"
Assess_AnyClient(s, m) ==
  IF m.epoch # s.epoch THEN "STALE_RUN"
  ELSE IF s.exhausted THEN "RESOURCE_EXHAUSTED"
  ELSE IF Active(s) /\ m.id = s.lease.last.id
       THEN IF s.lease.last = ControlOf(m) THEN "ALREADY_APPLIED" ELSE "REQUEST_CONFLICT"
  ELSE IF Active(s) /\ m.id < s.lease.last.id THEN "STALE_CONTROL"
  ELSE IF m.kind = "configure" /\ ~configuration_valid(m.config) THEN "INVALID_CONFIGURATION"
  ELSE IF m.kind = "configure" /\ Active(s) THEN "BUSY"
  ELSE IF m.kind # "configure" /\ ~Active(s) THEN "NOT_ACTIVE"
  ELSE IF m.kind = "stop" THEN "STOPPED" ELSE "APPLIED"

\* The result code of a control, checked in the order of the source.
Assess(s, m) ==
  IF m.epoch # s.epoch THEN "STALE_RUN"
  ELSE IF s.exhausted THEN "RESOURCE_EXHAUSTED"
  ELSE IF Active(s) /\ ~Owner(s, m.client) THEN "BUSY"
  ELSE IF Active(s) /\ m.id = s.lease.last.id
       THEN IF s.lease.last = ControlOf(m) THEN "ALREADY_APPLIED" ELSE "REQUEST_CONFLICT"
  ELSE IF Active(s) /\ m.id < s.lease.last.id THEN "STALE_CONTROL"
  ELSE IF m.kind = "configure" /\ ~configuration_valid(m.config) THEN "INVALID_CONFIGURATION"
  ELSE IF m.kind = "configure" /\ Active(s) THEN "BUSY"
  ELSE IF m.kind # "configure" /\ ~Active(s) THEN "NOT_ACTIVE"
  ELSE IF m.kind = "stop" THEN "STOPPED" ELSE "APPLIED"

Acquired(s, m, now) ==
  [s EXCEPT !.schedules = [i \in Streams |-> [due |-> now + m.config.period[i],
                                              period |-> m.config.period[i],
                                              sequence |-> 0]],
            !.counters = NewCounters,
            !.lease = [client |-> m.client, config |-> m.config,
                       last |-> ControlOf(m), expiry |-> 0]]

\* The effect of an accepted control.
Applied(s, m, now) ==
  LET run == IF m.kind = "configure" THEN Acquired(s, m, now) ELSE s
      counted == [run EXCEPT !.counters = Received(@)] IN
  IF m.kind = "stop" THEN End(counted)
  ELSE [counted EXCEPT !.lease.last = ControlOf(m),
                       !.lease.expiry = now + run.lease.config.lease * UsPerMs]

Bucketed(s, reply) ==
  IF s.tokens = 0
  THEN [service |-> [s EXCEPT !.suppressed_replies = SatAdd(@, 1)], reply |-> None]
  ELSE [service |-> [s EXCEPT !.tokens = @ - 1], reply |-> reply]

\* Milliseconds of lease a control reply reports to the client that owns the run.
Remaining(s, m, now) ==
  IF Owner(s, m.client) /\ m.epoch = s.epoch
  THEN SatSub(s.lease.expiry, now) \div UsPerMs ELSE 0

\* Mutant: without a token for the reply the control is not carried out.
HandleControl_BucketFirst(s, m, now) ==
  LET code == Assess(s, m)
      effect == IF s.tokens = 0 THEN s
                ELSE IF code \in {"APPLIED", "STOPPED"} THEN Applied(s, m, now)
                ELSE IF code = "ALREADY_APPLIED" THEN s
                ELSE Reject(s, FALSE) IN
  Bucketed(effect, [kind |-> "result", client |-> m.client, epoch |-> m.epoch, id |-> m.id,
                    code |-> code, remaining |-> Remaining(effect, m, now)])

HandleControl(s, m, now) ==
  LET code == Assess(s, m)
      effect == IF code \in {"APPLIED", "STOPPED"} THEN Applied(s, m, now)
                ELSE IF code = "ALREADY_APPLIED" THEN s
                ELSE Reject(s, FALSE) IN
  Bucketed(effect, [kind |-> "result", client |-> m.client, epoch |-> m.epoch, id |-> m.id,
                    code |-> code, remaining |-> Remaining(effect, m, now)])

\* A probe is served for the owner of the current run if it carries the
\* configured pattern; its reply bypasses the bucket.
ProbeServed(s, m) ==
  /\ Owner(s, m.client)
  /\ m.epoch = s.epoch
  /\ m.payload = Pattern(s.lease.config.payload, s.lease.config.seed, m.id)

HandleProbe(s, m) ==
  IF ProbeServed(s, m)
  THEN [service |-> [s EXCEPT !.counters = Received(@)],
        reply |-> [kind |-> "probe_response", client |-> m.client, epoch |-> s.epoch,
                   id |-> m.id, payload |-> m.payload]]
  ELSE [service |-> Reject(s, FALSE), reply |-> None]

Capabilities(s, m) ==
  [kind |-> "limits", client |-> m.client, epoch |-> s.epoch, id |-> m.id,
   available |-> ~Active(s) /\ ~s.exhausted]

Handle(s, m, now) ==
  LET t == Tick(s, now) IN
  IF ~m.addressed THEN [service |-> Reject(t, FALSE), reply |-> None]
  ELSE IF m.kind = "capabilities" THEN Bucketed(t, Capabilities(t, m))
  ELSE IF m.kind = "probe" THEN HandleProbe(t, m)
  ELSE HandleControl(t, m, now)

-----------------------------------------------------------------------------
(* Publications.                                                             *)

IsDue(s, i, now) ==
  Active(s) /\ s.schedules[i].period > 0 /\ now >= s.schedules[i].due

Skipped(s, i, now) == (now - s.schedules[i].due) \div s.schedules[i].period
DueSequence(s, i, now) == (s.schedules[i].sequence + Skipped(s, i, now)) % SequenceMod

\* Mutants: the next sample is due one period after this one was taken, or one
\* period after it was due whatever was skipped.
Advanced_Drifts(s, i, now) ==
  [s.schedules[i] EXCEPT !.sequence = (DueSequence(s, i, now) + 1) % SequenceMod,
                         !.due = now + s.schedules[i].period]
Advanced_CatchesUp(s, i, now) ==
  [s.schedules[i] EXCEPT !.sequence = (@ + 1) % SequenceMod,
                         !.due = @ + s.schedules[i].period]

Advanced(s, i, now) ==
  LET p == s.schedules[i] IN
  [p EXCEPT !.sequence = (DueSequence(s, i, now) + 1) % SequenceMod,
            !.due = now + (p.period - ((now - p.due) % p.period))]

Publish(s, i, now) ==
  LET t == Tick(s, now) IN
  IF ~IsDue(t, i, now) THEN [service |-> t, reply |-> None]
  ELSE [service |-> [t EXCEPT !.schedules[i] = Advanced(t, i, now),
                              !.counters = Skip(@, Skipped(t, i, now))],
        reply |-> [kind |-> "publication", stream |-> i, client |-> t.lease.client,
                   epoch |-> t.epoch, sequence |-> DueSequence(t, i, now),
                   payload |-> Pattern(t.lease.config.payload, t.lease.config.seed,
                                       DueSequence(t, i, now))]]

-----------------------------------------------------------------------------
(* The run a client sees, without the machinery that implements it: the      *)
(* variables of BenchmarkRun as functions of the service's state.            *)

RunNumber(s) == IF s.exhausted THEN MaxEpoch + 1 ELSE s.epoch
RunHolder(s) == IF Active(s) THEN s.lease.client ELSE None
RunLast(s) == IF Active(s) THEN s.lease.last.id ELSE 0
RunDeadline(s) == IF Active(s) THEN s.lease.expiry ELSE 0
=============================================================================
