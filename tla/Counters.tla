------------------------------- MODULE Counters -------------------------------
(***************************************************************************)
(* The diagnostic counters the command, publication and benchmark tasks    *)
(* share (Rust/messaging/src/service.rs, struct Counters).  They saturate; *)
(* `active` holds one failure bit per socket.                              *)
(***************************************************************************)
EXTENDS Integers

CONSTANT CounterMax     \* u32::MAX

ASSUME CounterAssumption == CounterMax \in Nat

CounterRange == 0..CounterMax
Sockets == 0..2

CounterState ==
  [received : CounterRange, rejected : CounterRange, crc_rejections : CounterRange,
   send_errors : CounterRange, skipped : CounterRange, active : [Sockets -> BOOLEAN]]

NewCounters ==
  [received |-> 0, rejected |-> 0, crc_rejections |-> 0, send_errors |-> 0,
   skipped |-> 0, active |-> [i \in Sockets |-> FALSE]]

SatAdd(n, amount) == IF n + amount > CounterMax THEN CounterMax ELSE n + amount

Received(c) == [c EXCEPT !.received = SatAdd(@, 1)]

Rejected(c, crc) ==
  [c EXCEPT !.rejected = SatAdd(@, 1),
            !.crc_rejections = IF crc THEN SatAdd(@, 1) ELSE @]

Skip(c, amount) == [c EXCEPT !.skipped = SatAdd(@, amount)]

Sent(c, socket, success) ==
  [c EXCEPT !.active[socket] = ~success,
            !.send_errors = IF success THEN @ ELSE SatAdd(@, 1)]

\* Service health is 2 (degraded) while any socket's last operation failed.
HealthState(c) == IF \E i \in Sockets : c.active[i] THEN 2 ELSE 1
=============================================================================
