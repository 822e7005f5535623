------------------------------- MODULE LoadRunner -------------------------------
(***************************************************************************)
(* One load trial of the UDP benchmark (tools/udp-benchmark/src/runner.rs, *)
(* BenchSocket::load): a sender thread that paces packets and keeps at     *)
(* most Window of them outstanding, a receiver thread that classifies the  *)
(* replies, and the states of the packets they share through atomics.  An  *)
(* action is one thread's code from one access to a shared atomic to the   *)
(* next.  The network loses, repeats, delays, reorders and damages.        *)
(***************************************************************************)
EXTENDS Integers, FiniteSets

CONSTANTS
  Count,         \* packets planned
  Window,
  Gap,           \* time between two packets of the schedule
  Measurement, Drain, Timeout,
  Repeated,      \* bound: the packets whose reply the network repeats
  MaxTime,       \* bound of the clock
  Preemption     \* whether the sender can be interrupted between two of its steps

ASSUME LoadAssumption ==
  /\ {Count, Gap, Measurement, Drain, MaxTime} \subseteq Nat
  /\ Window \in Nat \ {0}        \* load refuses a window of zero
  /\ Timeout \in Nat /\ Preemption \in BOOLEAN

Packets == 0..Count - 1

Copies(p) == IF p \in Repeated THEN {1, 2} ELSE {1}

VARIABLES
  now,
  state,        \* of each packet, shared
  sent_times,   \* shared
  outstanding,  \* shared
  sender,       \* [pc, sequence, cursor, at]: at is the time expire_old works with
  receiver,     \* [pc, packet, rtt]
  counters,
  wire,         \* replies that may still arrive, as <<packet, copy>>
  left          \* history: when each packet that was sent left, or None

vars == <<now, state, sent_times, outstanding, sender, receiver, counters, wire, left>>
shared == <<state, sent_times, outstanding>>

States == {"unsent", "outstanding", "replied", "expired", "error"}     \* 0..4

Init ==
  /\ now = 0
  /\ state = [p \in Packets |-> "unsent"]
  /\ sent_times = [p \in Packets |-> 0]
  /\ outstanding = 0
  /\ sender = [pc |-> "pace", sequence |-> 0, cursor |-> 0, at |-> 0]
  /\ receiver = [pc |-> "recv", packet |-> 0, rtt |-> 0]
  /\ counters = [sent |-> 0, errors |-> 0, valid |-> 0, late |-> 0, duplicates |-> 0,
                 corrupt |-> 0, reordered |-> 0, maximum |-> -1]
  /\ wire = {}
  /\ left = [p \in Packets |-> -1]

Sender(pc) == sender' = [sender EXCEPT !.pc = pc]
-----------------------------------------------------------------------------
(* Sender thread. *)

\* The packet's turn in the schedule; past the measurement the sender stops.
Pace ==
  /\ sender.pc = "pace"
  /\ \/ sender.sequence = Count /\ Sender("done")
     \/ /\ sender.sequence < Count /\ now >= sender.sequence * Gap
        /\ Sender(IF now >= Measurement THEN "done" ELSE "window")
  /\ UNCHANGED <<now, shared, receiver, counters, wire, left>>

HasRoom == outstanding < Window

Admit ==
  /\ sender.pc = "window"
  /\ sender' = IF HasRoom THEN [sender EXCEPT !.pc = "publish"]
               ELSE [sender EXCEPT !.pc = "scan", !.at = now]
  /\ UNCHANGED <<now, shared, receiver, counters, wire, left>>

\* expire_old: packets are looked at in order, up to the first that is too young.
TooYoung_Never(p) == FALSE
TooYoung(p) == sender.at - sent_times[p] < Timeout

Scan ==
  /\ sender.pc = "scan"
  /\ sender' =
       IF sender.cursor = sender.sequence THEN [sender EXCEPT !.pc = "window"]
       ELSE IF state[sender.cursor] # "outstanding" THEN [sender EXCEPT !.cursor = @ + 1]
       ELSE IF TooYoung(sender.cursor) THEN [sender EXCEPT !.pc = "window"]
       ELSE [sender EXCEPT !.pc = "expire"]
  /\ UNCHANGED <<now, shared, receiver, counters, wire, left>>

Expirable_Unchecked(p) == TRUE
Expirable(p) == state[p] = "outstanding"

\* compare_exchange: the reply may have come since the state was looked at.
Expire ==
  /\ sender.pc = "expire"
  /\ LET p == sender.cursor IN
       IF Expirable(p)
       THEN state' = [state EXCEPT ![p] = "expired"] /\ Sender("release")
       ELSE UNCHANGED state /\ sender' = [sender EXCEPT !.pc = "scan", !.cursor = @ + 1]
  /\ UNCHANGED <<now, sent_times, outstanding, receiver, counters, wire, left>>

Release_Forgotten ==
  /\ sender.pc = "release"
  /\ sender' = [sender EXCEPT !.pc = "scan", !.cursor = @ + 1]
  /\ UNCHANGED <<now, shared, receiver, counters, wire, left>>
Release ==
  /\ sender.pc = "release"
  /\ outstanding' = outstanding - 1
  /\ sender' = [sender EXCEPT !.pc = "scan", !.cursor = @ + 1]
  /\ UNCHANGED <<now, state, sent_times, receiver, counters, wire, left>>

\* Time stamp, state and window are updated before the packet is sent.
Publish ==
  /\ sender.pc = "publish"
  /\ sent_times' = [sent_times EXCEPT ![sender.sequence] = now]
  /\ state' = [state EXCEPT ![sender.sequence] = "outstanding"]
  /\ outstanding' = outstanding + 1
  /\ Sender("send")
  /\ UNCHANGED <<now, receiver, counters, wire, left>>

NextPacket == sender' = [sender EXCEPT !.pc = "pace", !.sequence = @ + 1]

Send ==
  /\ sender.pc = "send"
  /\ wire' = wire \union {<<sender.sequence, c>> : c \in Copies(sender.sequence)}
  /\ left' = [left EXCEPT ![sender.sequence] = now]
  /\ counters' = [counters EXCEPT !.sent = @ + 1]
  /\ NextPacket
  /\ UNCHANGED <<now, shared, receiver>>

SendFails ==
  /\ sender.pc = "send"
  /\ state' = [state EXCEPT ![sender.sequence] = "error"]
  /\ outstanding' = outstanding - 1
  /\ counters' = [counters EXCEPT !.errors = @ + 1]
  /\ NextPacket
  /\ UNCHANGED <<now, sent_times, receiver, wire, left>>

Send_Next == Pace \/ Admit \/ Scan \/ Expire \/ Release \/ Publish \/ Send \/ SendFails
-----------------------------------------------------------------------------
(* Receiver thread. *)

Deadline == Measurement + Drain

\* Between two receptions the receiver looks at the clock.
NextReception == IF now >= Deadline THEN "done" ELSE "recv"

\* A reply whose header, run and contents are those of a packet of this trial.
Receive ==
  /\ receiver.pc = "recv"
  /\ \E r \in wire :
       /\ wire' = wire \ {r}
       /\ receiver' = [pc |-> "classify", packet |-> r[1], rtt |-> now - sent_times[r[1]]]
  /\ UNCHANGED <<now, shared, sender, counters, left>>

\* A damaged datagram, or one of another trial.
ReceiveCorrupt ==
  /\ receiver.pc = "recv"
  /\ \E r \in wire : wire' = wire \ {r}
  /\ counters' = [counters EXCEPT !.corrupt = @ + 1]
  /\ receiver' = [receiver EXCEPT !.pc = NextReception]
  /\ UNCHANGED <<now, shared, sender, left>>

\* classify_receipt swaps the state, counts and, for a packet that was outstanding,
\* makes room in the window.
Frees(p) == state[p] = "outstanding"

Late(p) == state[p] = "expired" \/ receiver.rtt > Timeout

Counted_LateIsMissing(c, p) ==
  IF state[p] = "replied" THEN [c EXCEPT !.duplicates = @ + 1]
  ELSE IF Late(p) THEN [c EXCEPT !.late = @ + 1]
  ELSE [c EXCEPT !.valid = @ + 1]
Counted(c, p) ==
  IF state[p] = "replied" THEN [c EXCEPT !.duplicates = @ + 1]
  ELSE [c EXCEPT !.valid = @ + 1, !.late = IF Late(p) THEN @ + 1 ELSE @,
                 !.reordered = IF p < c.maximum THEN @ + 1 ELSE @,
                 !.maximum = IF p > @ THEN p ELSE @]

Classify ==
  /\ receiver.pc = "classify"
  /\ LET p == receiver.packet IN
       /\ counters' = Counted(counters, p)
       /\ state' = [state EXCEPT ![p] = "replied"]
       /\ receiver' = [receiver EXCEPT !.pc = IF Frees(p) THEN "release" ELSE NextReception]
  /\ UNCHANGED <<now, sent_times, outstanding, sender, wire, left>>

ReceiverReleases ==
  /\ receiver.pc = "release"
  /\ outstanding' = outstanding - 1
  /\ receiver' = [receiver EXCEPT !.pc = NextReception]
  /\ UNCHANGED <<now, state, sent_times, sender, counters, wire, left>>

\* Nothing came until the deadline.
ReceiverEnds ==
  /\ receiver.pc = "recv" /\ now >= Deadline
  /\ receiver' = [receiver EXCEPT !.pc = "done"]
  /\ UNCHANGED <<now, shared, sender, counters, wire, left>>

\* The socket fails; the trial is then discarded.
ReceiverFails ==
  /\ receiver.pc = "recv"
  /\ receiver' = [receiver EXCEPT !.pc = "failed"]
  /\ UNCHANGED <<now, shared, sender, counters, wire, left>>

Receive_Next == Receive \/ ReceiveCorrupt \/ Classify \/ ReceiverReleases \/ ReceiverEnds \/ ReceiverFails
-----------------------------------------------------------------------------
Lose ==
  /\ \E r \in wire : wire' = wire \ {r}
  /\ UNCHANGED <<now, shared, sender, receiver, counters, left>>

\* The sender waits for its schedule or for room in the window.
Waiting ==
  \/ sender.pc = "pace" /\ sender.sequence < Count /\ now < sender.sequence * Gap
  \/ sender.pc = "window" /\ ~HasRoom
  \/ sender.pc = "done"

Elapse ==
  /\ Preemption \/ Waiting
  /\ now < MaxTime /\ now' = now + 1
  /\ UNCHANGED <<shared, sender, receiver, counters, wire, left>>

Next == Send_Next \/ Receive_Next \/ Lose \/ Elapse

Spec == Init /\ [][Next]_vars
FairSpec ==
  /\ Spec
  /\ WF_vars(Send_Next) /\ WF_vars(Classify \/ ReceiverReleases) /\ WF_vars(ReceiverEnds)
  /\ WF_vars(Elapse)
-----------------------------------------------------------------------------
(* The result of a trial. *)

Finished == sender.pc = "done" /\ receiver.pc = "done"

Missing == IF counters.sent > counters.valid THEN counters.sent - counters.valid ELSE 0

\* The packets whose bytes make up the offered rate and the goodput.
Offered == {p \in Packets : state[p] # "error"}
Goodput == {p \in Packets : state[p] = "replied"}

SenderState ==
  [pc : {"pace", "window", "scan", "expire", "release", "publish", "send", "done"},
   sequence : 0..Count, cursor : 0..Count, at : 0..MaxTime]
ReceiverState ==
  [pc : {"recv", "classify", "release", "done", "failed"},
   packet : 0..Count, rtt : 0..MaxTime]
Tally ==
  [sent : Nat, errors : Nat, valid : Nat, late : Nat, duplicates : Nat, corrupt : Nat,
   reordered : Nat, maximum : -1..Count]

TypeOK ==
  /\ now \in 0..MaxTime
  /\ state \in [Packets -> States] /\ sent_times \in [Packets -> 0..MaxTime]
  /\ outstanding \in 0..Window
  /\ sender \in SenderState /\ receiver \in ReceiverState
  /\ counters \in Tally
  /\ wire \subseteq Packets \X {1, 2}
  /\ left \in [Packets -> -1..MaxTime]

\* The shared window count is the number of outstanding packets plus the releases under way
\* in the two threads: a reply that races the expiry of its packet frees its place once.
WindowExact ==
  /\ outstanding <= Window
  /\ outstanding = Cardinality({p \in Packets : state[p] = "outstanding"})
                   + (IF sender.pc = "release" THEN 1 ELSE 0)
                   + (IF receiver.pc = "release" THEN 1 ELSE 0)

\* A packet expires only once its time-out has passed, a reply to it is then late, and no
\* outstanding packet is left behind the cursor, where nothing would ever expire it.
ExpiryExact ==
  /\ \A p \in Packets : state[p] = "expired" => now - sent_times[p] >= Timeout
  /\ \A p \in 0..sender.cursor - 1 : state[p] # "outstanding"

\* In a finished trial every packet that left is counted valid or missing, goodput is made
\* of exactly the packets counted valid, and what was counted late is part of them.
CountsAgree ==
  Finished =>
    /\ counters.sent = Cardinality({p \in Packets : left[p] >= 0})
    /\ counters.valid + Missing = counters.sent
    /\ counters.valid = Cardinality(Goodput) /\ counters.late <= counters.valid
    /\ counters.valid + counters.duplicates + counters.corrupt <= 2 * counters.sent

\* Whatever is lost, both threads come to their end.
TrialEnds == <>(sender.pc = "done" /\ receiver.pc \in {"done", "failed"})

\* The offered rate is made of the packets that were sent in the measurement.
OfferedIsSent == Finished => Offered = {p \in Packets : left[p] >= 0}
=============================================================================
