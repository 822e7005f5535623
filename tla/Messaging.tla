------------------------------- MODULE Messaging -------------------------------
(***************************************************************************)
(* The command task and the publication tasks of the messaging firmware    *)
(* (src/servers/embassy_messaging.rs), with the publication schedule and   *)
(* the command policy of messaging/src/schedule.rs and service.rs.         *)
(*                                                                         *)
(* The tasks share one executor and are interrupted only where they wait;  *)
(* an action is what a task does from one wait to the next.  Time is kept  *)
(* relative to each timer, so that behaviours never run out of clock:      *)
(* `until` is the time to a publisher's next slot (negative when it is     *)
(* late), `drain` the rest of the time a send may take, `age` the time     *)
(* since the policy last counted its credit.  Bind errors, which panic,    *)
(* belong to Startup.                                                      *)
(***************************************************************************)
EXTENDS Counters, Sequences, FiniteSets

CONSTANTS
  Publishers,    \* the publication tasks: sockets 1 (status) and 2 (health)
  Period,        \* [Publishers -> period]
  MaxLate,       \* bound: the executor polls a due task within this time
  DrainLimit,    \* 50 ms, the time a queue may take to drain
  Credit, Cost,  \* 1000 and 100: credit of the limiter, price of an error reply
  SequenceMod,   \* 2^32
  Datagrams,     \* the datagrams that may arrive
  Addresses, None,
  QueueLength    \* datagrams an open command socket holds

ASSUME MessagingAssumption ==
  /\ Publishers \subseteq {1, 2}
  /\ Period \in [Publishers -> Nat \ {0}]
  /\ {MaxLate, DrainLimit, Credit, Cost} \subseteq Nat
  /\ SequenceMod \in Nat \ {0}
  /\ QueueLength \in Nat \ {0}

VARIABLES
  net,        \* link state and address of the stack
  cmd,        \* the command task, its socket and its policy
  pub,        \* the publication tasks and their sockets
  counters,
  grid,       \* history: time to each publisher's next slot, number of that slot
  owed,       \* history: slots passed, less packets sent, less slots counted as skipped
  lost        \* history: losses of each publisher that no complete send has made good

vars == <<net, cmd, pub, counters, grid, owed, lost>>

\* A publisher's losses: slots skipped on the way to the sample it is sending, and anything
\* before that: its link, a slot or a packet.
Losses == {"earlier", "behind"}

Forms == {"truncated", "corrupt", "malformed", "message"}
Datagram == [form : Forms, valid : BOOLEAN, target : BOOLEAN, correlated : BOOLEAN,
             kind : {"none", "request", "answer", "other"}]

Ready == net.link /\ net.address # None

Least(a, b) == IF a < b THEN a ELSE b
-----------------------------------------------------------------------------
(* Command policy: the decision on a parsed datagram and the credit left. *)

Accepted(d) == d.valid /\ d.kind = "request" /\ d.target

Unanswerable(d) == ~d.target \/ ~d.correlated \/ d.kind = "answer"

Refilled_Lossy == Least(cmd.credits + (cmd.age \div Cost) * Cost, Credit)
Refilled == Least(cmd.credits + cmd.age, Credit)

Assess(d) ==
  IF Accepted(d) THEN [decision |-> "accept", credits |-> cmd.credits, age |-> cmd.age]
  ELSE IF Unanswerable(d)
  THEN [decision |-> "ignore", credits |-> cmd.credits, age |-> cmd.age]
  ELSE IF Refilled < Cost THEN [decision |-> "limited", credits |-> Refilled, age |-> 0]
  ELSE [decision |-> "error", credits |-> Refilled - Cost, age |-> 0]
-----------------------------------------------------------------------------
Init ==
  /\ net \in [link : {FALSE}, address : {None}]
  /\ cmd = [pc |-> "head", open |-> TRUE, rx |-> <<>>, tx |-> <<>>, drain |-> 0,
            credits |-> Credit, age |-> 0, decision |-> "none"]
  /\ pub = [i \in Publishers |->
             [pc |-> "asleep", open |-> FALSE, tx |-> <<>>, drain |-> 0, late |-> FALSE,
              until |-> Period[i], sequence |-> 0]]
  /\ counters = NewCounters
  /\ grid = [i \in Publishers |-> [phase |-> Period[i], number |-> 0]]
  /\ owed = 0
  /\ lost = [i \in Publishers |-> {}]

\* History: slots owed, until the counter of skipped slots saturates.
Settle(change) ==
  owed' = IF counters'.skipped = CounterMax THEN 0
          ELSE owed + change - (counters'.skipped - counters.skipped)
-----------------------------------------------------------------------------
(* Publication task i. *)

\* The loop's head: wait for the slot or for link loss, or close and wait for the slot.
AtHead(p) ==
  IF Ready THEN [p EXCEPT !.pc = "select"]
  ELSE [p EXCEPT !.pc = "asleep", !.open = FALSE, !.tx = <<>>]

Active(c, i) == [c EXCEPT !.active[i] = TRUE]

LinkLost(i) ==
  /\ pub[i].pc = "select" /\ pub[i].until > 0 /\ ~Ready
  /\ pub' = [pub EXCEPT ![i] = AtHead(@)]
  /\ counters' = Active(counters, i)
  /\ lost' = [lost EXCEPT ![i] = {"earlier"}]
  /\ UNCHANGED <<net, cmd, grid, owed>>

\* Schedule::take_due: the newest slot that is due; the ones before it are skipped.
Skipped(p, i) == (-p.until) \div Period[i]

TakeDue_Drifts(p, i) ==
  [p EXCEPT !.until = Period[i], !.sequence = (@ + Skipped(p, i) + 1) % SequenceMod,
            !.late = Skipped(p, i) > 0]
TakeDue(p, i) ==
  [p EXCEPT !.until = @ + (Skipped(p, i) + 1) * Period[i],
            !.sequence = (@ + Skipped(p, i) + 1) % SequenceMod,
            !.late = Skipped(p, i) > 0]

CountSkipped_Shown(c, i, n) == IF n > 0 THEN Active(c, i) ELSE c
CountSkipped(c, i, n) == IF n > 0 THEN Active(Skip(c, n), i) ELSE c

Counted_SlotHidden(i, more) == Skip(CountSkipped(counters, i, Skipped(pub[i], i)), more)
Counted(i, more) == CountSkipped(counters, i, Skipped(pub[i], i) + more)

Slot(i, sendable, result, counted, losses) ==
  /\ pub[i].pc \in {"select", "asleep"} /\ pub[i].until <= 0
  /\ sendable
  /\ pub' = [pub EXCEPT ![i] = result]
  /\ counters' = counted
  /\ lost' = [lost EXCEPT ![i] = losses]
  /\ Settle(0)
  /\ UNCHANGED <<net, cmd, grid>>

TakeUnready(i) == Slot(i, ~Ready, AtHead(TakeDue(pub[i], i)), Counted(i, 1), {"earlier"})

\* Encoding fails after the socket was opened: the slot is skipped.
EncodeFails(i) ==
  Slot(i, Ready, AtHead([TakeDue(pub[i], i) EXCEPT !.open = TRUE]), Counted(i, 1),
       {"earlier"})

Offer(i) ==
  Slot(i, Ready /\ pub[i].tx = <<>>,
       [TakeDue(pub[i], i) EXCEPT !.open = TRUE, !.pc = "flush",
          !.tx = <<(pub[i].sequence + Skipped(pub[i], i)) % SequenceMod>>,
          !.drain = Least(Period[i], DrainLimit)], Counted(i, 0),
       IF Skipped(pub[i], i) > 0 THEN lost[i] \union {"behind"} ELSE lost[i])

Undrained_KeepsQueue(p) == p
Undrained(p) == [p EXCEPT !.open = FALSE, !.tx = <<>>]

\* The stack refuses the packet: a failed send.
Refused(i) ==
  Slot(i, Ready, AtHead(Undrained(TakeDue(pub[i], i))), Sent(Counted(i, 1), i, FALSE),
       {"earlier"})

\* A send that succeeded or failed; slots skipped before it keep the socket's bit set.
Published(i, success) ==
  /\ counters' = LET c == Sent(counters, i, success)
                     d == IF success THEN c ELSE Skip(c, 1)
                 IN IF pub[i].late THEN Active(d, i) ELSE d
  /\ lost' = [lost EXCEPT ![i] = IF success /\ "behind" \notin @ THEN {} ELSE {"earlier"}]
  /\ UNCHANGED <<net, cmd, grid>>

Drained(i) ==
  /\ pub[i].pc = "flush" /\ pub[i].tx = <<>>
  /\ pub' = [pub EXCEPT ![i] = AtHead(@)]
  /\ Published(i, TRUE)
  /\ UNCHANGED owed

Overdue_LinkOnly(p) == ~Ready
Overdue(p) == p.drain = 0 \/ ~Ready

DrainFails(i) ==
  /\ pub[i].pc = "flush" /\ pub[i].tx # <<>> /\ Overdue(pub[i])
  /\ pub' = [pub EXCEPT ![i] = AtHead(Undrained(@))]
  /\ Published(i, FALSE)
  /\ Settle(0)

Publisher(i) ==
  \/ LinkLost(i) \/ TakeUnready(i) \/ EncodeFails(i) \/ Offer(i) \/ Drained(i)
  \/ DrainFails(i) \/ Refused(i)
-----------------------------------------------------------------------------
(* Command task. *)

CommandsClosed == [cmd EXCEPT !.open = FALSE, !.rx = <<>>, !.tx = <<>>, !.pc = "head"]

CommandsDown ==
  /\ ~Ready /\ (cmd.pc = "head" \/ (cmd.pc = "recv" /\ cmd.rx = <<>>))
  /\ cmd' = CommandsClosed
  /\ counters' = Active(counters, 0)
  /\ UNCHANGED <<net, pub, grid, owed, lost>>

Listen ==
  /\ cmd.pc = "head" /\ Ready
  /\ cmd' = [cmd EXCEPT !.pc = "recv", !.open = TRUE]
  /\ UNCHANGED <<net, pub, counters, grid, owed, lost>>

\* What one datagram does to the task and to the counters.
Handled(m) ==
  LET d == m.datagram
      rest == [cmd EXCEPT !.rx = Tail(@), !.pc = "head", !.decision = "none"]
      a == Assess(d)
      judged == [rest EXCEPT !.decision = a.decision, !.credits = a.credits, !.age = a.age]
      counted == IF a.decision = "accept" THEN Received(counters) ELSE Rejected(counters, FALSE)
  IN IF d.form = "truncated" \/ m.local # net.address
     THEN {<<rest, Rejected(counters, FALSE)>>}
     ELSE IF d.form # "message" THEN {<<rest, Rejected(counters, d.form = "corrupt")>>}
     ELSE IF a.decision \in {"ignore", "limited"} THEN {<<judged, counted>>}
     ELSE {<<judged, Active(counted, 0)>>,                         \* encoding fails
           <<[judged EXCEPT !.open = FALSE, !.rx = <<>>, !.tx = <<>>],  \* the stack refuses
             Sent(counted, 0, FALSE)>>,
           <<[judged EXCEPT !.pc = "flush", !.tx = Append(@, a.decision), !.drain = DrainLimit],
             counted>>}

TakeDatagram ==
  /\ cmd.pc = "recv" /\ cmd.rx # <<>>
  /\ \E h \in Handled(cmd.rx[1]) : cmd' = h[1] /\ counters' = h[2]
  /\ UNCHANGED <<net, pub, grid, owed, lost>>

Replied ==
  /\ cmd.pc = "flush" /\ cmd.tx = <<>>
  /\ cmd' = [cmd EXCEPT !.pc = "head"]
  /\ counters' = Sent(counters, 0, TRUE)
  /\ UNCHANGED <<net, pub, grid, owed, lost>>

ReplyUndrained == CommandsClosed

ReplyFails ==
  /\ cmd.pc = "flush" /\ cmd.tx # <<>> /\ Overdue(cmd)
  /\ cmd' = ReplyUndrained
  /\ counters' = Sent(counters, 0, FALSE)
  /\ UNCHANGED <<net, pub, grid, owed, lost>>

Commands == CommandsDown \/ Listen \/ TakeDatagram \/ Replied \/ ReplyFails
-----------------------------------------------------------------------------
(* The stack, the network and the clock. *)

NetworkChange ==
  /\ net' \in [link : BOOLEAN, address : Addresses \union {None}]
  /\ UNCHANGED <<cmd, pub, counters, grid, owed, lost>>

Arrive(d) ==
  /\ Ready /\ cmd.open /\ Len(cmd.rx) < QueueLength
  /\ \E local \in {net.address, "broadcast"} :
       cmd' = [cmd EXCEPT !.rx = Append(@, [datagram |-> d, local |-> local])]
  /\ UNCHANGED <<net, pub, counters, grid, owed, lost>>

TransmitReply ==
  /\ net.link /\ cmd.tx # <<>>
  /\ cmd' = [cmd EXCEPT !.tx = Tail(@)]
  /\ UNCHANGED <<net, pub, counters, grid, owed, lost>>

TransmitSample(i) ==
  /\ net.link /\ pub[i].tx # <<>>
  /\ pub' = [pub EXCEPT ![i].tx = <<>>]
  /\ owed' = IF counters.skipped = CounterMax THEN 0 ELSE owed - 1
  /\ UNCHANGED <<net, cmd, counters, grid, lost>>

Passes(i) == grid[i].phase = 1

Elapse ==
  /\ \A i \in Publishers : pub[i].until > -MaxLate
  /\ pub' = [i \in Publishers |->
              [pub[i] EXCEPT !.until = @ - 1, !.drain = IF @ > 0 THEN @ - 1 ELSE 0]]
  /\ cmd' = [cmd EXCEPT !.age = Least(@ + 1, Credit), !.drain = IF @ > 0 THEN @ - 1 ELSE 0]
  /\ grid' = [i \in Publishers |->
               IF Passes(i)
               THEN [phase |-> Period[i], number |-> (grid[i].number + 1) % SequenceMod]
               ELSE [grid[i] EXCEPT !.phase = @ - 1]]
  /\ owed' = IF counters.skipped = CounterMax THEN 0
             ELSE owed + Cardinality({i \in Publishers : Passes(i)})
  /\ UNCHANGED <<net, counters, lost>>

Next ==
  \/ \E i \in Publishers : Publisher(i) \/ TransmitSample(i)
  \/ Commands
  \/ \E d \in Datagrams : Arrive(d)
  \/ TransmitReply
  \/ NetworkChange
  \/ Elapse

Fairness ==
  /\ \A i \in Publishers : WF_vars(Publisher(i))
  /\ WF_vars(Commands)
  /\ WF_vars(Elapse)

Spec == Init /\ [][Next]_vars
FairSpec == Spec /\ Fairness
-----------------------------------------------------------------------------
Arrivals == [datagram : Datagrams, local : Addresses \union {"broadcast"}]

CommandState ==
  [pc : {"head", "recv", "flush"}, open : BOOLEAN, rx : Seq(Arrivals),
   tx : Seq({"accept", "error"}), drain : 0..DrainLimit, credits : 0..Credit, age : 0..Credit,
   decision : {"none", "accept", "error", "ignore", "limited"}]

PublisherState ==
  [pc : {"select", "asleep", "flush"}, open : BOOLEAN,
   tx : {<<>>} \union {<<n>> : n \in 0..SequenceMod - 1}, drain : 0..DrainLimit,
   late : BOOLEAN, until : Int, sequence : 0..SequenceMod - 1]

TypeOK ==
  /\ net \in [link : BOOLEAN, address : Addresses \union {None}]
  /\ cmd \in CommandState /\ Len(cmd.rx) <= QueueLength
  /\ pub \in [Publishers -> PublisherState]
  /\ \A i \in Publishers : pub[i].until \in -MaxLate..Period[i]
  /\ counters \in CounterState
  /\ grid \in [Publishers -> [phase : Nat, number : 0..SequenceMod - 1]]
  /\ \A i \in Publishers : grid[i].phase \in 1..Period[i]
  /\ owed \in Int
  /\ lost \in [Publishers -> SUBSET Losses]

Due(i) == IF pub[i].until > 0 THEN 0 ELSE (-pub[i].until) \div Period[i] + 1

\* What a publisher has still to send or to count.
Unsettled(i) == IF i \in Publishers THEN Due(i) + Len(pub[i].tx) ELSE 0

\* Whatever slots a late publisher skips, its next one is the next slot of the grid that
\* started with the task, and its sequence number is the number of that slot, across the
\* wrap (Schedule::take_due).
SlotsOnGrid ==
  \A i \in Publishers :
    /\ pub[i].until + Due(i) * Period[i] = grid[i].phase
    /\ (pub[i].sequence + Due(i)) % SequenceMod = grid[i].number

\* Every slot that has passed is still due, waits in the queue, was sent, or was counted
\* as skipped: none is lost without a trace and none is counted twice, whatever link loss,
\* full queue, encoding error or late wake-up it met (until the counter saturates).
SlotsAccounted ==
  counters.skipped < CounterMax =>
    owed = Unsettled(1) + Unsettled(2)

\* A stalled queue holds no sample beyond its send: a queued sample is that of the slot
\* taken last, and no queued reply outlives the 50 ms its sender waits.
NoStalePacket ==
  /\ \A i \in Publishers : pub[i].tx # <<>> =>
       /\ pub[i].pc = "flush"
       /\ (pub[i].tx[1] + 1) % SequenceMod = pub[i].sequence
  /\ cmd.tx # <<>> => cmd.pc = "flush" /\ Len(cmd.tx) = 1

\* Health is degraded while the command socket is closed, and on account of a publisher
\* exactly while it has a loss to show: its link went down under a wait, a slot passed
\* without a network, an encoding failed, a packet was refused or not drained, or slots were
\* skipped; only a complete send of a sample taken in time ends it.  Recovery of one socket
\* hides no failure of another.
FailuresShow ==
  /\ ~cmd.open => counters.active[0]
  /\ \A i \in Publishers : counters.active[i] <=> lost[i] # {}

\* Error replies keep to the limiter's budget, which loses no fraction of a reply however
\* the requests are spaced (CommandPolicy::assess).
Budget == INSTANCE ErrorBudget WITH
  Burst <- Credit, budget <- Least(cmd.credits + cmd.age, Credit), decision <- cmd.decision
BudgetKept == Budget!Spec

\* A due slot is taken although the queue never drains and the link comes and goes.
SlotsTaken == \A i \in Publishers : pub[i].until <= 0 ~> pub[i].until > 0

\* If the network stays up the command task comes back to receiving, even if its replies
\* never leave the queue.
CommandsResume == <>[]Ready => []<>(cmd.pc = "recv" /\ cmd.open)
=============================================================================
