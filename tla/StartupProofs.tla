----------------------------- MODULE StartupProofs -----------------------------
(***************************************************************************)
(* What Startup guarantees for any set of tasks, whichever of them bind a  *)
(* socket, and in whatever order the executor polls them.                  *)
(***************************************************************************)
EXTENDS Startup, TLAPS

\* A task reports and has its socket from its first poll on, unless that poll
\* panicked.
PolledServes ==
  ~panicked => bound = polled \cap Services /\ STARTED = polled \cap Reporting

\* The checkpoint belongs to the messaging firmware.  Main of the managed firmware yields
\* once to let its tasks be queued and once more to let them be polled: how far they are
\* is told by the yields main has left and by where it waits itself.
YieldsWait ==
  /\ main \in {"nonce", "checkpoint"} => firmware = "messaging"
  /\ main = "yield" =>
       /\ firmware = "managed" /\ left <= Yields - 1
       /\ left = Yields - 1 /\ "main" \in queue => Workers \subseteq queue
       /\ left = Yields - 1 /\ "main" \in pass => Workers \subseteq pass \cup polled
       /\ left < Yields - 1 /\ "main" \in queue => Workers \subseteq pass \cup polled
       /\ left < Yields - 1 /\ "main" \in pass => Workers \subseteq polled

\* A decision about the trial image is made once everything serves.
Decided ==
  flash # "none" =>
    /\ ~panicked /\ Services \cup Reporting \subseteq polled
    /\ firmware = "managed" => Workers \subseteq polled

IInv == TypeOK /\ PolledServes /\ YieldsWait /\ Decided

LEMMA Initially == Init => IInv
<1> SUFFICES ASSUME Init PROVE IInv
  OBVIOUS
<1> USE DEF Init
<1>1. TypeOK
  <2>1. left \in 0..(Yields + Deadline)
    BY StartupAssumption
  <2>2. main \in {"nonce", "spawn"}
    OBVIOUS
  <2>3. pass \subseteq Workers \cup {"main"}
    OBVIOUS
  <2> QED BY <2>1, <2>2, <2>3 DEF TypeOK
<1>2. PolledServes
  BY DEF PolledServes
<1>3. YieldsWait
  BY DEF YieldsWait
<1>4. Decided
  BY DEF Decided
<1> QED BY <1>1, <1>2, <1>3, <1>4 DEF IInv

\* The tasks of the image that runs; main is none of them.
LEMMA TasksKnown ==
  ASSUME TypeOK
  PROVE  /\ Services \subseteq Workers /\ Reporting \subseteq Workers /\ "main" \notin Workers
         /\ firmware = "messaging" => Services \subseteq Reporting
BY StartupAssumption DEF TypeOK, Workers, Services, Reporting

LEMMA MainKeeps == ASSUME IInv, Main PROVE IInv'
<1> USE DEF IInv, TypeOK, PolledServes, YieldsWait, Decided, Running, Go, Workers, Services,
            Reporting
<1>1. CASE Nonce
  BY <1>1, StartupAssumption DEF Nonce
<1>2. CASE Spawn
  BY <1>2, StartupAssumption DEF Spawn
<1>3. CASE Yield
  <2>1. CASE left > 0
    BY <1>3, <2>1, StartupAssumption DEF Yield
  <2>2. CASE left = 0
    \* Main has yielded twice, so that every task was polled.
    <3>1. firmware = "managed" /\ Workers \subseteq polled
      BY <1>3, <2>2, StartupAssumption DEF Yield
    <3> QED BY <1>3, <2>2, <3>1, TasksKnown, StartupAssumption DEF Yield, Confirmation
  <2> QED BY <2>1, <2>2, StartupAssumption
<1>4. CASE Checkpoint
  <2>1. CASE AllStarted
    <3>1. firmware = "messaging"
      BY <1>4 DEF Checkpoint
    <3> QED BY <1>4, <2>1, <3>1, TasksKnown, StartupAssumption
            DEF Checkpoint, AllStarted, Confirmation
  <2>2. CASE ~AllStarted
    BY <1>4, <2>2, StartupAssumption DEF Checkpoint
  <2> QED BY <2>1, <2>2
<1> QED BY <1>1, <1>2, <1>3, <1>4 DEF Main

\* A panic stops a task that has not served yet, and then nothing was decided.
LEMMA PollKeeps == ASSUME IInv, NEW t \in Workers, Poll(t) PROVE IInv'
<1> USE DEF IInv, TypeOK, PolledServes, YieldsWait, Decided, Poll, Workers, Services, Reporting
<1>0. t # "main"
  BY TasksKnown
<1>1. CASE t \in polled
  BY <1>0, <1>1, StartupAssumption
<1>2. CASE t \notin polled /\ UNCHANGED panicked
  BY <1>0, <1>2, TasksKnown, StartupAssumption DEF Start
<1>3. CASE t \notin polled /\ t \in Services /\ panicked' = TRUE /\ UNCHANGED <<bound, STARTED>>
  BY <1>0, <1>3, TasksKnown, StartupAssumption DEF Start
<1> QED BY <1>1, <1>2, <1>3 DEF Start

LEMMA StepKeeps == ASSUME IInv, [Next]_vars PROVE IInv'
<1> USE DEF IInv, TypeOK, PolledServes, YieldsWait, Decided, Workers, Services, Reporting
<1>1. CASE Main
  BY <1>1, MainKeeps
<1>2. CASE Wake
  BY <1>2, StartupAssumption DEF Wake, Elapsed
<1>3. CASE NextPass
  BY <1>3, StartupAssumption DEF NextPass
<1>4. ASSUME NEW t \in Workers, Poll(t) PROVE IInv'
  BY <1>4, PollKeeps
<1>5. ASSUME NEW t \in Workers, Event(t) PROVE IInv'
  BY <1>5, TasksKnown, StartupAssumption DEF Event
<1>6. CASE UNCHANGED vars
  BY <1>6 DEF vars
<1> QED BY <1>1, <1>2, <1>3, <1>4, <1>5, <1>6 DEF Next

LEMMA Invariance == Spec => []IInv
BY Initially, StepKeeps, PTL DEF Spec

\* Main, the executor's queues and what the tasks report keep their type.
THEOREM TypeCorrect == Spec => []TypeOK
<1>1. IInv => TypeOK
  BY DEF IInv
<1> QED BY <1>1, Invariance, PTL

\* A trial image is confirmed only after every service has bound its socket and none has
\* panicked, and in the managed firmware after every task was polled: two yields are
\* enough, in whatever order the executor polls and whoever wakes in between.
THEOREM ConfirmsServing == Spec => []ConfirmedIsServing
<1>1. IInv => ConfirmedIsServing
  BY TasksKnown DEF IInv, PolledServes, Decided, ConfirmedIsServing, TypeOK
<1> QED BY <1>1, Invariance, PTL
================================================================================
