-------------------------------- MODULE Startup --------------------------------
(***************************************************************************)
(* From reset to the confirmation of a trial image: the start-up of the    *)
(* messaging firmware (src/bin/native_rmii_messaging.rs), which confirms   *)
(* once every task has reported its start, and of the managed firmware     *)
(* (src/bin/native_rmii_managed.rs), which confirms after yielding.  The   *)
(* executor polls the tasks of its run queue in passes; a task woken       *)
(* during a pass belongs to the next one.                                  *)
(***************************************************************************)
EXTENDS Naturals, FiniteSets

CONSTANTS
  Tasks,       \* the tasks main spawns before it confirms, for each kind of firmware
  Binding,     \* the tasks among them that bind a socket when they are first polled
  Reporters,   \* the tasks that set a bit of STARTED (ALL_STARTED)
  Withheld,    \* the rollback-test feature
  Yields,      \* 3
  Deadline     \* 2 s in periods of 100 ms

ASSUME StartupAssumption ==
  /\ \A kind \in {"messaging", "managed"} :
       /\ Binding[kind] \subseteq Tasks[kind] /\ Reporters[kind] \subseteq Tasks[kind]
       /\ "main" \notin Tasks[kind]
  /\ Binding["messaging"] \subseteq Reporters["messaging"]
  /\ Yields \in Nat /\ Yields >= 2 /\ Deadline \in Nat /\ Withheld \in BOOLEAN

VARIABLES
  firmware,    \* the image that was started
  main,        \* where main stands
  left,        \* yields, or periods of the checkpoint, that are left
  queue,       \* run queue: tasks woken for the next pass
  pass,        \* tasks still to be polled in this pass
  polled, bound, STARTED,
  flash,       \* result of confirm_running_trial, "none" before
  panicked

vars == <<firmware, main, left, queue, pass, polled, bound, STARTED, flash, panicked>>

Workers == Tasks[firmware]
Services == Binding[firmware]
Reporting == Reporters[firmware]

Init ==
  /\ firmware \in {"messaging", "managed"}
  /\ main = IF firmware = "messaging" THEN "nonce" ELSE "spawn"
  /\ left = 0
  /\ queue = {} /\ pass = {"main"}
  /\ polled = {} /\ bound = {} /\ STARTED = {}
  /\ flash = "none"
  /\ panicked = FALSE

Running(where) == ~panicked /\ "main" \in pass /\ main = where

\* Main leaves its poll in a new place; `woken` are the tasks queued with it.
Go(where, periods, woken) ==
  /\ main' = where /\ left' = periods
  /\ pass' = pass \ {"main"}
  /\ queue' = queue \union woken
  /\ UNCHANGED <<firmware, polled, bound, STARTED, panicked>>

\* The random generator fails, times out or yields zeros, or the codec fails its
\* self-check: main waits for ever before a task is spawned.
Nonce ==
  /\ Running("nonce")
  /\ \/ Go("halted", 0, {}) \/ Go("spawn", 0, {"main"})
  /\ UNCHANGED flash

Spawn ==
  /\ Running("spawn")
  /\ IF firmware = "messaging" THEN Go("checkpoint", Deadline, Workers)
     ELSE Go("yield", Yields - 1, Workers \union {"main"})
  /\ UNCHANGED flash

Confirmation(where) ==
  /\ Go(where, 0, {"main"})
  /\ flash' \in IF Withheld THEN {"withheld"} ELSE {"confirmed", "failed"}

Yield ==
  /\ Running("yield")
  /\ IF left > 0 THEN Go("yield", left - 1, {"main"}) /\ UNCHANGED flash
     ELSE Confirmation("serving")

Elapsed(n) == 0..n - 1

\* A timer of the checkpoint wakes main, after one period or, when other tasks kept the
\* executor busy, after several.
Wake ==
  /\ main = "checkpoint" /\ "main" \notin pass \union queue /\ ~panicked /\ left > 0
  /\ left' \in Elapsed(left)
  /\ queue' = queue \union {"main"}
  /\ UNCHANGED <<firmware, main, pass, polled, bound, STARTED, flash, panicked>>

AllStarted_Some == STARTED # {}
AllStarted == STARTED = Reporting

Checkpoint_NoTimeout ==
  /\ Running("checkpoint")
  /\ IF AllStarted THEN Confirmation("serving")
     ELSE Go("checkpoint", left, {}) /\ UNCHANGED flash
\* The check is made before the time-out is looked at.
Checkpoint ==
  /\ Running("checkpoint")
  /\ IF AllStarted THEN Confirmation("serving")
     ELSE Go(IF left = 0 THEN "halted" ELSE "checkpoint", left, {}) /\ UNCHANGED flash

Main == Nonce \/ Spawn \/ Yield \/ Checkpoint
-----------------------------------------------------------------------------
\* A task's first poll: the network runner and the supervisor only run; a service binds
\* its socket, which panics if it fails, and then reports.
Start(t) ==
  /\ polled' = polled \union {t}
  /\ \/ /\ bound' = bound \union ({t} \intersect Services)
        /\ STARTED' = STARTED \union ({t} \intersect Reporting)
        /\ UNCHANGED panicked
     \/ t \in Services /\ panicked' = TRUE /\ UNCHANGED <<bound, STARTED>>

\* Later polls of a task stand for its service; it may be woken again at once.
Poll(t) ==
  /\ ~panicked /\ t \in pass
  /\ pass' = pass \ {t}
  /\ IF t \in polled THEN UNCHANGED <<polled, bound, STARTED, panicked>> ELSE Start(t)
  /\ queue' \in {queue, queue \union {t}}
  /\ UNCHANGED <<firmware, main, left, flash>>

NextPass ==
  /\ ~panicked /\ pass = {} /\ queue # {}
  /\ pass' = queue /\ queue' = {}
  /\ UNCHANGED <<firmware, main, left, polled, bound, STARTED, flash, panicked>>

\* An event wakes a task that waits.
Event(t) ==
  /\ ~panicked /\ t \in polled \ (queue \union pass)
  /\ queue' = queue \union {t}
  /\ UNCHANGED <<firmware, main, left, pass, polled, bound, STARTED, flash, panicked>>

Next ==
  \/ Main \/ Wake \/ NextPass
  \/ \E t \in Workers : Poll(t)
  \/ \E t \in Workers : Event(t)

Fairness ==
  /\ WF_vars(Main) /\ WF_vars(Wake) /\ WF_vars(NextPass)
  /\ \A t \in UNION {Tasks[kind] : kind \in DOMAIN Tasks} : WF_vars(t \in Workers /\ Poll(t))

Spec == Init /\ [][Next]_vars
FairSpec == Spec /\ Fairness
-----------------------------------------------------------------------------
TypeOK ==
  /\ firmware \in {"messaging", "managed"}
  /\ main \in {"nonce", "spawn", "yield", "checkpoint", "serving", "halted"}
  /\ left \in 0..(Yields + Deadline)
  /\ queue \subseteq Workers \union {"main"} /\ pass \subseteq Workers \union {"main"}
  /\ polled \subseteq Workers /\ bound \subseteq Services /\ STARTED \subseteq Reporting
  /\ flash \in {"none", "withheld", "confirmed", "failed"} /\ panicked \in BOOLEAN

\* A trial image confirms itself only after every service has bound its socket and reported
\* and none has panicked; the managed firmware, which only yields, after the executor has
\* polled every task, in whatever order it does and however often tasks wake themselves.
ConfirmedIsServing ==
  flash = "confirmed" =>
    /\ bound = Services /\ Reporting \subseteq polled /\ ~panicked
    /\ firmware = "managed" => polled = Workers

\* The checkpoint comes to a decision: confirmation, or a halt without one, even if tasks
\* keep the executor busy.
CheckpointDecides == <>(panicked \/ main \in {"serving", "halted"})
=============================================================================
