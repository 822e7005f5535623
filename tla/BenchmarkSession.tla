--------------------------- MODULE BenchmarkSession ---------------------------
(***************************************************************************)
(* One session of the benchmark client (run() of benchmark_live.py) with   *)
(* the leased service of the board, over a network that loses, delays,     *)
(* repeats and reorders datagrams.  A datagram once sent stays in          *)
(* `requests` or `replies` and may be delivered never, once, or any number *)
(* of times.                                                               *)
(*                                                                         *)
(* The client follows the phases of the program: the exchanges that read   *)
(* the capabilities and configure the run, the load loop that renews the   *)
(* lease, the exchange that stops the run.  Each step of the client reads  *)
(* the clock once.  Probes and publications do not touch the lease and     *)
(* are left out; another client competes for the board, which may lose its *)
(* link or restart.  A client that dies is one that takes no further step. *)
(*                                                                         *)
(* Host and board count the same time: the lease rules compare durations,  *)
(* and the two clocks are taken to run at the same rate.                   *)
(***************************************************************************)
EXTENDS BenchmarkLease

CONSTANTS
  Session,        \* the client whose session this is
  Requested,      \* the configuration it asks for
  Timeout,        \* 1.5 s, the length of an exchange
  Retry,          \* 500 ms between copies of a request
  RunTime,        \* warm-up, measurement and drain
  MaxControl,     \* 2^32 - 1, the largest request identity
  ForeignIds,     \* bound: identities the other clients use
  MaxBoot,        \* bound: boots of the board
  MaxTime         \* bound: the clock

ASSUME SessionAssumption ==
  /\ Session \in Clients
  /\ Requested \in Configuration /\ configuration_valid(Requested)
  /\ Timeout \in Nat /\ Retry \in Nat /\ RunTime \in Nat
  /\ MaxControl \in Nat /\ MaxControl >= 2
  /\ ForeignIds \subseteq Nat \ {0}
  /\ MaxBoot \in Nat \ {0} /\ MaxTime \in Nat

VARIABLES
  clock,
  boot,        \* the boot identity of the board
  service,     \* the board's struct Service
  client,      \* the local variables of run()
  requests,    \* datagrams sent to the board
  replies,     \* datagrams sent to the client
  disturbed    \* history: a link loss or restart ended a run of the board

vars == <<clock, boot, service, client, requests, replies, disturbed>>

Boots == 1..MaxBoot
Exchanges == {"capabilities", "configure", "stop"}
Phases == Exchanges \cup {"load", "done"}
Cleanups == {"not_acquired", "stop_acknowledged", "run_obsolete", "lease_fallback"}

\* `first` is when the exchange or the pending renewal began, `resend` when its
\* next copy is due.
ClientState ==
  [phase : Phases, boot : Boots, epoch : Epochs, control : 1..MaxControl,
   first : Times, resend : Times, pending : BOOLEAN,
   expiry : Times, renew : Times, finish : Times,
   rejected : BOOLEAN, cleanup : Cleanups]

Init ==
  /\ clock = 0
  /\ boot = 1
  /\ service = NewService(0)
  /\ client = [phase |-> "capabilities", boot |-> 1, epoch |-> 1, control |-> 1,
               first |-> 0, resend |-> 0, pending |-> FALSE,
               expiry |-> 0, renew |-> 0, finish |-> 0,
               rejected |-> FALSE, cleanup |-> "not_acquired"]
  /\ requests = {} /\ replies = {}
  /\ disturbed = FALSE

-----------------------------------------------------------------------------
(* The client.                                                               *)

Identity == IF client.phase = "stop" THEN client.control + 1
            ELSE IF client.phase = "capabilities" THEN 1 ELSE client.control

Message(kind, id) ==
  [kind |-> kind, boot |-> client.boot, epoch |-> client.epoch, id |-> id,
   config |-> IF kind = "configure" THEN Requested ELSE None]

\* Mutant: any control reply of the run answers the pending request.
Answers_AnyRequest(r) ==
  /\ r.body.client = Session
  /\ IF client.phase = "capabilities" THEN r.body.kind = "limits" /\ r.body.id = Identity
     ELSE /\ r.body.kind = "result"
          /\ r.boot = client.boot /\ r.body.epoch = client.epoch

\* The reply that ends an exchange, or that the load loop takes for its renewal.
Answers(r) ==
  /\ r.body.client = Session
  /\ r.body.id = Identity
  /\ IF client.phase = "capabilities" THEN r.body.kind = "limits"
     ELSE /\ r.body.kind = "result"
          /\ r.boot = client.boot /\ r.body.epoch = client.epoch

\* Entering an exchange: its first copy is due at once.
Enter(c, phase) == [c EXCEPT !.phase = phase, !.first = clock, !.resend = clock]

\* Only a client that may have configured the board has something to clean up.
Leave(c) == IF c.phase = "capabilities" THEN [c EXCEPT !.phase = "done"]
            ELSE Enter([c EXCEPT !.pending = FALSE], "stop")

Send(kind, id) == requests' = requests \cup {Message(kind, id)}

\* exchange(): copies of one request while the deadline lies ahead.
SendCopy ==
  /\ client.phase \in Exchanges
  /\ clock < client.first + Timeout
  /\ clock >= client.resend
  /\ Send(client.phase, Identity)
  /\ client' = [client EXCEPT !.resend = clock + Retry]
  /\ UNCHANGED replies

\* The session goes no further; a cleanup that fails is left to the lease.
Abandoned ==
  IF client.phase = "stop" THEN [client EXCEPT !.phase = "done", !.cleanup = "lease_fallback"]
  ELSE Leave(client)

\* No valid reply in time.
TimeOut ==
  /\ client.phase \in Exchanges
  /\ clock >= client.first + Timeout
  /\ client' = Abandoned
  /\ UNCHANGED <<requests, replies>>

AcceptCapabilities(r) ==
  /\ client.phase = "capabilities" /\ Answers(r)
  /\ client' = IF r.body.available
               THEN Enter([client EXCEPT !.boot = r.boot, !.epoch = r.body.epoch], "configure")
               ELSE Leave(client)
  /\ UNCHANGED <<requests, replies>>

Accepting == {"APPLIED", "ALREADY_APPLIED"}

\* The lease lasts for what the board reported, counted from before the first
\* copy of the request; a third of what is left of it passes before a renewal.
Confirmed(c, r) ==
  LET expiry == c.first + r.body.remaining * UsPerMs IN
  [c EXCEPT !.pending = FALSE, !.expiry = expiry,
            !.renew = clock + (SatSub(expiry, clock) \div 3)]

AcceptConfigured(r) ==
  /\ client.phase = "configure" /\ Answers(r)
  /\ client' = IF r.body.code \in Accepting
               THEN [Confirmed(client, r) EXCEPT !.phase = "load", !.finish = clock + RunTime]
               ELSE Leave([client EXCEPT !.rejected = TRUE])
  /\ UNCHANGED <<requests, replies>>

Loading == client.phase = "load" /\ clock < client.finish /\ clock < client.expiry

\* A renewal takes a fresh identity; the last one is kept for the stop.
Renew ==
  /\ Loading /\ ~client.pending /\ clock >= client.renew
  /\ IF client.control >= MaxControl - 1
     THEN client' = Leave(client) /\ UNCHANGED requests
     ELSE /\ client' = [client EXCEPT !.control = @ + 1, !.pending = TRUE,
                                      !.first = clock, !.resend = clock + Retry]
          /\ Send("renew", client.control + 1)
  /\ UNCHANGED replies

\* Mutant: the lease is counted from the latest copy.
SendRenewal_Restamps ==
  /\ Loading /\ client.pending /\ clock >= client.resend
  /\ Send("renew", client.control)
  /\ client' = [client EXCEPT !.resend = clock + Retry, !.first = clock]
  /\ UNCHANGED replies

SendRenewal ==
  /\ Loading /\ client.pending /\ clock >= client.resend
  /\ Send("renew", client.control)
  /\ client' = [client EXCEPT !.resend = clock + Retry]
  /\ UNCHANGED replies

AcceptRenewal(r) ==
  /\ client.phase = "load" /\ client.pending /\ Answers(r)
  /\ client' = IF r.body.code \in Accepting THEN Confirmed(client, r)
               ELSE Leave([client EXCEPT !.rejected = TRUE])
  /\ UNCHANGED <<requests, replies>>

\* The load ends when its time is over or its lease is no longer confirmed.
EndLoad ==
  /\ client.phase = "load" /\ (clock >= client.finish \/ clock >= client.expiry)
  /\ client' = Leave(client)
  /\ UNCHANGED <<requests, replies>>

\* An error, an interrupt or an observer's threshold ends the session early.
Interrupt ==
  /\ client.phase # "done"
  /\ client' = Abandoned
  /\ UNCHANGED <<requests, replies>>

\* Mutant: a board that runs nothing is taken to be rid of the run.
Outcome_NotActive(code) ==
  IF code = "STOPPED" THEN "stop_acknowledged"
  ELSE IF code \in {"STALE_RUN", "NOT_ACTIVE"} THEN "run_obsolete" ELSE "lease_fallback"

Outcome(code) ==
  IF code = "STOPPED" THEN "stop_acknowledged"
  ELSE IF code = "STALE_RUN" THEN "run_obsolete" ELSE "lease_fallback"

AcceptStopped(r) ==
  /\ client.phase = "stop" /\ Answers(r)
  /\ client' = [client EXCEPT !.phase = "done", !.cleanup = Outcome(r.body.code)]
  /\ UNCHANGED <<requests, replies>>

Accept(r) ==
  AcceptCapabilities(r) \/ AcceptConfigured(r) \/ AcceptRenewal(r) \/ AcceptStopped(r)

Client ==
  /\ \/ SendCopy \/ TimeOut \/ Renew \/ SendRenewal \/ EndLoad \/ Interrupt
     \/ \E r \in replies : Accept(r)
  /\ UNCHANGED <<clock, boot, service, disturbed>>

-----------------------------------------------------------------------------
(* The board and the network.                                                *)

\* Only a capability request may come from a client that does not know the boot.
Addressed(m) == m.kind = "capabilities" \/ m.boot = boot

Request(m, sender) ==
  [kind |-> m.kind, addressed |-> Addressed(m), client |-> sender, epoch |-> m.epoch,
   id |-> m.id, config |-> m.config, payload |-> None]

Deliver(m) ==
  LET handled == Handle(service, Request(m, Session), clock) IN
  /\ service' = handled.service
  /\ replies' = replies \cup
       (IF handled.reply = None THEN {} ELSE {[boot |-> boot, body |-> handled.reply]})
  /\ UNCHANGED <<clock, boot, client, requests, disturbed>>

\* Another client takes, renews or stops a run of its own; its replies are its own.
ForeignRequest(sender, kind, id) ==
  LET m == [kind |-> kind, boot |-> boot, epoch |-> service.epoch, id |-> id,
            config |-> IF kind = "configure" THEN Requested ELSE None] IN
  /\ service' = Handle(service, Request(m, sender), clock).service
  /\ UNCHANGED <<clock, boot, client, requests, replies, disturbed>>

TickNow ==
  /\ service' = Tick(service, clock)
  /\ UNCHANGED <<clock, boot, client, requests, replies, disturbed>>

EndLocally ==
  /\ service' = End(service)
  /\ disturbed' = (disturbed \/ Active(service))
  /\ UNCHANGED <<clock, boot, client, requests, replies>>

Reboot ==
  /\ boot < MaxBoot
  /\ boot' = boot + 1
  /\ service' = NewService(clock)
  /\ disturbed' = (disturbed \/ Active(service))
  /\ UNCHANGED <<clock, client, requests, replies>>

Elapse ==
  /\ clock < MaxTime
  /\ clock' = clock + 1
  /\ UNCHANGED <<boot, service, client, requests, replies, disturbed>>

Next ==
  \/ Client
  \/ \E m \in requests : Deliver(m)
  \/ \E sender \in Clients \ {Session}, kind \in {"configure", "renew", "stop"},
        id \in ForeignIds : ForeignRequest(sender, kind, id)
  \/ TickNow
  \/ EndLocally
  \/ Reboot
  \/ Elapse

Spec == Init /\ [][Next]_vars

-----------------------------------------------------------------------------
RequestState ==
  [kind : {"capabilities", "configure", "renew", "stop"}, boot : Boots, epoch : Epochs,
   id : 1..MaxControl, config : {Requested, None}]
ReplyState == [boot : Boots, body : BucketedReplies]

\* Every variable keeps its type; the identities of controls stay 32-bit numbers,
\* the one that stops a session which renewed to the limit included.
TypeOK ==
  /\ clock \in Times /\ boot \in Boots /\ service \in ServiceState
  /\ client \in ClientState
  /\ requests \subseteq RequestState
  /\ replies \subseteq ReplyState
  /\ disturbed \in BOOLEAN

SessionRuns == Active(service) /\ service.lease.client = Session

\* While the client believes in its lease, the board grants it at least as long,
\* whichever copy of a request was carried out and whichever reply came back,
\* unless the board itself ended the run.
HostLeaseHeld ==
  (client.phase = "load" /\ clock < client.expiry /\ ~disturbed) =>
    /\ SessionRuns /\ service.epoch = client.epoch
    /\ client.expiry <= service.lease.expiry

\* A cleanup reported as acknowledged or obsolete means that the session's run is
\* over and that no datagram still under way can start it again; a session that
\* acquired nothing holds nothing.
CleanupTruthful ==
  (client.phase = "done" /\ client.cleanup # "lease_fallback") => ~SessionRuns

\* A renewal or configuration counts as rejected only if the session has no run:
\* a late reply to an earlier control is not mistaken for one.
RejectionTruthful == client.rejected => ~SessionRuns

=============================================================================
