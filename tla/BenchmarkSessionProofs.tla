------------------------ MODULE BenchmarkSessionProofs ------------------------
(***************************************************************************)
(* What a session of the benchmark client can rely on, for any number of   *)
(* clients, boots, epochs and control identities, and for every duration   *)
(* of lease, exchange and retry.                                           *)
(*                                                                         *)
(* The argument rests on one fact about the board: once the session's run  *)
(* is over (`Over`), it is over for good, because an epoch is never used   *)
(* twice and a boot makes a new one.  Whatever a late reply says of the    *)
(* run is therefore still true when the client reads it.                   *)
(***************************************************************************)
EXTENDS BenchmarkSession, BenchmarkLeaseProofs

-----------------------------------------------------------------------------
(* The inductive invariant.  Predicates on a state of the service let the    *)
(* lemmas speak of the states between two operations of one call.            *)

\* The session has learnt boot and epoch of the run it controls.
Begun == client.phase # "capabilities" /\ ~(client.phase = "done" /\ client.cleanup = "not_acquired")

\* A boot and an epoch that the board has left behind or is still in.
Past(b, e, s) == b <= boot /\ (b = boot => e <= s.epoch)

\* The session's run is over, or can never begin.
OverIn(s) ==
  \/ client.boot < boot \/ client.epoch < s.epoch \/ s.exhausted
  \/ Active(s) /\ s.lease.client # Session

RunsIn(s) == Active(s) /\ s.lease.client = Session

\* The board grants the lease up to x, or x is past, or the board lost the run.
HeldIn(x, s) == x <= clock \/ disturbed \/ (RunsIn(s) /\ x <= s.lease.expiry)

\* The controls of the session; the stop uses the identity kept for it.
OwnControl(kind, id, config) ==
  \/ kind = "configure" /\ id = 1 /\ config = Requested
  \/ kind = "renew" /\ id \in 2..client.control /\ config = None

\* A run of the session is the one it asked for, in the boot and epoch it knows.
OursIn(s) ==
  RunsIn(s) =>
    /\ Begun /\ boot = client.boot /\ s.epoch = client.epoch
    /\ s.lease.config = Requested
    /\ OwnControl(s.lease.last.kind, s.lease.last.id, s.lease.last.config)

ServiceStands ==
  /\ Sound(service) /\ service.last_time <= clock
  /\ Past(client.boot, client.epoch, service) /\ OursIn(service)

ClientStands ==
  /\ client.first <= clock
  /\ client.control < MaxControl
  /\ client.phase \in {"capabilities", "configure"} => client.control = 1
  /\ client.phase = "load" /\ client.pending => client.control >= 2
  /\ client.phase # "done" => client.cleanup = "not_acquired"
  /\ client.phase = "load" =>
       HeldIn(client.expiry, service) /\ (RunsIn(service) \/ OverIn(service))
  /\ client.rejected => Begun /\ OverIn(service)
  /\ client.phase = "done" /\ client.cleanup \in {"stop_acknowledged", "run_obsolete"}
       => OverIn(service)

Stopping == client.phase \in {"stop", "done"}

RequestsStand ==
  \A m \in requests : m.kind # "capabilities" =>
    /\ Begun /\ m.boot = client.boot /\ m.epoch = client.epoch
    /\ \/ OwnControl(m.kind, m.id, m.config)
       \/ m.kind = "stop" /\ m.id = client.control + 1 /\ m.config = None /\ Stopping

\* A configuration or renewal whose reply the session waits for.
Awaits(id) ==
  id = client.control /\ (client.phase = "configure" \/ (client.phase = "load" /\ client.pending))

\* What the replies under way say is true, and the lease they grant holds.
Truthful(b, r, s) ==
  /\ r.client = Session
  /\ r.kind = "limits" => Past(b, r.epoch, s)
  /\ r.kind = "result" =>
       /\ Begun /\ b = client.boot /\ r.epoch = client.epoch
       /\ r.id <= client.control \/ (r.id = client.control + 1 /\ Stopping)
       /\ r.code \in {"STALE_RUN", "STOPPED"} => OverIn(s)
       /\ r.code \in Accepting => RunsIn(s) \/ OverIn(s)
       /\ Awaits(r.id) =>
            IF r.code \in Accepting THEN HeldIn(client.first + r.remaining * UsPerMs, s)
            ELSE OverIn(s)

RepliesStand == \A r \in replies : Truthful(r.boot, r.body, service)

IInv == TypeOK /\ ServiceStands /\ ClientStands /\ RequestsStand /\ RepliesStand
-----------------------------------------------------------------------------
(* What a call of the service may do to the session's run.                   *)

LEMMA Numbers ==
  /\ Session \in Clients /\ Requested \in Configuration /\ configuration_valid(Requested)
  /\ Timeout \in Nat /\ Retry \in Nat /\ RunTime \in Nat /\ UsPerMs \in Nat
  /\ MaxControl \in Nat /\ MaxControl >= 2 /\ MaxBoot \in Nat /\ MaxBoot >= 1
  /\ MaxTime \in Nat /\ MaxEpoch \in Nat /\ MaxEpoch >= 1
BY SessionAssumption, LeaseAssumption

LEMMA Readings ==
  ASSUME TypeOK
  PROVE  /\ clock \in Nat /\ boot \in Int
         /\ client.boot \in Int /\ client.epoch \in Int /\ client.control \in Nat
         /\ client.first \in Nat /\ client.expiry \in Nat
BY Numbers DEF TypeOK, ClientState, Boots, Epochs, Times

LEMMA RunRead ==
  ASSUME NEW s, Sound(s)
  PROVE  /\ s.epoch \in Nat /\ s.epoch <= MaxEpoch
         /\ Active(s) => s.lease \in Lease /\ s.lease.expiry \in Nat /\ ~s.exhausted
BY LeaseAssumption DEF Sound, ServiceState, Following, Active, Epochs, Lease, Times

\* Between two states of one call the session's run stays, or ends for good, and what
\* it was granted holds.
Later(s, t) ==
  /\ s.epoch <= t.epoch
  /\ OverIn(s) => OverIn(t)
  /\ RunsIn(s) => RunsIn(t) \/ OverIn(t)
  /\ client.phase \in {"configure", "load"} =>
       \A x \in Nat : HeldIn(x, s) => HeldIn(x, t)

LEMMA LaterTransitive ==
  ASSUME TypeOK, NEW s, Sound(s), NEW t, Sound(t), NEW u, Sound(u), Later(s, t), Later(t, u)
  PROVE  Later(s, u)
<1>1. s.epoch <= u.epoch
  BY RunRead DEF Later
<1> QED
  BY <1>1 DEF Later

\* A state of the service the session knows enough about.
Standing(s) == Sound(s) /\ Past(client.boot, client.epoch, s) /\ OursIn(s)

LEMMA SameRun ==
  ASSUME TypeOK, NEW s, Standing(s), NEW t, Sound(t), RunOf(t) = RunOf(s)
  PROVE  Standing(t) /\ Later(s, t)
<1>1. t.epoch = s.epoch /\ t.exhausted = s.exhausted /\ t.lease = s.lease
  BY DEF RunOf
<1>2. s.epoch \in Nat
  BY RunRead DEF Standing
<1> QED
  BY <1>1, <1>2 DEF Standing, Later, Past, OursIn, OverIn, RunsIn, HeldIn, Active

\* A run that ended is over for every session of this boot.
LEMMA RunEnded ==
  ASSUME TypeOK, NEW s, Standing(s), NEW t, Sound(t), Ends(s, t)
  PROVE  /\ Standing(t) /\ OverIn(t) /\ s.epoch <= t.epoch /\ ~RunsIn(t)
         /\ (RunsIn(s) => disturbed \/ clock >= s.lease.expiry) => Later(s, t)
         /\ client.phase \notin {"configure", "load"} => Later(s, t)
<1>1. s \in ServiceState /\ Active(s)
  BY DEF Standing, Sound, Ends
<1>2. /\ End(s).lease = None
      /\ End(s).exhausted = (s.exhausted \/ s.epoch = MaxEpoch)
      /\ End(s).epoch = IF s.epoch = MaxEpoch THEN s.epoch ELSE s.epoch + 1
  BY <1>1 DEF End, ServiceState
<1>3. /\ t.lease = None
      /\ s.epoch = MaxEpoch => t.exhausted /\ t.epoch = s.epoch
      /\ s.epoch # MaxEpoch => t.epoch = s.epoch + 1
  BY <1>2 DEF Ends, RunOf
<1>4. s.epoch \in Nat /\ t.epoch \in Nat /\ (Active(s) => s.lease.expiry \in Nat)
  BY RunRead DEF Standing
<1>5. /\ clock \in Nat /\ boot \in Int /\ client.boot \in Int /\ client.epoch \in Int
  BY Readings
<1>6. ~Active(t) /\ ~RunsIn(t)
  BY <1>3 DEF Active, RunsIn
<1>7. s.epoch <= t.epoch /\ Past(client.boot, client.epoch, t)
  BY <1>3, <1>4, <1>5 DEF Standing, Past
<1>8. OverIn(t)
  BY <1>3, <1>4, <1>5 DEF OverIn, Standing, Past
<1>9. Standing(t)
  BY <1>6, <1>7 DEF Standing, OursIn
<1>10. ASSUME RunsIn(s) => disturbed \/ clock >= s.lease.expiry, NEW x \in Nat, HeldIn(x, s)
       PROVE  HeldIn(x, t)
  BY <1>1, <1>4, <1>5, <1>10 DEF HeldIn
<1> QED
  BY <1>6, <1>7, <1>8, <1>9, <1>10 DEF Later

\* tick() ends the session's run only when its lease has passed.
LEMMA TickStanding ==
  ASSUME TypeOK, NEW s, Standing(s), s.last_time <= clock
  PROVE  /\ Standing(Tick(s, clock)) /\ Later(s, Tick(s, clock))
         /\ Tick(s, clock).last_time = clock
<1>1. clock \in Times
  BY Readings DEF Times
<1> DEFINE t == Tick(s, clock)
<1>2. /\ Sound(t) /\ t.last_time = clock
      /\ \/ RunOf(t) = RunOf(s)
         \/ Ends(s, t) /\ clock >= s.lease.expiry
  BY <1>1, TickInTime DEF Standing
<1> HIDE DEF t
<1>3. CASE RunOf(t) = RunOf(s)
  BY <1>2, <1>3, SameRun DEF t
<1>4. CASE Ends(s, t) /\ clock >= s.lease.expiry
  BY <1>2, <1>4, RunEnded DEF t
<1> QED
  BY <1>2, <1>3, <1>4

-----------------------------------------------------------------------------
(* Controls of the session and of others.                                    *)

Controls == {"configure", "renew", "stop"}

LEMMA OwnRequest ==
  ASSUME TypeOK, RequestsStand, NEW m \in requests
  PROVE  /\ WellFormed(Request(m, Session)) /\ Request(m, Session).epoch \in Epochs
         /\ Request(m, Session).client = Session /\ Request(m, Session).kind = m.kind
         /\ Request(m, Session).addressed = Addressed(m)
         /\ Request(m, Session).id = m.id /\ Request(m, Session).config = m.config
         /\ Request(m, Session).epoch = m.epoch
         /\ m.kind \in Controls \cup {"capabilities"}
         /\ ControlOf(Request(m, Session)) = [kind |-> m.kind, id |-> m.id, config |-> m.config]
<1> DEFINE q == Request(m, Session)
<1>1. /\ m.kind \in {"capabilities", "configure", "renew", "stop"}
      /\ m.epoch \in Epochs /\ m.id \in Nat /\ m.config \in {Requested, None}
  BY Numbers DEF TypeOK, RequestState
<1>2. /\ q.client = Session /\ q.kind = m.kind /\ q.id = m.id /\ q.config = m.config
      /\ q.epoch = m.epoch /\ q.addressed = Addressed(m)
      /\ ControlOf(q) = [kind |-> m.kind, id |-> m.id, config |-> m.config]
  BY DEF Request, ControlOf
<1>3. Addressed(m) \in BOOLEAN
  BY DEF Addressed
<1>4. m.kind = "configure" => m.config = Requested
  BY DEF RequestsStand, OwnControl
<1> HIDE DEF q
<1>5. WellFormed(q)
  <2>1. q.kind \in Controls => ControlOf(q) \in Control
    BY <1>1, <1>2, Numbers DEF Control, Controls
  <2> QED
    BY <1>1, <1>2, <1>3, <1>4, <2>1, Numbers DEF WellFormed, Controls
<1> QED
  BY <1>1, <1>2, <1>5 DEF q, Controls

\* A request of the session that the board takes was sent in the present boot.
LEMMA OwnAddressed ==
  ASSUME TypeOK, RequestsStand, NEW m \in requests, Addressed(m), m.kind \in Controls
  PROVE  /\ Begun /\ boot = client.boot /\ m.epoch = client.epoch
         /\ \/ OwnControl(m.kind, m.id, m.config)
            \/ m.kind = "stop" /\ m.id = client.control + 1 /\ m.config = None /\ Stopping
         /\ m.kind = "stop" => Stopping
BY DEF RequestsStand, Addressed, Controls, OwnControl

\* What Assess has checked for the two kinds of request that are accepted.
LEMMA OwnAccepted ==
  ASSUME TypeOK, RequestsStand, NEW m \in requests, m.kind \in Controls,
         NEW s, Standing(s)
  PROVE  LET q == Request(m, Session)
             code == Assess(s, q)
         IN
         /\ code \in {"APPLIED", "STOPPED"} =>
              /\ m.epoch = s.epoch /\ ~s.exhausted
              /\ m.kind = "configure" => ~Active(s)
              /\ m.kind # "configure" => RunsIn(s)
         /\ code = "ALREADY_APPLIED" => RunsIn(s)
         /\ code = "STALE_RUN" => m.epoch # s.epoch
<1> DEFINE q == Request(m, Session)
<1>1. /\ q.kind = m.kind /\ q.id = m.id /\ q.epoch = m.epoch /\ q.client = Session
      /\ q.id \in Nat
  BY OwnRequest DEF WellFormed
<1>2. Active(s) => s.lease.last.id \in Nat
  BY RunRead DEF Standing, Lease, Control
<1> HIDE DEF q
<1>3. Assess(s, q) \in {"APPLIED", "STOPPED"} =>
        /\ q.epoch = s.epoch /\ ~s.exhausted
        /\ q.kind = "configure" => ~Active(s)
        /\ q.kind # "configure" => Active(s) /\ s.lease.client = q.client
  BY <1>1, <1>2, AcceptedMeans DEF Controls
<1>4. /\ Assess(s, q) = "ALREADY_APPLIED" => Active(s) /\ s.lease.client = q.client
      /\ Assess(s, q) = "STALE_RUN" => q.epoch # s.epoch
  BY DEF Assess, Owner
<1> QED
  BY <1>1, <1>3, <1>4 DEF q, RunsIn

LEMMA OwnControlLater ==
  ASSUME TypeOK, RequestsStand, NEW m \in requests, Addressed(m), m.kind \in Controls,
         NEW s, Standing(s), s.last_time = clock,
         NEW t, Sound(t), CarriesOut(s, Request(m, Session), clock, t)
  PROVE  Standing(t) /\ Later(s, t)
<1> DEFINE q == Request(m, Session)
<1>1. /\ q.kind = m.kind /\ q.id = m.id /\ q.config = m.config /\ q.client = Session
      /\ ControlOf(q) = [kind |-> m.kind, id |-> m.id, config |-> m.config]
  BY OwnRequest
<1>2. /\ Begun /\ boot = client.boot /\ m.epoch = client.epoch
      /\ m.kind = "configure" => m.config = Requested
      /\ m.kind \in {"configure", "renew"} => OwnControl(m.kind, m.id, m.config)
      /\ m.kind = "stop" => Stopping
  BY OwnAddressed DEF OwnControl
<1>3. /\ clock \in Nat /\ boot \in Int /\ client.boot \in Int /\ client.epoch \in Int
  BY Readings
<1>4. /\ s.epoch \in Nat /\ (Active(s) => s.lease \in Lease /\ s.lease.expiry \in Nat)
      /\ t.epoch \in Nat /\ (Active(t) => t.lease \in Lease /\ t.lease.expiry \in Nat)
  BY RunRead DEF Standing
<1>5. /\ Assess(s, q) \in {"APPLIED", "STOPPED"} =>
           /\ m.epoch = s.epoch /\ ~s.exhausted
           /\ m.kind = "configure" => ~Active(s)
           /\ m.kind # "configure" => RunsIn(s)
  BY OwnAccepted
<1> HIDE DEF q
<1>6. CASE Assess(s, q) = "APPLIED" /\ q.kind = "configure" /\ Grants(s, t)
           /\ t.lease = Granted(q, clock)
  <2>1. /\ ~Active(s) /\ Active(t) /\ t.epoch = s.epoch /\ ~t.exhausted /\ s.epoch = client.epoch
        /\ ~s.exhausted
    BY <1>1, <1>2, <1>5, <1>6 DEF Grants
  <2>2. /\ t.lease.client = Session /\ t.lease.config = Requested
        /\ t.lease.last.kind = "configure" /\ t.lease.last.id = m.id
        /\ t.lease.last.config = m.config
    <3>1. t.lease.client = q.client /\ t.lease.config = q.config /\ t.lease.last = ControlOf(q)
      BY <1>6 DEF Granted
    <3>2. ControlOf(q).kind = m.kind /\ ControlOf(q).id = m.id /\ ControlOf(q).config = m.config
      BY <1>1
    <3>3. m.kind = "configure"
      BY <1>1, <1>6
    <3> QED
      BY <1>1, <1>2, <3>1, <3>2, <3>3
  <2>3. OwnControl(t.lease.last.kind, t.lease.last.id, t.lease.last.config)
    BY <1>1, <1>2, <1>6, <2>2
  <2>4. Standing(t)
    BY <1>2, <1>3, <1>4, <2>1, <2>2, <2>3 DEF Standing, OursIn, Past
  <2>5. ~OverIn(s) /\ ~RunsIn(s)
    BY <1>2, <1>3, <1>4, <2>1 DEF OverIn, RunsIn
  <2>6. \A x \in Nat : HeldIn(x, s) => HeldIn(x, t)
    BY <2>5 DEF HeldIn
  <2> QED
    BY <1>4, <2>1, <2>4, <2>5, <2>6 DEF Later
<1>7. CASE Assess(s, q) = "APPLIED" /\ q.kind = "renew" /\ Renews(s, t)
           /\ t.lease = Renewed(s.lease, q, clock)
  <2> DEFINE worth == s.lease.config.lease * UsPerMs
  <2>1. /\ Active(s) /\ RunsIn(s) /\ Active(t) /\ t.epoch = s.epoch
        /\ t.exhausted = s.exhausted /\ s.epoch = client.epoch
    BY <1>1, <1>2, <1>5, <1>7 DEF Renews
  <2>2. s.lease \in Lease /\ t.lease = [s.lease EXCEPT !.last = ControlOf(q), !.expiry = clock + worth]
    BY <1>4, <1>7, <2>1 DEF Renewed
  <2>3. s.lease.expiry <= clock + worth
    BY <2>1 DEF Standing, Sound, Unexpired
  <2> HIDE DEF worth
  <2>4. /\ t.lease.client = s.lease.client /\ t.lease.config = s.lease.config
        /\ t.lease.last = ControlOf(q) /\ t.lease.expiry = clock + worth
    BY <2>2 DEF Lease
  <2>5. /\ t.lease.client = Session /\ t.lease.config = Requested
        /\ t.lease.last.kind = m.kind /\ t.lease.last.id = m.id /\ t.lease.last.config = m.config
    BY <1>1, <2>1, <2>4 DEF Standing, OursIn, RunsIn
  <2>6. Standing(t) /\ RunsIn(t)
    BY <1>1, <1>2, <1>3, <1>4, <1>7, <2>1, <2>5 DEF Standing, OursIn, RunsIn, Past
  <2>7. OverIn(s) => OverIn(t)
    BY <2>1, <2>4 DEF OverIn
  <2>8. ASSUME NEW x \in Nat, HeldIn(x, s) PROVE HeldIn(x, t)
    <3>1. CASE x <= s.lease.expiry
      <4>1. t.lease.expiry \in Nat /\ s.lease.expiry \in Nat
        BY <1>4, <2>1
      <4>2. x <= t.lease.expiry
        BY <2>3, <2>4, <3>1, <4>1
      <4> QED BY <2>6, <4>2 DEF HeldIn
    <3>2. CASE ~(x <= s.lease.expiry)
      BY <2>8, <3>2 DEF HeldIn
    <3> QED BY <3>1, <3>2
  <2> QED
    BY <1>4, <2>1, <2>6, <2>7, <2>8 DEF Later
<1>8. CASE Assess(s, q) = "STOPPED" /\ q.kind = "stop" /\ Ends(s, t)
  <2>1. client.phase \notin {"configure", "load"}
    BY <1>1, <1>2, <1>8 DEF Stopping
  <2> QED
    BY <1>8, <2>1, RunEnded
<1>9. CASE RunOf(t) = RunOf(s)
  BY <1>9, SameRun
<1> QED
  BY <1>6, <1>7, <1>8, <1>9 DEF CarriesOut, q

\* Another client's control does nothing to a run of the session.
LEMMA ForeignControlLater ==
  ASSUME TypeOK, NEW q, WellFormed(q), q.kind \in Controls, q.client # Session,
         NEW s, Standing(s), s.last_time = clock,
         NEW t, Sound(t), CarriesOut(s, q, clock, t)
  PROVE  Standing(t) /\ Later(s, t)
<1>1. /\ clock \in Nat /\ boot \in Int /\ client.boot \in Int /\ client.epoch \in Int
  BY Readings
<1>2. /\ s.epoch \in Nat /\ (Active(s) => s.lease \in Lease /\ s.lease.expiry \in Nat)
      /\ t.epoch \in Nat
  BY RunRead DEF Standing
<1>3. Active(s) => s.lease.last.id \in Nat
  BY <1>2 DEF Lease, Control
<1>4. Assess(s, q) \in {"APPLIED", "STOPPED"} =>
        /\ q.kind = "configure" => ~Active(s)
        /\ q.kind # "configure" => Active(s) /\ s.lease.client = q.client
  BY <1>3, AcceptedMeans DEF WellFormed, Controls
<1>5. CASE Assess(s, q) = "APPLIED" /\ q.kind = "configure" /\ Grants(s, t)
           /\ t.lease = Granted(q, clock)
  <2>1. t.lease.client # Session /\ Active(t) /\ t.epoch = s.epoch /\ ~Active(s)
    BY <1>5 DEF Granted, Grants
  <2> QED
    BY <1>2, <2>1 DEF Standing, Later, OverIn, RunsIn, OursIn, Past, HeldIn
<1>6. CASE Assess(s, q) = "APPLIED" /\ q.kind = "renew" /\ Renews(s, t)
           /\ t.lease = Renewed(s.lease, q, clock)
  <2>1. /\ Active(s) /\ s.lease.client # Session /\ Active(t) /\ t.lease.client # Session
        /\ t.epoch = s.epoch
    BY <1>4, <1>6 DEF Renews
  <2> QED
    BY <1>2, <2>1 DEF Standing, Later, OverIn, RunsIn, OursIn, Past, HeldIn
<1>7. CASE Assess(s, q) = "STOPPED" /\ q.kind = "stop" /\ Ends(s, t)
  BY <1>4, <1>7, RunEnded DEF RunsIn
<1>8. CASE RunOf(t) = RunOf(s)
  BY <1>8, SameRun
<1> QED
  BY <1>5, <1>6, <1>7, <1>8 DEF CarriesOut

\* Requests that Assess accepts.
LEMMA Accepts ==
  ASSUME NEW s, NEW q, q.epoch = s.epoch, ~s.exhausted
  PROVE  /\ Active(s) /\ Owner(s, q.client) /\ s.lease.last = ControlOf(q)
           /\ q.id = s.lease.last.id
             => Assess(s, q) = "ALREADY_APPLIED"
         /\ Active(s) /\ Owner(s, q.client) /\ q.kind = "renew"
           /\ q.id # s.lease.last.id /\ ~(q.id < s.lease.last.id)
             => Assess(s, q) = "APPLIED"
         /\ ~Active(s) /\ q.kind = "configure" /\ configuration_valid(q.config)
             => Assess(s, q) = "APPLIED"
BY DEF Assess

\* A configuration or renewal the session waits for is refused only if its run is over.
LEMMA AwaitedAccepted ==
  ASSUME TypeOK, RequestsStand, ClientStands, NEW m \in requests, Addressed(m),
         m.kind \in Controls, Awaits(m.id),
         NEW s, Standing(s), client.phase = "load" => RunsIn(s) \/ OverIn(s), ~OverIn(s)
  PROVE  Assess(s, Request(m, Session)) \in Accepting
<1> DEFINE q == Request(m, Session)
<1>1. /\ q.kind = m.kind /\ q.id = m.id /\ q.config = m.config /\ q.client = Session
      /\ q.epoch = m.epoch
      /\ ControlOf(q) = [kind |-> m.kind, id |-> m.id, config |-> m.config]
  BY OwnRequest
<1>2. /\ client.control \in Nat /\ boot \in Int /\ client.boot \in Int /\ client.epoch \in Int
  BY Readings
<1>3. m.id = client.control /\ client.phase \in {"configure", "load"}
  BY DEF Awaits
<1>4. /\ boot = client.boot /\ m.epoch = client.epoch
      /\ OwnControl(m.kind, m.id, m.config)
  BY <1>2, <1>3, OwnAddressed
<1>5. /\ s.epoch \in Nat /\ (Active(s) => s.lease \in Lease)
  BY RunRead DEF Standing
<1>6. s.epoch = client.epoch /\ ~s.exhausted /\ (Active(s) => RunsIn(s))
  BY <1>2, <1>4, <1>5 DEF OverIn, RunsIn, Standing, Past
<1>7. m.epoch = s.epoch
  BY <1>4, <1>6
<1> SUFFICES Assess(s, q) \in Accepting
  OBVIOUS
<1> HIDE DEF q
<1>8. CASE Active(s)
  <2> DEFINE last == s.lease.last
  <2>1. last \in Control /\ last.id \in Nat /\ Owner(s, q.client)
    BY <1>1, <1>5, <1>6, <1>8 DEF Lease, Control, Owner, RunsIn
  <2>2. OwnControl(last.kind, last.id, last.config)
    BY <1>6, <1>8 DEF Standing, OursIn
  <2> HIDE DEF last
  <2>3. CASE last.id = m.id
    <3>1. last.kind = m.kind /\ last.config = m.config
      BY <1>4, <2>2, <2>3 DEF OwnControl
    <3>2. last = [kind |-> m.kind, id |-> m.id, config |-> m.config]
      BY <2>1, <2>3, <3>1 DEF Control
    <3>3. s.lease.last = ControlOf(q) /\ q.id = s.lease.last.id
      BY <1>1, <2>3, <3>2 DEF last
    <3> QED
      BY <1>1, <1>6, <1>7, <1>8, <2>1, <3>3, Accepts DEF Accepting
  <2>4. CASE last.id # m.id
    <3>1. last.id < m.id /\ m.kind = "renew"
      BY <1>2, <1>3, <1>4, <2>2, <2>4 DEF OwnControl
    <3>2. q.id # s.lease.last.id /\ ~(q.id < s.lease.last.id)
      BY <1>1, <1>2, <1>3, <2>1, <3>1 DEF last
    <3> QED
      BY <1>1, <1>6, <1>7, <1>8, <2>1, <3>1, <3>2, Accepts DEF Accepting
  <2> QED
    BY <2>3, <2>4
<1>9. CASE ~Active(s)
  <2>1. client.phase = "configure"
    BY <1>3, <1>9 DEF RunsIn
  <2>2. m.kind = "configure" /\ m.config = Requested
    BY <1>3, <1>4, <2>1 DEF ClientStands, OwnControl
  <2>3. configuration_valid(q.config)
    BY <1>1, <2>2, Numbers
  <2> QED
    BY <1>1, <1>6, <1>7, <1>9, <2>2, <2>3, Accepts DEF Accepting
<1> QED
  BY <1>8, <1>9

\* The result of a control of the session says what is so from then on.
LEMMA OwnReplyTruthful ==
  ASSUME TypeOK, RequestsStand, ClientStands, NEW m \in requests, Addressed(m),
         m.kind \in Controls,
         NEW s, Standing(s), s.last_time = clock,
         client.phase = "load" => RunsIn(s) \/ OverIn(s),
         NEW t, Standing(t), Later(s, t), t.last_time = clock,
         CarriesOut(s, Request(m, Session), clock, t),
         NEW r, r = [kind |-> "result", client |-> Session, epoch |-> m.epoch, id |-> m.id,
                     code |-> Assess(s, Request(m, Session)),
                     remaining |-> Remaining(t, Request(m, Session), clock)]
  PROVE  Truthful(boot, r, t)
<1> DEFINE q == Request(m, Session)
           code == Assess(s, q)
           left == Remaining(t, q, clock)
<1>1. /\ r.kind = "result" /\ r.client = Session /\ r.epoch = m.epoch /\ r.id = m.id
      /\ r.code = code /\ r.remaining = left
  OBVIOUS
<1>2. /\ clock \in Nat /\ client.control \in Nat /\ boot \in Int /\ client.boot \in Int
      /\ client.epoch \in Int /\ client.first \in Nat
  BY Readings
<1>3. /\ Begun /\ boot = client.boot /\ m.epoch = client.epoch
      /\ m.id <= client.control \/ (m.id = client.control + 1 /\ Stopping)
  <2>1. OwnControl(m.kind, m.id, m.config) => m.id <= client.control
    BY <1>2, Numbers DEF OwnControl, ClientStands, TypeOK, ClientState
  <2> QED
    BY <2>1, OwnAddressed
<1>4. q.kind = m.kind /\ q.client = Session
  BY OwnRequest
<1>5. /\ code \in {"APPLIED", "STOPPED"} =>
           /\ m.kind = "configure" => ~Active(s)
           /\ m.kind # "configure" => RunsIn(s)
      /\ code = "ALREADY_APPLIED" => RunsIn(s)
      /\ code = "STALE_RUN" => m.epoch # s.epoch
  BY OwnAccepted
<1>6. /\ left \in Nat
      /\ Active(t) /\ clock <= t.lease.expiry => clock + left * UsPerMs <= t.lease.expiry
  <2>1. clock \in Times
    BY <1>2 DEF Times
  <2> QED
    BY <2>1, RemainingTyped DEF Standing
<1>7. ~OverIn(s) /\ Awaits(m.id) => code \in Accepting
  BY AwaitedAccepted
<1>8. s.epoch \in Nat /\ (Active(t) => t.lease.expiry \in Nat)
  BY RunRead DEF Standing
<1> HIDE DEF q, code, left
<1>9. code = "STALE_RUN" => OverIn(t)
  BY <1>2, <1>3, <1>5, <1>8 DEF Standing, Past, OverIn, Later
<1>10. code = "STOPPED" => OverIn(t)
  <2> SUFFICES ASSUME code = "STOPPED" PROVE Ends(s, t)
    BY RunEnded DEF Standing
  <2> QED
    BY DEF CarriesOut, code, q
<1>11. code \in Accepting => RunsIn(t)
  <2>1. CASE code = "APPLIED"
    <3>1. CASE q.kind = "configure" /\ Grants(s, t) /\ t.lease = Granted(q, clock)
      BY <1>4, <3>1 DEF Grants, Granted, RunsIn
    <3>2. CASE q.kind = "renew" /\ Renews(s, t)
      BY <1>4, <1>5, <2>1, <3>2 DEF Renews, RunsIn
    <3> QED
      BY <2>1, <3>1, <3>2 DEF CarriesOut, code, q
  <2>2. CASE code = "ALREADY_APPLIED"
    <3>1. RunOf(t) = RunOf(s)
      BY <2>2 DEF CarriesOut, code, q
    <3>2. t.lease = s.lease
      BY <3>1 DEF RunOf
    <3> QED
      BY <1>5, <2>2, <3>2 DEF RunsIn, Active
  <2> QED
    BY <2>1, <2>2 DEF Accepting
<1>12. code \in Accepting => HeldIn(client.first + left * UsPerMs, t)
  <2> SUFFICES ASSUME code \in Accepting
               PROVE  HeldIn(client.first + left * UsPerMs, t)
    OBVIOUS
  <2> DEFINE worth == left * UsPerMs
  <2>1. worth \in Nat
    BY <1>6, Numbers
  <2>2. RunsIn(t) /\ Active(t)
    BY <1>11 DEF RunsIn
  <2>3. clock < t.lease.expiry
    BY <2>2 DEF Standing, Sound, Unexpired
  <2>4. clock + worth <= t.lease.expiry
    BY <1>2, <1>6, <1>8, <2>2, <2>3
  <2> HIDE DEF worth
  <2>5. client.first <= clock
    BY DEF ClientStands
  <2>6. client.first + worth <= t.lease.expiry
    BY <1>2, <1>8, <2>1, <2>2, <2>4, <2>5
  <2> QED
    BY <2>2, <2>6 DEF HeldIn, worth
<1>13. Awaits(m.id) /\ code \notin Accepting => OverIn(t)
  BY <1>7 DEF Later
<1> QED
  BY <1>1, <1>3, <1>9, <1>10, <1>11, <1>12, <1>13 DEF Truthful

-----------------------------------------------------------------------------
(* Steps of the board.                                                       *)

LEMMA ReplyRead ==
  ASSUME TypeOK, NEW r \in replies
  PROVE  /\ r.boot \in Int /\ r.body.epoch \in Int /\ r.body.id \in Nat
         /\ r.body.kind \in {"result", "limits"}
         /\ r.body.kind = "result" => r.body.remaining \in Nat
<1>1. r \in ReplyState
  BY DEF TypeOK
<1>2. r.boot \in Boots /\ r.body \in BucketedReplies
  BY <1>1 DEF ReplyState
<1>3. r.body.epoch \in Epochs /\ r.body.id \in Nat /\ r.body.kind \in {"result", "limits"}
  BY <1>2 DEF BucketedReplies
<1>4. r.body.kind = "result" => r.body.remaining \in Nat
  BY <1>2 DEF BucketedReplies
<1> QED
  BY <1>2, <1>3, <1>4 DEF Boots, Epochs

\* A step of the board that ends runs for good keeps what client and replies know.
LEMMA BoardKeeps ==
  ASSUME IInv, UNCHANGED <<clock, client, requests>>, TypeOK',
         Standing(service)', service'.last_time <= clock',
         boot < boot' \/ (boot' = boot /\ service.epoch <= service'.epoch),
         OverIn(service) => OverIn(service)',
         RunsIn(service) => RunsIn(service)' \/ OverIn(service)',
         client.phase \in {"configure", "load"} =>
           \A x \in Nat : HeldIn(x, service) =>
             x <= clock' \/ disturbed' \/ (RunsIn(service)' /\ x <= service'.lease.expiry),
         \A r \in replies' : r \in replies \/ Truthful(r.boot, r.body, service)'
  PROVE  IInv'
<1>1. ServiceStands'
  BY DEF ServiceStands, Standing
<1>2. ClientStands'
  <2>1. client.expiry \in Nat
    BY Readings DEF IInv
  <2>2. client.phase = "load" => HeldIn(client.expiry, service)'
    BY <2>1 DEF IInv, ClientStands, HeldIn
  <2>3. Begun => Begun'
    BY DEF Begun
  <2> QED
    BY <2>2, <2>3 DEF IInv, ClientStands
<1>3. RequestsStand'
  BY DEF IInv, RequestsStand, OwnControl, Begun, Stopping
<1>4. ASSUME NEW r \in replies, Truthful(r.boot, r.body, service)
      PROVE  Truthful(r.boot, r.body, service)'
  <2>1. /\ r.boot \in Int /\ r.body.epoch \in Int /\ boot \in Int /\ boot' \in Int
        /\ (r.body.kind = "result" => r.body.remaining \in Nat)
    BY ReplyRead, Readings DEF IInv, TypeOK, Boots
  <2>2. service.epoch \in Int /\ service'.epoch \in Int
    BY RunRead DEF IInv, ServiceStands, Standing, Sound, ServiceState, Epochs
  <2>3. Past(r.boot, r.body.epoch, service) => Past(r.boot, r.body.epoch, service)'
    BY <2>1, <2>2 DEF Past
  <2>4. Awaits(r.body.id)' = Awaits(r.body.id) /\ Begun' = Begun /\ Stopping' = Stopping
    BY DEF Awaits, Begun, Stopping
  <2>5. ASSUME r.body.kind = "result", Awaits(r.body.id),
               HeldIn(client.first + r.body.remaining * UsPerMs, service)
        PROVE  HeldIn(client.first + r.body.remaining * UsPerMs, service)'
    <3> DEFINE x == client.first + r.body.remaining * UsPerMs
    <3>1. r.body.remaining * UsPerMs \in Nat /\ client.first \in Nat
      BY <2>1, <2>5, Numbers, Readings DEF IInv
    <3>2. x \in Nat
      BY <3>1
    <3>3. client.phase \in {"configure", "load"}
      BY <2>5 DEF Awaits
    <3>4. client'.first + r.body.remaining * UsPerMs = x
      OBVIOUS
    <3>5. HeldIn(x, service)
      BY <2>5
    <3> HIDE DEF x
    <3>6. x <= clock' \/ disturbed' \/ (RunsIn(service)' /\ x <= service'.lease.expiry)
      BY <3>2, <3>3, <3>5
    <3> QED
      BY <3>4, <3>6 DEF HeldIn
  <2> QED
    BY <1>4, <2>3, <2>4, <2>5 DEF Truthful
<1>5. RepliesStand'
  BY <1>4 DEF IInv, RepliesStand
<1> QED
  BY <1>1, <1>2, <1>3, <1>5 DEF IInv

LEMMA ServiceTyped == ASSUME NEW s, Sound(s) PROVE s \in ServiceState
BY DEF Sound

\* A call of the service at the present time.
LEMMA CallKeeps ==
  ASSUME IInv, UNCHANGED <<clock, boot, client, requests, disturbed>>,
         NEW u, service' = u, Standing(u), u.last_time = clock, Later(service, u),
         replies' \subseteq ReplyState,
         \A r \in replies' : r \in replies \/ Truthful(r.boot, r.body, u)
  PROVE  IInv'
<1>1. TypeOK'
  BY ServiceTyped DEF IInv, TypeOK, Standing
<1>2. Standing(service)' /\ service'.last_time <= clock'
  BY Readings DEF IInv, Standing, OursIn, OwnControl, RunsIn, Begun, Past
<1>3. OverIn(u) = OverIn(service)' /\ RunsIn(u) = RunsIn(service)'
  BY DEF OverIn, RunsIn
<1>4. \A r \in replies' : r \in replies \/ Truthful(r.boot, r.body, service)'
  BY DEF Truthful, OverIn, RunsIn, HeldIn, Past, Awaits, Begun, Stopping
<1>5. ASSUME client.phase \in {"configure", "load"}, NEW x \in Nat, HeldIn(x, service)
      PROVE  x <= clock' \/ disturbed' \/ (RunsIn(service)' /\ x <= service'.lease.expiry)
  BY <1>3, <1>5 DEF Later, HeldIn
<1> QED
  BY <1>1, <1>2, <1>3, <1>4, <1>5, BoardKeeps DEF Later

LEMMA PresentStanding ==
  ASSUME IInv
  PROVE  /\ TypeOK /\ Standing(service) /\ service.last_time <= clock /\ clock \in Times
         /\ client.phase = "load" => RunsIn(service) \/ OverIn(service)
BY Readings DEF IInv, ServiceStands, Standing, ClientStands, Times

LEMMA TickKeeps == ASSUME IInv, TickNow PROVE IInv'
<1>1. replies' \subseteq ReplyState
  BY DEF IInv, TypeOK, TickNow
<1>2. Standing(Tick(service, clock)) /\ Later(service, Tick(service, clock))
      /\ Tick(service, clock).last_time = clock
  BY PresentStanding, TickStanding
<1> QED
  BY <1>1, <1>2, CallKeeps DEF TickNow

LEMMA DeliverKeeps == ASSUME IInv, NEW m \in requests, Deliver(m) PROVE IInv'
<1> DEFINE q == Request(m, Session)
           t == Tick(service, clock)
           h == Handle(service, q, clock)
           u == h.service
<1>1. /\ TypeOK /\ RequestsStand /\ ClientStands /\ Standing(service) /\ clock \in Times
      /\ client.phase = "load" => RunsIn(service) \/ OverIn(service)
  BY PresentStanding DEF IInv
<1>2. Standing(t) /\ Later(service, t) /\ t.last_time = clock /\ Sound(t)
  BY PresentStanding, TickStanding DEF Standing
<1>3. /\ WellFormed(q) /\ q.epoch \in Epochs /\ q.client = Session /\ q.kind = m.kind
      /\ q.addressed = Addressed(m) /\ q.id = m.id /\ q.epoch = m.epoch
      /\ m.kind \in Controls \cup {"capabilities"}
  BY <1>1, OwnRequest
<1>4. h = IF ~q.addressed THEN [service |-> Reject(t, FALSE), reply |-> None]
          ELSE IF m.kind = "capabilities" THEN Bucketed(t, Capabilities(t, q))
          ELSE IF m.kind = "probe" THEN HandleProbe(t, q)
          ELSE HandleControl(t, q, clock)
  BY <1>3 DEF Handle
<1> HIDE DEF q, t, h
<1>5. /\ Standing(u) /\ u.last_time = clock /\ Later(service, u)
      /\ h.reply # None => h.reply \in BucketedReplies /\ Truthful(boot, h.reply, u)
  <2>1. CASE ~q.addressed
    <3>1. u = Reject(t, FALSE) /\ h.reply = None
      BY <1>4, <2>1
    <3>2. FALSE \in BOOLEAN
      OBVIOUS
    <3>3. Sound(u) /\ RunOf(u) = RunOf(t) /\ u.last_time = clock
      BY <1>2, <3>1, <3>2, RejectSound
    <3> QED
      BY <1>1, <1>2, <3>1, <3>3, SameRun, LaterTransitive DEF Standing
  <2>2. CASE q.addressed /\ m.kind = "capabilities"
    <3> DEFINE limits == Capabilities(t, q)
    <3>1. h = Bucketed(t, limits)
      BY <1>4, <2>2
    <3>2. t.epoch \in Epochs /\ t.epoch \in Nat
      BY <1>2, RunRead DEF Sound, ServiceState
    <3>3. /\ limits \in BucketedReplies /\ limits.client = Session /\ limits.kind = "limits"
          /\ limits.epoch = t.epoch
      BY <1>3, <3>2 DEF Capabilities, BucketedReplies, WellFormed, Active
    <3> HIDE DEF limits
    <3>4. Sound(u) /\ RunOf(u) = RunOf(t) /\ u.last_time = clock
      BY <1>2, <3>1, BucketSound
    <3>5. h.reply \in {None, limits}
      BY <3>1 DEF Bucketed
    <3>6. Truthful(boot, limits, u)
      BY <1>1, <3>2, <3>3, <3>4, Readings DEF Truthful, Past, RunOf
    <3> QED
      BY <1>1, <1>2, <3>3, <3>4, <3>5, <3>6, SameRun, LaterTransitive DEF Standing
  <2>3. CASE q.addressed /\ m.kind \in Controls
    <3>1. h = HandleControl(t, q, clock)
      BY <1>4, <2>3 DEF Controls
    <3>2. Sound(u) /\ u.last_time = clock /\ CarriesOut(t, q, clock, u)
      BY <1>1, <1>2, <1>3, <2>3, <3>1, ControlSound DEF Controls
    <3>3. Standing(u) /\ Later(t, u)
      BY <1>1, <1>2, <1>3, <2>3, <3>2, OwnControlLater DEF q
    <3>4. client.phase = "load" => RunsIn(t) \/ OverIn(t)
      BY <1>1, <1>2 DEF Later
    <3>5. ASSUME h.reply # None
          PROVE  h.reply \in BucketedReplies /\ Truthful(boot, h.reply, u)
      <4>1. /\ h.reply \in BucketedReplies
            /\ h.reply = [kind |-> "result", client |-> Session, epoch |-> m.epoch, id |-> m.id,
                          code |-> Assess(t, q), remaining |-> Remaining(u, q, clock)]
        BY <1>1, <1>2, <1>3, <2>3, <3>1, <3>5, ControlReply DEF Controls
      <4> DEFINE r == h.reply
      <4> HIDE DEF u
      <4>2. Truthful(boot, r, u)
        BY <1>1, <1>2, <1>3, <2>3, <3>2, <3>3, <3>4, <4>1, OwnReplyTruthful DEF q
      <4> QED
        BY <4>1, <4>2
    <3> QED
      BY <1>1, <1>2, <3>2, <3>3, <3>5, LaterTransitive DEF Standing
  <2> QED
    BY <1>3, <2>1, <2>2, <2>3
<1>6. /\ service' = u /\ UNCHANGED <<clock, boot, client, requests, disturbed>>
      /\ replies' = replies \cup (IF h.reply = None THEN {}
                                  ELSE {[boot |-> boot, body |-> h.reply]})
  BY DEF Deliver, h, q
<1>7. replies' \subseteq ReplyState
  BY <1>1, <1>5, <1>6 DEF TypeOK, ReplyState
<1>8. \A r \in replies' : r \in replies \/ Truthful(r.boot, r.body, u)
  BY <1>5, <1>6
<1> HIDE DEF u
<1> QED
  BY <1>5, <1>6, <1>7, <1>8, CallKeeps

LEMMA ForeignKeeps ==
  ASSUME IInv, NEW sender \in Clients \ {Session}, NEW kind \in Controls, NEW id \in ForeignIds,
         ForeignRequest(sender, kind, id)
  PROVE  IInv'
<1> DEFINE m == [kind |-> kind, boot |-> boot, epoch |-> service.epoch, id |-> id,
                 config |-> IF kind = "configure" THEN Requested ELSE None]
           q == Request(m, sender)
           t == Tick(service, clock)
           u == Handle(service, q, clock).service
<1>1. TypeOK /\ Standing(service) /\ clock \in Times
  BY PresentStanding
<1>2. Standing(t) /\ Later(service, t) /\ t.last_time = clock /\ Sound(t)
  BY PresentStanding, TickStanding DEF Standing
<1>3. /\ q.kind = kind /\ q.client = sender /\ q.id = id /\ q.addressed = TRUE
      /\ q.config = IF kind = "configure" THEN Requested ELSE None
      /\ ControlOf(q) = [kind |-> q.kind, id |-> q.id, config |-> q.config]
  BY DEF Request, Addressed, ControlOf
<1>4. u = HandleControl(t, q, clock).service
  BY <1>3 DEF Handle, Controls
<1> HIDE DEF q
<1>5. id \in Nat
  BY SessionAssumption
<1>6. WellFormed(q)
  <2>1. ControlOf(q) \in Control
    BY <1>3, <1>5, Numbers DEF Control, Controls
  <2> QED
    BY <1>3, <1>5, <2>1, Numbers DEF WellFormed, Controls
<1> HIDE DEF t, u
<1>7. Sound(u) /\ u.last_time = clock /\ CarriesOut(t, q, clock, u)
  BY <1>1, <1>2, <1>3, <1>4, <1>6, ControlSound DEF Controls
<1>8. Standing(u) /\ Later(t, u)
  BY <1>1, <1>2, <1>3, <1>6, <1>7, ForeignControlLater
<1>9. Later(service, u)
  BY <1>1, <1>2, <1>7, <1>8, LaterTransitive DEF Standing
<1>10. service' = u /\ UNCHANGED <<clock, boot, client, requests, replies, disturbed>>
  BY DEF ForeignRequest, u, q
<1>11. replies' \subseteq ReplyState
  BY <1>1, <1>10 DEF TypeOK
<1> QED
  BY <1>7, <1>8, <1>9, <1>10, <1>11, CallKeeps

LEMMA EndLocallyKeeps == ASSUME IInv, EndLocally PROVE IInv'
<1> DEFINE u == End(service)
<1>1. /\ TypeOK /\ Standing(service) /\ service \in ServiceState /\ Following(service)
      /\ service.last_time <= clock
  BY PresentStanding DEF Standing, Sound
<1>2. /\ u \in ServiceState /\ ~Active(u) /\ Following(u) /\ u.last_time = service.last_time
      /\ ~Active(service) => u = service
  BY <1>1, EndSound
<1>3. Sound(u)
  BY <1>2 DEF Sound, Unexpired
<1>4. /\ service' = u /\ UNCHANGED <<clock, boot, client, requests, replies>>
      /\ disturbed' = (disturbed \/ Active(service))
  BY DEF EndLocally
<1>5. disturbed \in BOOLEAN /\ disturbed' \in BOOLEAN
  <2>1. Active(service) \in BOOLEAN
    BY DEF Active
  <2> QED
    BY <1>1, <1>4, <2>1 DEF TypeOK
<1>6. CASE ~Active(service)
  <2>1. service' = service /\ disturbed' = disturbed
    BY <1>2, <1>4, <1>5, <1>6
  <2> QED
    BY <1>1, <1>4, <2>1 DEF IInv, TypeOK, ServiceStands, ClientStands, RequestsStand, RepliesStand,
       Truthful, OverIn, RunsIn, HeldIn, OursIn, Past, Awaits, Begun, Stopping, OwnControl
<1>7. CASE Active(service)
  <2>1. Ends(service, u)
    BY <1>7 DEF Ends
  <2> HIDE DEF u
  <2>2. Standing(u) /\ OverIn(u) /\ service.epoch <= u.epoch
    BY <1>1, <1>3, <2>1, RunEnded
  <2>3. disturbed'
    BY <1>4, <1>7
  <2>4. TypeOK'
    BY <1>1, <1>3, <1>4, <1>5 DEF TypeOK, Sound
  <2>5. OverIn(service)' /\ Standing(service)'
    BY <1>4, <2>2 DEF OverIn, Standing, OursIn, OwnControl, RunsIn, Begun, Past
  <2> QED
    BY <1>1, <1>2, <1>4, <2>2, <2>3, <2>4, <2>5, BoardKeeps
<1> QED
  BY <1>6, <1>7

LEMMA RebootKeeps == ASSUME IInv, Reboot PROVE IInv'
<1> DEFINE u == NewService(clock)
<1>1. TypeOK /\ Standing(service) /\ clock \in Times
  BY PresentStanding
<1>2. Sound(u) /\ u.last_time = clock /\ u.lease = None
  BY <1>1, NewServiceSound DEF NewService
<1> HIDE DEF u
<1>3. /\ service' = u /\ boot' = boot + 1 /\ boot < MaxBoot
      /\ UNCHANGED <<clock, client, requests, replies>>
      /\ disturbed' = (disturbed \/ Active(service))
  BY DEF Reboot, u
<1>4. boot \in Int /\ client.boot \in Int /\ client.boot <= boot
  BY <1>1, Readings DEF Standing, Past
<1>5. boot < boot' /\ client.boot < boot' /\ boot' \in Boots
  BY <1>1, <1>3, <1>4, Numbers DEF TypeOK, Boots
<1>6. disturbed' \in BOOLEAN
  <2>1. Active(service) \in BOOLEAN
    BY DEF Active
  <2> QED
    BY <1>1, <1>3, <2>1 DEF TypeOK
<1>7. TypeOK'
  BY <1>1, <1>2, <1>3, <1>5, <1>6 DEF TypeOK, Sound
<1>8. ~RunsIn(service)' /\ OverIn(service)'
  BY <1>2, <1>3, <1>5 DEF RunsIn, Active, OverIn
<1>9. Standing(service)'
  BY <1>2, <1>3, <1>4, <1>5, <1>8 DEF Standing, OursIn, Past
<1>10. ASSUME NEW x \in Nat, HeldIn(x, service)
       PROVE  x <= clock' \/ disturbed' \/ (RunsIn(service)' /\ x <= service'.lease.expiry)
  BY <1>1, <1>3, <1>10 DEF HeldIn, RunsIn, TypeOK
<1>11. service'.last_time <= clock'
  BY <1>1, <1>2, <1>3 DEF Times
<1> QED
  BY <1>3, <1>5, <1>7, <1>8, <1>9, <1>10, <1>11, BoardKeeps

LEMMA ElapseKeeps == ASSUME IInv, Elapse PROVE IInv'
<1>1. /\ TypeOK /\ Standing(service) /\ service.last_time <= clock /\ clock \in Nat
      /\ client.first \in Nat /\ client.first <= clock /\ client.expiry \in Nat
  BY PresentStanding, Readings DEF IInv, ClientStands
<1>2. /\ clock' = clock + 1
      /\ UNCHANGED <<boot, service, client, requests, replies, disturbed>>
  BY DEF Elapse
<1>3. service.last_time \in Nat
  BY <1>1 DEF Standing, Sound, ServiceState, Times
<1>4. TypeOK'
  BY <1>1, <1>2 DEF TypeOK, Times
<1>5. /\ ServiceStands' /\ RequestsStand'
  BY <1>1, <1>2, <1>3 DEF IInv, ServiceStands, RequestsStand, OursIn, RunsIn, OwnControl,
     Begun, Past, Stopping
<1>6. \A x \in Nat : HeldIn(x, service) => x <= clock' \/ disturbed' \/ (RunsIn(service)' /\ x <= service'.lease.expiry)
  BY <1>1, <1>2 DEF HeldIn, RunsIn
<1>7. ClientStands'
  BY <1>1, <1>2, <1>6 DEF IInv, ClientStands, OverIn, RunsIn, HeldIn, Begun
<1>8. ASSUME NEW r \in replies, Truthful(r.boot, r.body, service)
      PROVE  Truthful(r.boot, r.body, service)'
  <2>1. r.body.kind = "result" => r.body.remaining * UsPerMs \in Nat
    BY <1>1, ReplyRead, Numbers
  <2>2. r.body.kind = "result" => client.first + r.body.remaining * UsPerMs \in Nat
    BY <1>1, <2>1
  <2>3. r.body.kind = "result" /\ HeldIn(client.first + r.body.remaining * UsPerMs, service)
          => HeldIn(client.first + r.body.remaining * UsPerMs, service)'
    BY <1>2, <1>6, <2>2 DEF HeldIn
  <2> QED
    BY <1>2, <1>8, <2>3 DEF Truthful, OverIn, RunsIn, Past, Awaits, Begun, Stopping
<1>9. RepliesStand'
  BY <1>2, <1>8 DEF IInv, RepliesStand
<1> QED
  BY <1>4, <1>5, <1>7, <1>9 DEF IInv

-----------------------------------------------------------------------------
(* Steps of the client.                                                      *)

Alone == UNCHANGED <<clock, boot, service, disturbed>>

\* While the session has not begun, it has no run and no reply to a control.
LEMMA NotBegun ==
  ASSUME IInv, client.phase = "capabilities"
  PROVE  /\ ~RunsIn(service) /\ ~client.rejected /\ client.control = 1
         /\ \A m \in requests : m.kind = "capabilities"
         /\ \A r \in replies : r.body.client = Session /\ r.body.kind = "limits"
                                 /\ Past(r.boot, r.body.epoch, service)
<1>1. ~Begun
  BY DEF Begun
<1>2. \A r \in replies : r.body.kind = "limits"
  BY <1>1, ReplyRead DEF IInv, RepliesStand, Truthful
<1> QED
  BY <1>1, <1>2 DEF IInv, ServiceStands, OursIn, ClientStands, RequestsStand, RepliesStand, Truthful

LEMMA BeginningKeeps ==
  ASSUME IInv, client.phase = "capabilities", Alone, UNCHANGED replies,
         requests' \subseteq RequestState, client' \in ClientState,
         \A m \in requests' : m.kind = "capabilities",
         client'.phase \in {"capabilities", "configure", "done"},
         client'.cleanup = "not_acquired", ~client'.rejected, client'.control = 1,
         client'.first <= clock, Past(client'.boot, client'.epoch, service)
  PROVE  IInv'
<1>1. TypeOK'
  BY DEF IInv, TypeOK, Alone
<1>2. ServiceStands'
  BY NotBegun DEF IInv, ServiceStands, OursIn, RunsIn, Past, Alone
<1>3. ClientStands'
  BY Numbers DEF ClientStands, Alone
<1>4. RequestsStand'
  BY DEF RequestsStand
<1>5. RepliesStand'
  BY NotBegun DEF RepliesStand, Truthful, Past, Alone
<1> QED
  BY <1>1, <1>2, <1>3, <1>4, <1>5 DEF IInv

\* In the run's boot and epoch, the session's control only grows; what it waits for
\* later it waits for already, unless the identity is new.
LEMMA SessionKeeps ==
  ASSUME IInv, Alone, UNCHANGED replies, Begun, Begun',
         requests' \subseteq RequestState, client' \in ClientState,
         client'.boot = client.boot, client'.epoch = client.epoch,
         client.control <= client'.control,
         Stopping => Stopping' /\ client'.control = client.control,
         \A id \in Nat : Awaits(id)' =>
           \/ Awaits(id) /\ client'.first = client.first
           \/ id > client.control /\ ~Stopping
  PROVE  /\ TypeOK' /\ ServiceStands' /\ RepliesStand'
         /\ RunsIn(service)' = RunsIn(service) /\ OverIn(service)' = OverIn(service)
         /\ \A m \in requests : m.kind # "capabilities" =>
              /\ Begun' /\ m.boot = client'.boot /\ m.epoch = client'.epoch
              /\ \/ OwnControl(m.kind, m.id, m.config)'
                 \/ m.kind = "stop" /\ m.id = client'.control + 1 /\ m.config = None /\ Stopping'
<1>1. TypeOK'
  BY DEF IInv, TypeOK, Alone
<1>2. client.control \in Int /\ client'.control \in Int
  BY Numbers DEF IInv, TypeOK, ClientState
<1>3. \A kind, id, config : OwnControl(kind, id, config) => OwnControl(kind, id, config)'
  BY <1>2 DEF OwnControl
<1>4. RunsIn(service)' = RunsIn(service) /\ OverIn(service)' = OverIn(service)
  BY DEF RunsIn, OverIn, Alone
<1>5. ServiceStands'
  BY <1>3, <1>4 DEF IInv, ServiceStands, OursIn, RunsIn, OwnControl, Past, Alone
<1>6. ASSUME NEW r \in replies, Truthful(r.boot, r.body, service)
      PROVE  Truthful(r.boot, r.body, service)'
  <2>1. r.body.id \in Nat
    BY ReplyRead DEF IInv
  <2>2. r.body.kind = "result" =>
          r.body.id <= client'.control \/ (r.body.id = client'.control + 1 /\ Stopping')
    BY <1>2, <1>6, <2>1 DEF Truthful
  <2>3. r.body.kind = "result" /\ Awaits(r.body.id)'
          => Awaits(r.body.id) /\ client'.first = client.first
    BY <1>2, <1>6, <2>1 DEF Truthful
  <2> QED
    BY <1>4, <1>6, <2>2, <2>3 DEF Truthful, HeldIn, RunsIn, Past, Alone
<1>7. RepliesStand'
  BY <1>6 DEF IInv, RepliesStand
<1>8. ASSUME NEW m \in requests, m.kind # "capabilities"
      PROVE  /\ Begun' /\ m.boot = client'.boot /\ m.epoch = client'.epoch
             /\ \/ OwnControl(m.kind, m.id, m.config)'
                \/ m.kind = "stop" /\ m.id = client'.control + 1 /\ m.config = None /\ Stopping'
  BY <1>3, <1>8 DEF IInv, RequestsStand
<1> QED
  BY <1>1, <1>4, <1>5, <1>7, <1>8

LEMMA RequestTyped ==
  ASSUME TypeOK, NEW kind \in Controls \cup {"capabilities"}, NEW id \in 1..MaxControl
  PROVE  /\ Message(kind, id) \in RequestState
         /\ Message(kind, id).kind = kind /\ Message(kind, id).id = id
         /\ Message(kind, id).boot = client.boot /\ Message(kind, id).epoch = client.epoch
         /\ Message(kind, id).config = IF kind = "configure" THEN Requested ELSE None
BY DEF Message, RequestState, TypeOK, ClientState, Controls

LEMMA CapabilitiesKeeps ==
  ASSUME IInv, client.phase = "capabilities", Alone,
         \/ SendCopy \/ TimeOut \/ Interrupt
         \/ \E r \in replies : AcceptCapabilities(r)
  PROVE  IInv'
<1>1. /\ TypeOK /\ client \in ClientState /\ clock \in Nat /\ client.first <= clock
      /\ client.cleanup = "not_acquired" /\ client.control = 1 /\ ~client.rejected
      /\ Past(client.boot, client.epoch, service)
      /\ requests \subseteq RequestState /\ \A m \in requests : m.kind = "capabilities"
  BY NotBegun, Readings DEF IInv, ClientStands, ServiceStands, TypeOK
<1>2. CASE SendCopy
  <2>1. /\ requests' = requests \cup {Message("capabilities", 1)} /\ UNCHANGED replies
        /\ client' = [client EXCEPT !.resend = clock + Retry]
    BY <1>1, <1>2 DEF SendCopy, Send, Identity
  <2>2. 1 \in 1..MaxControl
    BY Numbers
  <2>3. Message("capabilities", 1) \in RequestState /\ Message("capabilities", 1).kind = "capabilities"
    BY <1>1, <2>2, RequestTyped
  <2>4. clock + Retry \in Nat
    BY <1>1, Numbers
  <2>5. /\ client' \in ClientState /\ client'.phase = "capabilities"
        /\ client'.cleanup = "not_acquired" /\ client'.control = 1 /\ ~client'.rejected
        /\ client'.first = client.first /\ client'.boot = client.boot
        /\ client'.epoch = client.epoch
    BY <1>1, <2>1, <2>4 DEF ClientState, Times
  <2> QED
    BY <1>1, <2>1, <2>3, <2>5, BeginningKeeps
<1>3. ASSUME client' = [client EXCEPT !.phase = "done"], UNCHANGED <<requests, replies>>
      PROVE  IInv'
  <2>1. /\ client' \in ClientState /\ client'.phase = "done"
        /\ client'.cleanup = "not_acquired" /\ client'.control = 1 /\ ~client'.rejected
        /\ client'.first = client.first /\ client'.boot = client.boot
        /\ client'.epoch = client.epoch
    BY <1>1, <1>3 DEF ClientState, Phases
  <2> QED
    BY <1>1, <1>3, <2>1, BeginningKeeps
<1>4. CASE TimeOut \/ Interrupt
  BY <1>3, <1>4 DEF TimeOut, Interrupt, Abandoned, Leave
<1>5. ASSUME NEW r \in replies, AcceptCapabilities(r)
      PROVE  IInv'
  <2>1. CASE ~r.body.available
    BY <1>3, <1>5, <2>1 DEF AcceptCapabilities, Leave
  <2>2. CASE r.body.available
    <3>1. /\ client' = [client EXCEPT !.boot = r.boot, !.epoch = r.body.epoch,
                                      !.phase = "configure", !.first = clock, !.resend = clock]
          /\ UNCHANGED <<requests, replies>>
      BY <1>5, <2>2 DEF AcceptCapabilities, Enter
    <3>2. r.boot \in Boots /\ r.body.epoch \in Epochs
      BY <1>1 DEF TypeOK, ReplyState, BucketedReplies
    <3>3. Past(r.boot, r.body.epoch, service)
      BY NotBegun
    <3>4. /\ client' \in ClientState /\ client'.phase = "configure"
          /\ client'.cleanup = "not_acquired" /\ client'.control = 1 /\ ~client'.rejected
          /\ client'.first = clock /\ client'.boot = r.boot /\ client'.epoch = r.body.epoch
      BY <1>1, <3>1, <3>2 DEF ClientState, Times, Phases, Exchanges
    <3>5. client'.first <= clock /\ Past(client'.boot, client'.epoch, service)
      BY <1>1, <3>3, <3>4
    <3> QED
      BY <1>1, <3>1, <3>4, <3>5, BeginningKeeps
  <2> QED
    BY <2>1, <2>2
<1> QED
  BY <1>2, <1>4, <1>5

\* Going on to the stop, from the exchange that configures or from the load.
LEMMA LeaveKeeps ==
  ASSUME IInv, Alone, client.phase \in {"configure", "load"}, UNCHANGED <<requests, replies>>,
         NEW rejected \in BOOLEAN, rejected => OverIn(service),
         client' = [client EXCEPT !.rejected = rejected, !.pending = FALSE, !.phase = "stop",
                                  !.first = clock, !.resend = clock]
  PROVE  IInv'
<1>1. /\ client \in ClientState /\ clock \in Nat /\ client.cleanup = "not_acquired"
      /\ client.control < MaxControl /\ client.control \in Nat
      /\ requests \subseteq RequestState
  BY Readings DEF IInv, TypeOK, ClientStands
<1>2. /\ client' \in ClientState /\ client'.phase = "stop" /\ client'.rejected = rejected
      /\ client'.first = clock /\ client'.boot = client.boot /\ client'.epoch = client.epoch
      /\ client'.control = client.control /\ client'.cleanup = client.cleanup
  BY <1>1 DEF ClientState, Times, Phases, Exchanges
<1>3. Begun /\ Begun' /\ ~Stopping /\ (\A id \in Nat : ~Awaits(id)')
  BY <1>2 DEF Begun, Stopping, Awaits
<1>4. /\ TypeOK' /\ ServiceStands' /\ RepliesStand' /\ OverIn(service)' = OverIn(service)
      /\ \A m \in requests : m.kind # "capabilities" =>
           /\ Begun' /\ m.boot = client'.boot /\ m.epoch = client'.epoch
           /\ \/ OwnControl(m.kind, m.id, m.config)'
              \/ m.kind = "stop" /\ m.id = client'.control + 1 /\ m.config = None /\ Stopping'
  BY <1>1, <1>2, <1>3, SessionKeeps
<1>5. RequestsStand'
  BY <1>4 DEF RequestsStand
<1>6. ClientStands'
  BY <1>1, <1>2, <1>3, <1>4 DEF ClientStands, Alone
<1> QED
  BY <1>4, <1>5, <1>6 DEF IInv

\* The end of the session after the exchange that stops the run.
LEMMA DoneKeeps ==
  ASSUME IInv, Alone, client.phase = "stop", UNCHANGED <<requests, replies>>,
         NEW outcome \in Cleanups \ {"not_acquired"},
         outcome # "lease_fallback" => OverIn(service),
         client' = [client EXCEPT !.phase = "done", !.cleanup = outcome]
  PROVE  IInv'
<1>1. /\ client \in ClientState /\ requests \subseteq RequestState
      /\ client.control \in Nat
  BY Readings DEF IInv, TypeOK
<1>2. /\ client' \in ClientState /\ client'.phase = "done" /\ client'.rejected = client.rejected
      /\ client'.first = client.first /\ client'.boot = client.boot
      /\ client'.epoch = client.epoch /\ client'.control = client.control
      /\ client'.cleanup = outcome
  BY <1>1 DEF ClientState, Phases
<1>3. Begun /\ Begun' /\ Stopping' /\ (\A id \in Nat : ~Awaits(id)')
  BY <1>2 DEF Begun, Stopping, Awaits
<1>4. /\ TypeOK' /\ ServiceStands' /\ RepliesStand' /\ OverIn(service)' = OverIn(service)
      /\ \A m \in requests : m.kind # "capabilities" =>
           /\ Begun' /\ m.boot = client'.boot /\ m.epoch = client'.epoch
           /\ \/ OwnControl(m.kind, m.id, m.config)'
              \/ m.kind = "stop" /\ m.id = client'.control + 1 /\ m.config = None /\ Stopping'
  BY <1>1, <1>2, <1>3, SessionKeeps
<1>5. RequestsStand'
  BY <1>4 DEF RequestsStand
<1>6. ClientStands'
  BY <1>1, <1>2, <1>3, <1>4 DEF IInv, ClientStands, Alone, Cleanups
<1> QED
  BY <1>4, <1>5, <1>6 DEF IInv

\* Another copy of the request the session waits for, or of its stop.
LEMMA CopyKeeps ==
  ASSUME IInv, Alone, client.phase \in {"configure", "load", "stop"}, UNCHANGED replies,
         NEW kind \in Controls, NEW id \in 1..MaxControl,
         \/ OwnControl(kind, id, IF kind = "configure" THEN Requested ELSE None)
         \/ kind = "stop" /\ id = client.control + 1 /\ client.phase = "stop",
         requests' = requests \cup {Message(kind, id)},
         client' = [client EXCEPT !.resend = clock + Retry]
  PROVE  IInv'
<1> PICK m : m = Message(kind, id)
  OBVIOUS
<1>1. /\ client \in ClientState /\ client.control \in Nat /\ requests \subseteq RequestState
      /\ clock + Retry \in Nat /\ TypeOK
  BY Numbers, Readings DEF IInv, TypeOK
<1>2. /\ client' \in ClientState /\ client'.phase = client.phase
      /\ client'.rejected = client.rejected /\ client'.cleanup = client.cleanup
      /\ client'.pending = client.pending /\ client'.expiry = client.expiry
      /\ client'.first = client.first /\ client'.boot = client.boot
      /\ client'.epoch = client.epoch /\ client'.control = client.control
  BY <1>1 DEF ClientState, Times
<1>3. /\ Begun /\ Begun' /\ (Stopping' = Stopping)
      /\ \A n \in Nat : Awaits(n)' => Awaits(n)
  BY <1>2 DEF Begun, Stopping, Awaits
<1>4. /\ m \in RequestState /\ m.kind = kind /\ m.id = id
      /\ m.boot = client.boot /\ m.epoch = client.epoch
      /\ m.config = IF kind = "configure" THEN Requested ELSE None
  BY <1>1, RequestTyped
<1>5. requests' \subseteq RequestState /\ requests' = requests \cup {m}
  BY <1>1, <1>4
<1>6. /\ TypeOK' /\ ServiceStands' /\ RepliesStand' /\ OverIn(service)' = OverIn(service)
      /\ RunsIn(service)' = RunsIn(service)
      /\ \A n \in requests : n.kind # "capabilities" =>
           /\ Begun' /\ n.boot = client'.boot /\ n.epoch = client'.epoch
           /\ \/ OwnControl(n.kind, n.id, n.config)'
              \/ n.kind = "stop" /\ n.id = client'.control + 1 /\ n.config = None /\ Stopping'
  BY <1>1, <1>2, <1>3, <1>5, SessionKeeps
<1>7. /\ Begun' /\ m.boot = client'.boot /\ m.epoch = client'.epoch
      /\ \/ OwnControl(m.kind, m.id, m.config)'
         \/ m.kind = "stop" /\ m.id = client'.control + 1 /\ m.config = None /\ Stopping'
  <2>1. OwnControl(kind, id, m.config) => OwnControl(m.kind, m.id, m.config)'
    BY <1>2, <1>4 DEF OwnControl
  <2>2. kind = "stop" => m.config = None
    BY <1>4
  <2>3. client.phase = "stop" => Stopping'
    BY <1>2 DEF Stopping
  <2> QED
    BY <1>2, <1>3, <1>4, <2>1, <2>2, <2>3
<1>8. RequestsStand'
  <2> SUFFICES ASSUME NEW n \in requests', n.kind # "capabilities"
               PROVE  /\ Begun' /\ n.boot = client'.boot /\ n.epoch = client'.epoch
                      /\ \/ OwnControl(n.kind, n.id, n.config)'
                         \/ n.kind = "stop" /\ n.id = client'.control + 1
                            /\ n.config = None /\ Stopping'
    BY DEF RequestsStand
  <2>1. CASE n \in requests
    BY <1>6, <2>1
  <2>2. CASE n = m
    BY <1>7, <2>2
  <2> QED
    BY <1>5, <2>1, <2>2
<1>9. ClientStands'
  BY <1>1, <1>2, <1>3, <1>6 DEF IInv, ClientStands, HeldIn, RunsIn, Alone
<1> QED
  BY <1>6, <1>8, <1>9 DEF IInv

\* A renewal takes an identity no reply under way can carry.
LEMMA RenewKeeps == ASSUME IInv, Alone, Renew PROVE IInv'
<1>1. /\ client \in ClientState /\ client.control \in Nat /\ requests \subseteq RequestState
      /\ clock \in Nat /\ clock + Retry \in Nat /\ TypeOK
      /\ client.control < MaxControl /\ MaxControl \in Nat
      /\ client.rejected \in BOOLEAN /\ (client.rejected => OverIn(service))
  BY Numbers, Readings DEF IInv, TypeOK, ClientStands, ClientState
<1>2. client.phase = "load" /\ UNCHANGED replies
  BY DEF Renew, Loading
<1>3. CASE client.control >= MaxControl - 1
  <2>1. client' = [client EXCEPT !.pending = FALSE, !.phase = "stop",
                                 !.first = clock, !.resend = clock]
        /\ UNCHANGED requests
    BY <1>2, <1>3 DEF Renew, Leave, Enter
  <2>2. client' = [client EXCEPT !.rejected = client.rejected, !.pending = FALSE, !.phase = "stop",
                                 !.first = clock, !.resend = clock]
    BY <1>1, <2>1 DEF ClientState
  <2> QED
    BY <1>1, <1>2, <2>1, <2>2, LeaveKeeps
<1>4. CASE ~(client.control >= MaxControl - 1)
  <2> DEFINE id == client.control + 1
             m == Message("renew", id)
  <2>1. /\ client' = [client EXCEPT !.control = client.control + 1, !.pending = TRUE,
                                    !.first = clock, !.resend = clock + Retry]
        /\ requests' = requests \cup {m}
    BY <1>1, <1>4 DEF Renew, Send
  <2>2. id \in 1..MaxControl /\ id < MaxControl /\ client.control >= 1
    BY <1>1, <1>4 DEF ClientState
  <2>3. /\ client' \in ClientState /\ client'.phase = "load"
        /\ client'.rejected = client.rejected /\ client'.cleanup = client.cleanup
        /\ client'.expiry = client.expiry
        /\ client'.first = clock /\ client'.boot = client.boot
        /\ client'.epoch = client.epoch /\ client'.control = id
    BY <1>1, <1>2, <2>1, <2>2 DEF ClientState, Times
  <2>4. "renew" \in Controls \cup {"capabilities"}
    BY DEF Controls
  <2>5. /\ m \in RequestState /\ m.kind = "renew" /\ m.id = id
        /\ m.boot = client.boot /\ m.epoch = client.epoch /\ m.config = None
    BY <1>1, <2>2, <2>4, RequestTyped
  <2> HIDE DEF m
  <2>6. Begun /\ Begun' /\ ~Stopping
    BY <1>2, <2>3 DEF Begun, Stopping
  <2>7. \A n \in Nat : Awaits(n)' => n > client.control
    BY <1>1, <2>3 DEF Awaits
  <2>8. requests' \subseteq RequestState
    BY <1>1, <2>1, <2>5
  <2>9. /\ TypeOK' /\ ServiceStands' /\ RepliesStand' /\ OverIn(service)' = OverIn(service)
        /\ RunsIn(service)' = RunsIn(service)
        /\ \A n \in requests : n.kind # "capabilities" =>
             /\ Begun' /\ n.boot = client'.boot /\ n.epoch = client'.epoch
             /\ \/ OwnControl(n.kind, n.id, n.config)'
                \/ n.kind = "stop" /\ n.id = client'.control + 1 /\ n.config = None /\ Stopping'
    BY <1>1, <1>2, <2>2, <2>3, <2>6, <2>7, <2>8, SessionKeeps
  <2>10. RequestsStand'
    BY <1>1, <2>1, <2>2, <2>3, <2>5, <2>6, <2>9 DEF RequestsStand, OwnControl
  <2>11. ClientStands'
    BY <1>1, <1>2, <2>2, <2>3, <2>6, <2>9 DEF IInv, ClientStands, HeldIn, RunsIn, Alone
  <2> QED
    BY <2>9, <2>10, <2>11 DEF IInv
<1> QED
  BY <1>3, <1>4

\* An accepted configuration or renewal gives the session the lease its reply grants.
LEMMA ConfirmKeeps ==
  ASSUME IInv, Alone, UNCHANGED <<requests, replies>>, NEW r \in replies,
         r.body.kind = "result", r.body.code \in Accepting, Awaits(r.body.id),
         NEW finish \in Nat, NEW renew \in Nat,
         client' = [client EXCEPT !.pending = FALSE, !.phase = "load", !.finish = finish,
                      !.expiry = client.first + r.body.remaining * UsPerMs, !.renew = renew]
  PROVE  IInv'
<1> DEFINE expiry == client.first + r.body.remaining * UsPerMs
<1>1. /\ client \in ClientState /\ client.control \in Nat /\ requests \subseteq RequestState
      /\ client.first \in Nat /\ TypeOK
      /\ client.phase \in {"configure", "load"}
  BY Readings DEF IInv, TypeOK, Awaits
<1>2. expiry \in Nat
  <2>1. r.body.remaining * UsPerMs \in Nat
    BY <1>1, ReplyRead, Numbers
  <2> QED
    BY <1>1, <2>1
<1>3. HeldIn(expiry, service) /\ (RunsIn(service) \/ OverIn(service))
  BY DEF IInv, RepliesStand, Truthful
<1>4. client' = [client EXCEPT !.pending = FALSE, !.phase = "load", !.finish = finish,
                               !.expiry = expiry, !.renew = renew]
  OBVIOUS
<1> HIDE DEF expiry
<1>5. /\ client' \in ClientState /\ client'.phase = "load"
      /\ client'.rejected = client.rejected /\ client'.cleanup = client.cleanup
      /\ ~client'.pending /\ client'.expiry = expiry
      /\ client'.first = client.first /\ client'.boot = client.boot
      /\ client'.epoch = client.epoch /\ client'.control = client.control
  BY <1>1, <1>2, <1>4, ZenonT(30) DEF ClientState, Times, Phases
<1>6. Begun /\ Begun' /\ ~Stopping /\ (\A n \in Nat : ~Awaits(n)')
  BY <1>1, <1>5 DEF Begun, Stopping, Awaits
<1>7. /\ TypeOK' /\ ServiceStands' /\ RepliesStand' /\ OverIn(service)' = OverIn(service)
      /\ RunsIn(service)' = RunsIn(service)
      /\ \A m \in requests : m.kind # "capabilities" =>
           /\ Begun' /\ m.boot = client'.boot /\ m.epoch = client'.epoch
           /\ \/ OwnControl(m.kind, m.id, m.config)'
              \/ m.kind = "stop" /\ m.id = client'.control + 1 /\ m.config = None /\ Stopping'
  BY <1>1, <1>5, <1>6, SessionKeeps
<1>8. RequestsStand'
  BY <1>7 DEF RequestsStand
<1>9. HeldIn(client.expiry, service)'
  BY <1>3, <1>5, <1>7 DEF HeldIn, Alone
<1>10. ClientStands'
  BY <1>1, <1>3, <1>5, <1>6, <1>7, <1>9 DEF IInv, ClientStands, Alone
<1> QED
  BY <1>7, <1>8, <1>10 DEF IInv

\* A reply taken for the answer to an exchange or a renewal is the one awaited.
LEMMA AnswerRead ==
  ASSUME IInv, NEW r \in replies, Answers(r), client.phase \in {"configure", "load", "stop"},
         client.phase = "load" => client.pending
  PROVE  /\ r.body.kind = "result"
         /\ client.phase # "stop" => Awaits(r.body.id)
         /\ client.phase # "stop" /\ r.body.code \notin Accepting => OverIn(service)
         /\ r.body.code \in {"STALE_RUN", "STOPPED"} => OverIn(service)
<1>1. r.body.kind = "result" /\ r.body.id = Identity
  BY DEF Answers
<1>2. client.phase # "stop" => Awaits(r.body.id)
  BY <1>1 DEF Identity, Awaits
<1> QED
  BY <1>1, <1>2 DEF IInv, RepliesStand, Truthful

LEMMA RejectedKeeps ==
  ASSUME IInv, Alone, UNCHANGED <<requests, replies>>, client.phase \in {"configure", "load"},
         OverIn(service), client' = Leave([client EXCEPT !.rejected = TRUE])
  PROVE  IInv'
<1>1. client \in ClientState
  BY DEF IInv, TypeOK
<1>2. client' = [client EXCEPT !.rejected = TRUE, !.pending = FALSE, !.phase = "stop",
                               !.first = clock, !.resend = clock]
  BY <1>1 DEF Leave, Enter, ClientState
<1>3. TRUE \in BOOLEAN
  OBVIOUS
<1> QED
  BY <1>2, <1>3, LeaveKeeps

LEMMA LeavesKeep ==
  ASSUME IInv, Alone, UNCHANGED <<requests, replies>>, client.phase \in {"configure", "load"},
         client' = Leave(client)
  PROVE  IInv'
<1>1. /\ client \in ClientState /\ client.rejected \in BOOLEAN
      /\ (client.rejected => OverIn(service))
  BY DEF IInv, TypeOK, ClientState, ClientStands
<1>2. client' = [client EXCEPT !.rejected = client.rejected, !.pending = FALSE, !.phase = "stop",
                               !.first = clock, !.resend = clock]
  BY <1>1 DEF Leave, Enter, ClientState
<1> QED
  BY <1>1, <1>2, LeaveKeeps

LEMMA AbandonedKeeps ==
  ASSUME IInv, Alone, UNCHANGED <<requests, replies>>,
         client.phase \in {"configure", "load", "stop"}, client' = Abandoned
  PROVE  IInv'
<1>1. CASE client.phase = "stop"
  <2>1. client' = [client EXCEPT !.phase = "done", !.cleanup = "lease_fallback"]
    BY <1>1 DEF Abandoned
  <2>2. "lease_fallback" \in Cleanups \ {"not_acquired"}
    BY DEF Cleanups
  <2> QED
    BY <1>1, <2>1, <2>2, DoneKeeps
<1>2. CASE client.phase # "stop"
  BY <1>2, LeavesKeep DEF Abandoned
<1> QED
  BY <1>1, <1>2

LEMMA SendCopyKeeps ==
  ASSUME IInv, Alone, client.phase # "capabilities", SendCopy
  PROVE  IInv'
<1>1. /\ client.phase \in {"configure", "stop"} /\ UNCHANGED replies
      /\ requests' = requests \cup {Message(client.phase, Identity)}
      /\ client' = [client EXCEPT !.resend = clock + Retry]
  BY DEF SendCopy, Send, Exchanges
<1>2. client.control \in 1..MaxControl /\ client.control < MaxControl
      /\ (client.phase = "configure" => client.control = 1)
  BY DEF IInv, TypeOK, ClientState, ClientStands
<1>3. Identity = IF client.phase = "stop" THEN client.control + 1 ELSE client.control
  BY <1>1 DEF Identity
<1>4. Identity \in 1..MaxControl
  BY <1>2, <1>3, Numbers
<1>5. client.phase \in Controls
  BY <1>1 DEF Controls
<1>6. \/ OwnControl(client.phase, Identity,
                    IF client.phase = "configure" THEN Requested ELSE None)
      \/ client.phase = "stop" /\ Identity = client.control + 1 /\ client.phase = "stop"
  BY <1>1, <1>2, <1>3 DEF OwnControl
<1> QED
  BY <1>1, <1>4, <1>5, <1>6, CopyKeeps

LEMMA SendRenewalKeeps == ASSUME IInv, Alone, SendRenewal PROVE IInv'
<1>1. /\ client.phase = "load" /\ UNCHANGED replies
      /\ requests' = requests \cup {Message("renew", client.control)}
      /\ client' = [client EXCEPT !.resend = clock + Retry]
  BY DEF SendRenewal, Send, Loading
<1>2. client.control \in 1..MaxControl
  BY DEF IInv, TypeOK, ClientState
<1>3. "renew" \in Controls
  BY DEF Controls
<1>4. client.control >= 2
  BY <1>1 DEF IInv, ClientStands, SendRenewal
<1> QED
  BY <1>1, <1>2, <1>3, <1>4, CopyKeeps DEF OwnControl

\* When the next renewal is due.
LEMMA ConfirmTyped ==
  ASSUME TypeOK, NEW r \in replies, r.body.kind = "result"
  PROVE  clock + (SatSub(client.first + r.body.remaining * UsPerMs, clock) \div 3) \in Nat
<1> DEFINE expiry == client.first + r.body.remaining * UsPerMs
           left == SatSub(expiry, clock)
<1>1. r.body.remaining * UsPerMs \in Nat /\ client.first \in Nat /\ clock \in Nat
  BY ReplyRead, Readings, Numbers
<1>2. expiry \in Nat
  BY <1>1
<1> HIDE DEF expiry
<1>3. left \in Nat
  BY <1>1, <1>2 DEF SatSub
<1> HIDE DEF left
<1>4. left \div 3 \in Nat
  BY <1>3
<1> QED
  BY <1>1, <1>4 DEF left, expiry

LEMMA ClientKeeps == ASSUME IInv, Client PROVE IInv'
<1>1. Alone /\ clock \in Nat /\ TypeOK
  BY Readings DEF Client, Alone, IInv
<1>2. CASE SendCopy
  BY <1>1, <1>2, CapabilitiesKeeps, SendCopyKeeps
<1>3. CASE TimeOut \/ Interrupt
  <2>1. client' = Abandoned /\ UNCHANGED <<requests, replies>> /\ client.phase # "done"
    BY <1>3 DEF TimeOut, Interrupt, Exchanges
  <2>2. client.phase \in {"capabilities", "configure", "load", "stop"}
    BY <1>1, <2>1 DEF TypeOK, ClientState, Phases, Exchanges
  <2> QED
    BY <1>1, <1>3, <2>1, <2>2, CapabilitiesKeeps, AbandonedKeeps
<1>4. CASE Renew
  BY <1>1, <1>4, RenewKeeps
<1>5. CASE SendRenewal
  BY <1>1, <1>5, SendRenewalKeeps
<1>6. CASE EndLoad
  BY <1>1, <1>6, LeavesKeep DEF EndLoad
<1>7. ASSUME NEW r \in replies, Accept(r) PROVE IInv'
  <2>1. CASE AcceptCapabilities(r)
    BY <1>1, <2>1, CapabilitiesKeeps DEF AcceptCapabilities
  <2>2. CASE AcceptConfigured(r)
    <3>1. client.phase = "configure" /\ Answers(r) /\ UNCHANGED <<requests, replies>>
      BY <2>2 DEF AcceptConfigured
    <3>2. CASE r.body.code \in Accepting
      <4> DEFINE expiry == client.first + r.body.remaining * UsPerMs
                 renew == clock + (SatSub(expiry, clock) \div 3)
                 finish == clock + RunTime
      <4>1. client' = [client EXCEPT !.pending = FALSE, !.phase = "load", !.finish = finish,
                                     !.expiry = expiry, !.renew = renew]
        BY <1>1, <2>2, <3>1, <3>2 DEF AcceptConfigured, Confirmed, TypeOK, ClientState
      <4>2. r.body.kind = "result" /\ Awaits(r.body.id)
        BY <3>1, AnswerRead
      <4>3. finish \in Nat /\ renew \in Nat
        BY <1>1, <4>2, ConfirmTyped, Numbers DEF TypeOK, ClientState, Times
      <4> HIDE DEF finish, renew
      <4> QED
        BY <1>1, <3>1, <3>2, <4>1, <4>2, <4>3, ConfirmKeeps
    <3>3. CASE r.body.code \notin Accepting
      BY <1>1, <2>2, <3>1, <3>3, AnswerRead, RejectedKeeps DEF AcceptConfigured
    <3> QED
      BY <3>2, <3>3
  <2>3. CASE AcceptRenewal(r)
    <3>1. /\ client.phase = "load" /\ client.pending /\ Answers(r)
          /\ UNCHANGED <<requests, replies>>
      BY <2>3 DEF AcceptRenewal
    <3>2. CASE r.body.code \in Accepting
      <4> DEFINE expiry == client.first + r.body.remaining * UsPerMs
                 renew == clock + (SatSub(expiry, clock) \div 3)
                 finish == client.finish
      <4>1. client' = [client EXCEPT !.pending = FALSE, !.phase = "load", !.finish = finish,
                                     !.expiry = expiry, !.renew = renew]
        BY <1>1, <2>3, <3>1, <3>2 DEF AcceptRenewal, Confirmed, TypeOK, ClientState
      <4>2. r.body.kind = "result" /\ Awaits(r.body.id)
        BY <3>1, AnswerRead
      <4>3. finish \in Nat /\ renew \in Nat
        BY <1>1, <4>2, ConfirmTyped, Numbers DEF TypeOK, ClientState, Times
      <4> HIDE DEF finish, renew
      <4> QED
        BY <1>1, <3>1, <3>2, <4>1, <4>2, <4>3, ConfirmKeeps
    <3>3. CASE r.body.code \notin Accepting
      BY <1>1, <2>3, <3>1, <3>3, AnswerRead, RejectedKeeps DEF AcceptRenewal
    <3> QED
      BY <3>2, <3>3
  <2>4. CASE AcceptStopped(r)
    <3>1. /\ client.phase = "stop" /\ Answers(r) /\ UNCHANGED <<requests, replies>>
          /\ client' = [client EXCEPT !.phase = "done", !.cleanup = Outcome(r.body.code)]
      BY <2>4 DEF AcceptStopped
    <3>2. /\ Outcome(r.body.code) \in Cleanups \ {"not_acquired"}
          /\ Outcome(r.body.code) # "lease_fallback" => r.body.code \in {"STALE_RUN", "STOPPED"}
      BY DEF Outcome, Cleanups
    <3>3. Outcome(r.body.code) # "lease_fallback" => OverIn(service)
      BY <3>1, <3>2, AnswerRead
    <3> QED
      BY <1>1, <3>1, <3>2, <3>3, DoneKeeps
  <2> QED
    BY <1>7, <2>1, <2>2, <2>3, <2>4 DEF Accept
<1> QED
  BY <1>2, <1>3, <1>4, <1>5, <1>6, <1>7 DEF Client

LEMMA Initially == Init => IInv
<1> SUFFICES ASSUME Init PROVE IInv
  OBVIOUS
<1> USE DEF Init
<1>1. Sound(service) /\ service.last_time = clock /\ service.lease = None /\ service.epoch = 1
  <2>1. 0 \in Times
    BY DEF Times
  <2> QED
    BY <2>1, NewServiceSound DEF NewService
<1>2. client \in ClientState
  BY Numbers DEF ClientState, Phases, Exchanges, Cleanups, Boots, Epochs, Times
<1>3. TypeOK
  <2>1. clock \in Times /\ boot \in Boots
    BY Numbers DEF Times, Boots
  <2>2. service \in ServiceState
    BY <1>1 DEF Sound
  <2> QED
    BY <1>2, <2>1, <2>2 DEF TypeOK
<1>4. ServiceStands
  BY <1>1 DEF ServiceStands, OursIn, RunsIn, Active, Past
<1>5. ClientStands
  BY Numbers DEF ClientStands
<1> QED
  BY <1>3, <1>4, <1>5 DEF IInv, RequestsStand, RepliesStand

LEMMA Inductive == IInv /\ [Next]_vars => IInv'
<1> SUFFICES ASSUME IInv, [Next]_vars PROVE IInv'
  OBVIOUS
<1>1. CASE UNCHANGED vars
  BY <1>1 DEF vars, IInv, TypeOK, ServiceStands, ClientStands, RequestsStand, RepliesStand,
     Truthful, OverIn, RunsIn, HeldIn, OursIn, Past, Awaits, Begun, Stopping, OwnControl
<1>2. ASSUME NEW sender \in Clients \ {Session}, NEW kind \in {"configure", "renew", "stop"},
             NEW id \in ForeignIds, ForeignRequest(sender, kind, id)
      PROVE  IInv'
  BY <1>2, ForeignKeeps DEF Controls
<1> QED
  BY <1>1, <1>2, ClientKeeps, DeliverKeeps, TickKeeps, EndLocallyKeeps, RebootKeeps, ElapseKeeps
     DEF Next

LEMMA Invariance == Spec => []IInv
BY Initially, Inductive, PTL DEF Spec

-----------------------------------------------------------------------------
(* What the session can rely on.                                             *)

\* Every variable keeps its type, and control identities stay 32-bit numbers: a session
\* that renews to the limit has one left for its stop.
THEOREM TypeCorrect == Spec => []TypeOK
<1>1. IInv => TypeOK
  BY DEF IInv
<1> QED
  BY <1>1, Invariance, PTL

\* While the client believes in its lease, the board grants it at least as long, unless
\* the board itself lost the run: the client counts from before the first copy of its
\* request, and the board rounds down what is left.
THEOREM LeaseHeld == Spec => []HostLeaseHeld
<1>1. IInv => HostLeaseHeld
  <2> SUFFICES ASSUME IInv, client.phase = "load", clock < client.expiry, ~disturbed
               PROVE  /\ SessionRuns /\ service.epoch = client.epoch
                      /\ client.expiry <= service.lease.expiry
    BY DEF HostLeaseHeld
  <2>1. HeldIn(client.expiry, service) /\ clock \in Nat /\ client.expiry \in Nat
    BY Readings DEF IInv, ClientStands
  <2> QED
    BY <2>1 DEF HeldIn, RunsIn, SessionRuns, IInv, ServiceStands, OursIn
<1> QED
  BY <1>1, Invariance, PTL

\* A run that is over for the session is not running.
LEMMA OverMeans ==
  ASSUME IInv, OverIn(service)
  PROVE  ~SessionRuns
<1>1. service.epoch \in Int /\ client.epoch \in Int /\ boot \in Int
      /\ (Active(service) => ~service.exhausted)
  BY RunRead, Readings DEF IInv, ServiceStands
<1> QED
  BY <1>1 DEF IInv, ServiceStands, OursIn, OverIn, RunsIn, SessionRuns

\* A configuration or renewal counts as rejected only if the session has no run: no late
\* reply to an earlier control passes for a refusal of the present one.
THEOREM RejectionsTruthful == Spec => []RejectionTruthful
<1>1. IInv => RejectionTruthful
  BY OverMeans DEF IInv, ClientStands, RejectionTruthful
<1> QED
  BY <1>1, Invariance, PTL

\* A cleanup reported as acknowledged or obsolete means the run is over for good, whatever
\* is still under way; a session that acquired nothing holds nothing.
THEOREM CleanupsTruthful == Spec => []CleanupTruthful
<1>1. IInv => CleanupTruthful
  <2> SUFFICES ASSUME IInv, client.phase = "done", client.cleanup # "lease_fallback"
               PROVE  ~SessionRuns
    BY DEF CleanupTruthful
  <2>1. client.cleanup \in Cleanups
    BY DEF IInv, TypeOK, ClientState
  <2>2. CASE client.cleanup = "not_acquired"
    BY <2>2 DEF IInv, ServiceStands, OursIn, RunsIn, SessionRuns, Begun
  <2>3. CASE client.cleanup \in {"stop_acknowledged", "run_obsolete"}
    BY <2>3, OverMeans DEF IInv, ClientStands
  <2> QED
    BY <2>1, <2>2, <2>3 DEF Cleanups
<1> QED
  BY <1>1, Invariance, PTL
=============================================================================
