--------------------------- MODULE BenchmarkReplies ---------------------------
(***************************************************************************)
(* The reply budget of the benchmark service.  Capabilities and control    *)
(* replies share a bucket of Burst tokens that gains one per TokenPeriod;  *)
(* the bucket limits what the board sends and never what it does.  A clock *)
(* that goes back restarts the time the bucket has been paid for.          *)
(***************************************************************************)
EXTENDS BenchmarkService

VARIABLES
  boot,      \* history: when the service was created, or the clock last went back
  replies    \* history: bucketed replies sent since

replyVars == <<service, started, boot, replies>>

RepliesInit == Init /\ boot = service.last_time /\ replies = 0

\* Replies are counted from boot, and afresh when the clock a call reads went back.
Reckon(now, sent) ==
  IF now < service.last_time THEN boot' = now /\ replies' = sent
  ELSE UNCHANGED boot /\ replies' = replies + sent

\* A control or capabilities request either takes a token or is suppressed.
Answer(m, now) ==
  /\ HandleRequest(m, now)
  /\ Reckon(now, IF Handle(service, m, now).reply # None /\ m.kind # "probe" THEN 1 ELSE 0)

RepliesNext ==
  \/ \E now \in ClockTimes, m \in AllRequests : Answer(m, now)
  \/ \E now \in ClockTimes : TickAt(now) /\ Reckon(now, 0)
  \/ \E i \in Streams, now \in ClockTimes : PublishStream(i, now) /\ Reckon(now, 0)
  \/ EndLocally /\ UNCHANGED <<boot, replies>>
  \/ \E crc \in BOOLEAN : RejectDatagram(crc) /\ UNCHANGED <<boot, replies>>

RepliesSpec == RepliesInit /\ [][RepliesNext]_replyVars

-----------------------------------------------------------------------------
\* The board never answers faster than its budget: Burst replies at once and one
\* more for every whole TokenPeriod since boot (or since its clock went back), however
\* the calls to tick() divide the time and whatever fraction of a token each of them finds.
RepliesWithinBudget ==
  replies * TokenPeriod <= Burst * TokenPeriod + (service.last_time - boot)

\* The budget in the terms of the bucket: what is left in it was not yet sent.
BudgetLeft ==
  /\ service.token_time >= boot
  /\ service.token_time <= service.last_time
  /\ (replies + service.tokens) * TokenPeriod
       <= Burst * TokenPeriod + (service.token_time - boot)

WithoutReplies(s) == [s EXCEPT !.tokens = 0, !.token_time = 0, !.suppressed_replies = 0]

\* A control is carried out whether or not a token is left for its reply
\* (BENCHMARK_CONTRACT: stop and renew execute if their reply is suppressed).
EffectDespiteSuppression ==
  service.tokens = 0 => \A m \in AllRequests, now \in ClockTimes :
    LET h == Handle(service, m, now)
        full == Handle([service EXCEPT !.tokens = Burst], m, now) IN
    WithoutReplies(h.service) = WithoutReplies(full.service)
=============================================================================
