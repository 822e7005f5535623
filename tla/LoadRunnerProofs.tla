---------------------------- MODULE LoadRunnerProofs ----------------------------
(***************************************************************************)
(* What LoadRunner guarantees for any number of packets, any window and    *)
(* schedule, and every interleaving of the two threads.                    *)
(***************************************************************************)
EXTENDS LoadRunner, FiniteSetTheorems, TLAPS

\* Where the sender stands: no packet before its turn, none looked at beyond it; the
\* place in the window it saw free stays free until it is taken.
SenderStands ==
  /\ sender.cursor <= sender.sequence /\ sender.at <= now
  /\ sender.pc \notin {"pace", "done"} => sender.sequence < Count
  /\ sender.pc \in {"expire", "release"} => sender.cursor < sender.sequence
  /\ sender.pc = "publish" => outstanding < Window
  /\ sender.pc = "send" => state[sender.sequence] = "outstanding"
  /\ sender.pc = "expire" => sender.at - sent_times[sender.cursor] >= Timeout
  /\ sender.pc = "release" => state[sender.cursor] # "outstanding"

\* The packets before the sender's have left or failed, the others have not been touched.
PacketsStand ==
  \A p \in Packets :
    /\ sent_times[p] <= now
    /\ p >= sender.sequence /\ ~(p = sender.sequence /\ sender.pc = "send")
         => state[p] = "unsent"
    /\ left[p] >= 0 <=> p < sender.sequence /\ state[p] # "error"
    /\ p < sender.sequence => state[p] # "unsent"

\* Only packets that left are answered.
RepliesStand ==
  /\ \A r \in wire : r[1] \in Packets /\ left[r[1]] >= 0
  /\ receiver.pc = "classify" => receiver.packet \in Packets /\ left[receiver.packet] >= 0

\* Every reply of the wire is counted once, as one of at most two per packet.
CountsStand ==
  /\ counters.sent = Cardinality({p \in Packets : left[p] >= 0})
  /\ counters.valid = Cardinality(Goodput)
  /\ counters.late <= counters.valid
  /\ counters.valid + counters.duplicates + counters.corrupt + Cardinality(wire)
       + (IF receiver.pc = "classify" THEN 1 ELSE 0) <= 2 * counters.sent

IInv ==
  /\ TypeOK /\ SenderStands /\ PacketsStand /\ RepliesStand /\ CountsStand
  /\ WindowExact /\ ExpiryExact

-----------------------------------------------------------------------------
(* Counting packets.                                                         *)

LEMMA Numbers ==
  /\ Count \in Nat /\ Gap \in Nat /\ Measurement \in Nat /\ Drain \in Nat /\ MaxTime \in Nat
  /\ Window \in Nat /\ Window >= 1 /\ Timeout \in Nat
  /\ \A p \in Int : p \in Packets <=> p >= 0 /\ p < Count
  /\ Packets \subseteq Int
BY LoadAssumption DEF Packets

LEMMA PacketsFinite ==
  /\ IsFiniteSet(Packets)
  /\ \A S \in SUBSET Packets : IsFiniteSet(S) /\ Cardinality(S) \in Nat
<1>1. IsFiniteSet(Packets)
  BY LoadAssumption, FS_Interval DEF Packets
<1>2. ASSUME NEW S \in SUBSET Packets PROVE IsFiniteSet(S) /\ Cardinality(S) \in Nat
  BY <1>1, FS_Subset, FS_CardinalityType
<1> QED BY <1>1, <1>2

InState(s, which) == {p \in Packets : s[p] = which}

\* One packet changes its state: the state it leaves loses one, the one it enters wins one.
LEMMA Recount ==
  ASSUME NEW s \in [Packets -> States], NEW q \in Packets, NEW to \in States \ {s[q]},
         NEW which \in States
  PROVE  LET after == InState([s EXCEPT ![q] = to], which)
             before == Cardinality(InState(s, which))
         IN  /\ which = s[q] => Cardinality(after) = before - 1
             /\ which = to => Cardinality(after) = before + 1
             /\ which \notin {s[q], to} => Cardinality(after) = before
<1> DEFINE before == InState(s, which)
           after == InState([s EXCEPT ![q] = to], which)
<1>1. before \in SUBSET Packets /\ after \in SUBSET Packets
  BY DEF InState
<1>2. which = s[q] => after = before \ {q} /\ q \in before
  BY DEF InState
<1>3. which = to => after = before \cup {q} /\ q \notin before
  BY DEF InState
<1>4. which \notin {s[q], to} => after = before
  BY DEF InState
<1>5. IsFiniteSet(before)
  BY <1>1, PacketsFinite
<1>6. /\ Cardinality(before \ {q})
           = IF q \in before THEN Cardinality(before) - 1 ELSE Cardinality(before)
      /\ Cardinality(before \cup {q})
           = IF q \in before THEN Cardinality(before) ELSE Cardinality(before) + 1
  BY <1>5, FS_AddElement, FS_RemoveElement
<1> QED BY <1>2, <1>3, <1>4, <1>6

\* A packet that leaves is one more that left.
LEMMA OneMoreLeft ==
  ASSUME NEW l \in [Packets -> -1..MaxTime], NEW q \in Packets, ~(l[q] >= 0), NEW t \in 0..MaxTime
  PROVE  Cardinality({p \in Packets : [l EXCEPT ![q] = t][p] >= 0})
           = Cardinality({p \in Packets : l[p] >= 0}) + 1
<1> DEFINE before == {p \in Packets : l[p] >= 0}
           after == {p \in Packets : [l EXCEPT ![q] = t][p] >= 0}
<1>1. after = before \cup {q} /\ q \notin before
  OBVIOUS
<1>2. IsFiniteSet(before)
  BY PacketsFinite
<1> QED BY <1>1, <1>2, FS_AddElement

LEMMA AddedAtMostOne ==
  ASSUME NEW S, IsFiniteSet(S), NEW x
  PROVE  /\ IsFiniteSet(S \cup {x})
         /\ Cardinality(S \cup {x}) \in Nat
         /\ Cardinality(S \cup {x}) <= Cardinality(S) + 1
<1>1. Cardinality(S) \in Nat
  BY FS_CardinalityType
<1>2. /\ IsFiniteSet(S \cup {x})
      /\ Cardinality(S \cup {x}) = IF x \in S THEN Cardinality(S) ELSE Cardinality(S) + 1
  BY FS_AddElement
<1> QED BY <1>1, <1>2

Copied(q) == {<<q, c>> : c \in Copies(q)}

\* The replies of the wire are finitely many; taking one off leaves one less, and a packet
\* adds at most two.
LEMMA WireCounted ==
  ASSUME NEW w \in SUBSET (Packets \X {1, 2})
  PROVE  /\ Cardinality(w) \in Nat
         /\ \A r \in w : Cardinality(w \ {r}) = Cardinality(w) - 1
         /\ \A q \in Packets : /\ Cardinality(w \cup Copied(q)) \in Nat
                               /\ Cardinality(w \cup Copied(q)) <= Cardinality(w) + 2
<1>1. IsFiniteSet(Packets \X {1, 2})
  <2>1. IsFiniteSet({1} \cup {2}) /\ {1} \cup {2} = {1, 2}
    BY FS_Singleton, FS_AddElement
  <2> QED BY <2>1, PacketsFinite, FS_Product
<1>2. IsFiniteSet(w) /\ Cardinality(w) \in Nat
  BY <1>1, FS_Subset, FS_CardinalityType
<1>3. ASSUME NEW r \in w PROVE Cardinality(w \ {r}) = Cardinality(w) - 1
  BY <1>2, FS_RemoveElement
<1>4. ASSUME NEW q \in Packets
      PROVE  /\ Cardinality(w \cup Copied(q)) \in Nat
             /\ Cardinality(w \cup Copied(q)) <= Cardinality(w) + 2
  <2> DEFINE one == w \cup {<<q, 1>>}
             two == one \cup {<<q, 2>>}
  <2>1. w \cup Copied(q) = one \/ w \cup Copied(q) = two
    BY DEF Copies, Copied
  <2>2. IsFiniteSet(one) /\ Cardinality(one) \in Nat /\ Cardinality(one) <= Cardinality(w) + 1
    BY <1>2, AddedAtMostOne
  <2> HIDE DEF one
  <2>3. Cardinality(two) \in Nat /\ Cardinality(two) <= Cardinality(one) + 1
    BY <2>2, AddedAtMostOne
  <2> HIDE DEF two
  <2>4. Cardinality(one) <= Cardinality(w) + 2 /\ Cardinality(two) <= Cardinality(w) + 2
    BY <1>2, <2>2, <2>3
  <2> QED BY <2>1, <2>2, <2>3, <2>4
<1> QED BY <1>2, <1>3, <1>4
-----------------------------------------------------------------------------
(* The sender.                                                               *)

\* The window count, in terms of InState.
Places(s) == Cardinality(InState(s, "outstanding"))
Freeing(thread) == IF thread.pc = "release" THEN 1 ELSE 0

WindowSum ==
  /\ outstanding <= Window
  /\ outstanding = Places(state) + Freeing(sender) + Freeing(receiver)

LEMMA WindowSummed == (WindowExact <=> WindowSum) /\ (WindowExact' <=> WindowSum')
BY DEF WindowExact, WindowSum, Places, Freeing, InState

LEMMA SumTyped ==
  ASSUME NEW s, NEW thread
  PROVE  Places(s) \in Nat /\ Freeing(thread) \in 0..1
BY PacketsFinite DEF Places, Freeing, InState

\* A packet that is no longer outstanding, and one that is now.
LEMMA PlaceLeft ==
  ASSUME NEW q \in Packets, NEW to \in States \ {"outstanding"}, state \in [Packets -> States],
         state[q] = "outstanding"
  PROVE  Places([state EXCEPT ![q] = to]) = Places(state) - 1
<1>1. "outstanding" \in States /\ to \in States \ {state[q]}
  BY DEF States
<1> QED BY <1>1, Recount, ZenonT(30) DEF Places

LEMMA PlaceTaken ==
  ASSUME NEW q \in Packets, state \in [Packets -> States], state[q] = "unsent"
  PROVE  Places([state EXCEPT ![q] = "outstanding"]) = Places(state) + 1
<1>1. "outstanding" \in States \ {state[q]}
  BY DEF States
<1> QED BY <1>1, Recount DEF Places

LEMMA CursorMoves ==
  ASSUME sender \in SenderState, sender.cursor < sender.sequence
  PROVE  [sender EXCEPT !.pc = "scan", !.cursor = @ + 1] \in SenderState
<1>1. sender.cursor + 1 \in 0..Count
  BY Numbers DEF SenderState
<1> QED BY <1>1 DEF SenderState

LEMMA Initially == Init => IInv
<1> SUFFICES ASSUME Init PROVE IInv
  OBVIOUS
<1> USE DEF Init
<1>1. {p \in Packets : state[p] = "outstanding"} = {} /\ Goodput = {}
      /\ {p \in Packets : left[p] >= 0} = {}
  BY DEF Goodput
<1>2. TypeOK
  BY Numbers DEF TypeOK, SenderState, ReceiverState, Tally, States
<1>3. SenderStands
  BY Numbers DEF SenderStands
<1>4. PacketsStand /\ RepliesStand
  <2>1. \A p \in Packets : left[p] = -1 /\ state[p] = "unsent" /\ sent_times[p] = 0 /\ p >= 0
    BY Numbers
  <2>2. PacketsStand
    BY <2>1, Numbers DEF PacketsStand
  <2> QED BY <2>2 DEF RepliesStand
<1>5. CountsStand
  BY <1>1, FS_EmptySet DEF CountsStand
<1>6. WindowExact
  <2>1. outstanding = 0 /\ sender.pc # "release" /\ receiver.pc # "release"
    OBVIOUS
  <2>2. Places(state) = 0 /\ Freeing(sender) = 0 /\ Freeing(receiver) = 0
    BY <1>1, <2>1, FS_EmptySet DEF Places, Freeing, InState
  <2> QED BY <2>1, <2>2, Numbers, WindowSummed DEF WindowSum
<1>7. ExpiryExact
  BY DEF ExpiryExact
<1> QED BY <1>2, <1>3, <1>4, <1>5, <1>6, <1>7 DEF IInv

\* Steps that only move one of the threads.
LEMMA PaceKeeps == ASSUME IInv, Pace PROVE IInv'
BY Numbers DEF IInv, Pace, Sender, shared, TypeOK, SenderState, SenderStands, PacketsStand,
   RepliesStand, CountsStand, Goodput, WindowExact, ExpiryExact

LEMMA AdmitKeeps == ASSUME IInv, Admit PROVE IInv'
<1> USE DEF IInv, Admit, HasRoom, shared, TypeOK, SenderState, SenderStands, PacketsStand,
            RepliesStand, CountsStand, Goodput, WindowExact, ExpiryExact
<1>1. CASE sender' = [sender EXCEPT !.pc = "publish"] /\ outstanding < Window
  BY <1>1, Numbers
<1>2. CASE sender' = [sender EXCEPT !.pc = "scan", !.at = now]
  <2>1. /\ sender'.pc = "scan" /\ sender'.at = now /\ sender.pc = "window"
        /\ sender'.cursor = sender.cursor /\ sender'.sequence = sender.sequence
    BY <1>2
  <2>2. TypeOK'
    BY <1>2
  <2> QED BY <2>1, <2>2, Numbers
<1> QED BY <1>1, <1>2

LEMMA ScanKeeps == ASSUME IInv, Scan PROVE IInv'
<1> USE DEF IInv, Scan, shared, TypeOK, SenderState, SenderStands, PacketsStand, RepliesStand,
            CountsStand, Goodput, WindowExact, ExpiryExact
<1>1. CASE sender' = [sender EXCEPT !.pc = "window"]
  BY <1>1, Numbers
<1>2. CASE /\ sender' = [sender EXCEPT !.cursor = @ + 1]
           /\ sender.cursor # sender.sequence /\ state[sender.cursor] # "outstanding"
  BY <1>2, Numbers
<1>3. CASE /\ sender' = [sender EXCEPT !.pc = "expire"]
           /\ sender.cursor # sender.sequence /\ ~TooYoung(sender.cursor)
  <2>1. sender.cursor \in Packets
    BY <1>3, Numbers
  <2> QED BY <1>3, <2>1, Numbers DEF TooYoung
<1> QED BY <1>1, <1>2, <1>3

\* The reply may have come meanwhile: then the packet is left as it is.
LEMMA ExpireKeeps == ASSUME IInv, Expire PROVE IInv'
<1> DEFINE p == sender.cursor
<1> USE DEF IInv, Expire, Sender, Expirable
<1>1. p \in Packets /\ p < sender.sequence /\ sender.sequence < Count
  BY Numbers DEF TypeOK, SenderState, SenderStands
<1>2. CASE state[p] = "outstanding"
  <2>1. state' = [state EXCEPT ![p] = "expired"] /\ sender' = [sender EXCEPT !.pc = "release"]
    BY <1>2
  <2>2. TypeOK'
    BY <2>1, <1>1 DEF TypeOK, SenderState, States
  <2>3. SenderStands' /\ PacketsStand' /\ RepliesStand'
    BY <2>1, <1>1, <1>2 DEF TypeOK, SenderState, SenderStands, PacketsStand, RepliesStand, States
  <2>4. InState(state', "replied") = InState(state, "replied")
    BY <2>1, <1>1, <1>2 DEF InState, TypeOK, SenderState
  <2>5. CountsStand'
    BY <2>4 DEF CountsStand, Goodput, InState
  <2>6. Places(state') = Places(state) - 1
    BY <1>1, <1>2, <2>1, PlaceLeft DEF TypeOK, SenderState, States
  <2>7. WindowExact'
    <3>1. Freeing(sender) = 0 /\ Freeing(sender') = 1 /\ UNCHANGED <<outstanding, receiver>>
      BY <2>1 DEF Freeing, TypeOK, SenderState
    <3> QED BY <2>6, <3>1, WindowSummed, SumTyped DEF WindowSum
  <2>8. ExpiryExact'
    BY <2>1, <1>1, Numbers DEF ExpiryExact, TypeOK, SenderState, SenderStands
  <2> QED BY <2>2, <2>3, <2>5, <2>7, <2>8
<1>3. CASE state[p] # "outstanding"
  <2>1. UNCHANGED state /\ sender' = [sender EXCEPT !.pc = "scan", !.cursor = @ + 1]
    BY <1>3
  <2>2. TypeOK'
    <3>1. sender' \in SenderState
      BY <1>1, <2>1, CursorMoves DEF TypeOK
    <3> QED BY <2>1, <3>1 DEF TypeOK
  <2>3. SenderStands'
    BY <1>1, <1>3, <2>1, Numbers DEF TypeOK, SenderState, SenderStands
  <2>4. PacketsStand' /\ RepliesStand' /\ CountsStand' /\ WindowExact'
    BY <2>1 DEF TypeOK, SenderState, PacketsStand, RepliesStand, CountsStand, Goodput, WindowExact
  <2>5. ExpiryExact'
    BY <1>1, <1>3, <2>1, Numbers DEF TypeOK, SenderState, ExpiryExact
  <2> QED BY <2>2, <2>3, <2>4, <2>5
<1> QED BY <1>2, <1>3

\* The place counted for the release is given back.
LEMMA ReleaseKeeps == ASSUME IInv, Release PROVE IInv'
<1> USE DEF IInv, Release
<1>1. /\ sender.pc = "release" /\ sender' = [sender EXCEPT !.pc = "scan", !.cursor = @ + 1]
      /\ outstanding' = outstanding - 1
  OBVIOUS
<1>2. Freeing(sender) = 1 /\ Freeing(sender') = 0
  BY <1>1 DEF Freeing, TypeOK, SenderState
<1>3. WindowExact' /\ outstanding' >= 0
  BY <1>1, <1>2, WindowSummed, SumTyped, Numbers DEF WindowSum
<1>4. TypeOK'
  <2>1. sender' \in SenderState
    BY <1>1, CursorMoves DEF TypeOK, SenderStands
  <2> QED BY <1>1, <1>3, <2>1, Numbers DEF TypeOK, WindowExact
<1>5. SenderStands' /\ ExpiryExact'
  BY Numbers DEF TypeOK, SenderState, SenderStands, ExpiryExact
<1>6. PacketsStand' /\ RepliesStand' /\ CountsStand'
  BY DEF TypeOK, SenderState, PacketsStand, RepliesStand, CountsStand, Goodput
<1> QED BY <1>3, <1>4, <1>5, <1>6

\* What the sender knows of the packet whose turn it is.
LEMMA TurnOf ==
  ASSUME IInv, sender.pc \in {"publish", "send"}
  PROVE  /\ sender.sequence \in Packets /\ ~(left[sender.sequence] >= 0)
         /\ sender.sequence + 1 \in 0..Count
         /\ sender.pc = "publish" => state[sender.sequence] = "unsent"
         /\ sender.pc = "send" => state[sender.sequence] = "outstanding"
<1>1. sender.sequence \in Packets /\ sender.sequence + 1 \in 0..Count
  BY Numbers DEF IInv, TypeOK, SenderState, SenderStands
<1> QED BY <1>1, Numbers DEF IInv, TypeOK, SenderState, SenderStands, PacketsStand

LEMMA PublishKeeps == ASSUME IInv, Publish PROVE IInv'
<1> DEFINE q == sender.sequence
<1> USE DEF IInv, Publish, Sender
<1>1. q \in Packets /\ state[q] = "unsent" /\ sender.pc = "publish"
  BY TurnOf
<1>2. /\ state' = [state EXCEPT ![q] = "outstanding"]
      /\ sent_times' = [sent_times EXCEPT ![q] = now]
      /\ sender' = [sender EXCEPT !.pc = "send"] /\ outstanding' = outstanding + 1
  OBVIOUS
<1>3. TypeOK'
  <2>1. outstanding' \in 0..Window
    BY <1>1, <1>2, Numbers DEF TypeOK, SenderStands
  <2>2. sender' \in SenderState /\ state' \in [Packets -> States]
    BY <1>1, <1>2 DEF TypeOK, SenderState, States
  <2> QED BY <1>1, <1>2, <2>1, <2>2 DEF TypeOK
<1>4. SenderStands'
  BY <1>1, <1>2, Numbers DEF TypeOK, SenderState, SenderStands
<1>5. PacketsStand' /\ RepliesStand'
  BY <1>1, <1>2, Numbers DEF TypeOK, SenderState, PacketsStand, RepliesStand
<1>6. CountsStand'
  <2>1. InState(state', "replied") = InState(state, "replied")
    BY <1>1, <1>2 DEF InState, TypeOK
  <2> QED BY <2>1 DEF CountsStand, Goodput, InState
<1>7. WindowExact'
  <2>1. Places(state') = Places(state) + 1
    BY <1>1, <1>2, PlaceTaken DEF TypeOK
  <2>2. Freeing(sender) = 0 /\ Freeing(sender') = 0 /\ UNCHANGED receiver
    BY <1>1, <1>2 DEF Freeing, TypeOK, SenderState
  <2>3. outstanding' <= Window
    BY <1>1, <1>2, <1>3, Numbers DEF TypeOK
  <2> QED BY <1>2, <2>1, <2>2, <2>3, WindowSummed, SumTyped DEF WindowSum
<1>8. ExpiryExact'
  <2>1. \A p \in 0..sender.cursor - 1 : p \in Packets /\ p # q
    BY <1>1, Numbers DEF TypeOK, SenderState, SenderStands
  <2> QED BY <1>1, <1>2, <2>1 DEF ExpiryExact, TypeOK, SenderState
<1> QED BY <1>3, <1>4, <1>5, <1>6, <1>7, <1>8

\* A packet leaves: it is counted, and its replies may come.
LEMMA SendKeeps == ASSUME IInv, Send PROVE IInv'
<1> DEFINE q == sender.sequence
<1> USE DEF IInv, Send, NextPacket, shared
<1>1. /\ q \in Packets /\ state[q] = "outstanding" /\ ~(left[q] >= 0) /\ sender.pc = "send"
      /\ q + 1 \in 0..Count
  BY TurnOf
<1>2. /\ sender' = [sender EXCEPT !.pc = "pace", !.sequence = @ + 1]
      /\ left' = [left EXCEPT ![q] = now] /\ wire' = wire \cup Copied(q)
      /\ counters' = [counters EXCEPT !.sent = @ + 1]
  BY DEF Copied
<1>3. TypeOK'
  <2>1. Copied(q) \subseteq Packets \X {1, 2}
    BY <1>1 DEF Copied, Copies
  <2>2. sender' \in SenderState
    BY <1>1, <1>2 DEF TypeOK, SenderState
  <2>3. counters' \in Tally
    BY <1>2 DEF TypeOK, Tally
  <2>4. left' \in [Packets -> -1..MaxTime]
    BY <1>1, <1>2, Numbers DEF TypeOK
  <2> QED BY <1>2, <2>1, <2>2, <2>3, <2>4 DEF TypeOK
<1>4. SenderStands'
  BY <1>1, <1>2, Numbers DEF TypeOK, SenderState, SenderStands
<1>5. PacketsStand'
  BY <1>1, <1>2, Numbers DEF TypeOK, SenderState, PacketsStand
<1>6. RepliesStand'
  <2>1. \A r \in Copied(q) : r[1] = q
    BY DEF Copied
  <2>2. \A p \in Packets : left[p] >= 0 => left'[p] >= 0
    BY <1>1, <1>2, Numbers DEF TypeOK
  <2>3. left'[q] >= 0
    BY <1>1, <1>2, Numbers DEF TypeOK
  <2> QED BY <1>1, <1>2, <2>1, <2>2, <2>3 DEF RepliesStand
<1>7. CountsStand'
  <2>1. Cardinality({p \in Packets : left'[p] >= 0})
          = Cardinality({p \in Packets : left[p] >= 0}) + 1
    BY <1>1, <1>2, OneMoreLeft DEF TypeOK
  <2>2. Cardinality(wire') \in Nat /\ Cardinality(wire) \in Nat
        /\ Cardinality(wire') <= Cardinality(wire) + 2
    BY <1>1, <1>2, WireCounted DEF TypeOK
  <2>3. /\ counters'.sent = counters.sent + 1 /\ counters'.valid = counters.valid
        /\ counters'.late = counters.late /\ counters'.duplicates = counters.duplicates
        /\ counters'.corrupt = counters.corrupt
    BY <1>2 DEF TypeOK, Tally
  <2>4. UNCHANGED <<receiver, state>>
    OBVIOUS
  <2>5. Goodput' = Goodput
    BY <2>4 DEF Goodput
  <2> QED BY <2>1, <2>2, <2>3, <2>4, <2>5 DEF CountsStand, TypeOK, Tally
<1>8. WindowExact' /\ ExpiryExact'
  BY <1>1, <1>2 DEF WindowExact, ExpiryExact, TypeOK, SenderState
<1> QED BY <1>3, <1>4, <1>5, <1>6, <1>7, <1>8

\* A packet that cannot be sent gives its place back.
LEMMA SendFailsKeeps == ASSUME IInv, SendFails PROVE IInv'
<1> DEFINE q == sender.sequence
<1> USE DEF IInv, SendFails, NextPacket
<1>1. /\ q \in Packets /\ state[q] = "outstanding" /\ ~(left[q] >= 0) /\ sender.pc = "send"
      /\ q + 1 \in 0..Count
  BY TurnOf
<1>2. /\ sender' = [sender EXCEPT !.pc = "pace", !.sequence = @ + 1]
      /\ state' = [state EXCEPT ![q] = "error"] /\ outstanding' = outstanding - 1
      /\ counters' = [counters EXCEPT !.errors = @ + 1]
  OBVIOUS
<1>3. WindowExact' /\ outstanding' >= 0
  <2>1. Places(state') = Places(state) - 1
    <3>1. "error" \in States \ {"outstanding"}
      BY DEF States
    <3>2. state \in [Packets -> States]
      BY DEF TypeOK
    <3>3. Places([state EXCEPT ![q] = "error"]) = Places(state) - 1
      BY <1>1, <3>1, <3>2, PlaceLeft
    <3> QED BY <1>2, <3>3
  <2>2. Freeing(sender) = 0 /\ Freeing(sender') = 0 /\ UNCHANGED receiver
    BY <1>1, <1>2 DEF Freeing, TypeOK, SenderState
  <2> QED BY <1>2, <2>1, <2>2, WindowSummed, SumTyped, Numbers DEF WindowSum
<1>4. TypeOK'
  <2>1. sender' \in SenderState
    BY <1>1, <1>2 DEF TypeOK, SenderState
  <2>2. state' \in [Packets -> States]
    BY <1>1, <1>2 DEF TypeOK, States
  <2>3. counters' \in Tally
    BY <1>2 DEF TypeOK, Tally
  <2>4. outstanding' \in 0..Window
    BY <1>2, <1>3, Numbers DEF TypeOK
  <2> QED BY <2>1, <2>2, <2>3, <2>4 DEF TypeOK
<1>5. SenderStands'
  BY <1>1, <1>2, Numbers DEF TypeOK, SenderState, SenderStands
<1>6. PacketsStand' /\ RepliesStand'
  BY <1>1, <1>2, Numbers DEF TypeOK, SenderState, PacketsStand, RepliesStand
<1>7. CountsStand'
  <2>1. InState(state', "replied") = InState(state, "replied")
    BY <1>1, <1>2 DEF InState, TypeOK
  <2> QED BY <1>2, <2>1, ZenonT(30) DEF CountsStand, Goodput, InState, TypeOK, Tally
<1>8. ExpiryExact'
  BY <1>1, <1>2 DEF ExpiryExact, TypeOK, SenderState
<1> QED BY <1>3, <1>4, <1>5, <1>6, <1>7, <1>8
-----------------------------------------------------------------------------
(* The receiver, the network and the clock.                                  *)

\* A reply that is taken off the wire moves to the receiver or is counted as damaged.
LEMMA ReceiveKeeps == ASSUME IInv, Receive PROVE IInv'
<1> USE DEF IInv, Receive, shared
<1>1. PICK r \in wire :
        /\ wire' = wire \ {r}
        /\ receiver' = [pc |-> "classify", packet |-> r[1], rtt |-> now - sent_times[r[1]]]
  OBVIOUS
<1>2. r[1] \in Packets /\ left[r[1]] >= 0 /\ sent_times[r[1]] <= now
  BY DEF RepliesStand, PacketsStand
<1>3. TypeOK'
  <2>1. now - sent_times[r[1]] \in 0..MaxTime /\ r[1] \in 0..Count
    <3>1. sent_times[r[1]] \in 0..MaxTime /\ now \in 0..MaxTime
      BY <1>2 DEF TypeOK
    <3>2. r[1] \in Int /\ r[1] >= 0 /\ r[1] < Count
      BY <1>2, Numbers
    <3> QED BY <1>2, <3>1, <3>2, Numbers
  <2>2. receiver' \in ReceiverState
    BY <1>1, <2>1 DEF ReceiverState
  <2> QED BY <1>1, <2>2 DEF TypeOK
<1>4. SenderStands' /\ PacketsStand' /\ ExpiryExact'
  BY DEF SenderStands, PacketsStand, ExpiryExact
<1>5. RepliesStand'
  BY <1>1, <1>2 DEF RepliesStand
<1>6. CountsStand'
  <2>1. Cardinality(wire') = Cardinality(wire) - 1 /\ Cardinality(wire) \in Nat
    BY <1>1, WireCounted DEF TypeOK
  <2>2. receiver.pc = "recv" /\ receiver'.pc = "classify"
    BY <1>1
  <2>3. Goodput' = Goodput /\ UNCHANGED <<counters, left>>
    BY DEF Goodput
  <2> QED BY <2>1, <2>2, <2>3 DEF CountsStand, TypeOK, Tally
<1>7. WindowExact'
  <2>1. Freeing(receiver) = 0 /\ Freeing(receiver') = 0
    BY <1>1 DEF Freeing
  <2> QED BY <2>1, WindowSummed DEF WindowSum
<1> QED BY <1>3, <1>4, <1>5, <1>6, <1>7

LEMMA ReceptionTyped ==
  ASSUME receiver \in ReceiverState, NEW pc \in {"recv", "classify", "release", "done", "failed"}
  PROVE  [receiver EXCEPT !.pc = pc] \in ReceiverState
BY DEF ReceiverState

LEMMA ReceiveCorruptKeeps == ASSUME IInv, ReceiveCorrupt PROVE IInv'
<1> USE DEF IInv, ReceiveCorrupt, shared
<1>1. PICK r \in wire : wire' = wire \ {r}
  OBVIOUS
<1>2. /\ receiver.pc = "recv" /\ receiver' = [receiver EXCEPT !.pc = NextReception]
      /\ counters' = [counters EXCEPT !.corrupt = @ + 1] /\ NextReception \in {"recv", "done"}
  BY DEF NextReception
<1>3. TypeOK'
  <2>1. receiver' \in ReceiverState /\ counters' \in Tally
    BY <1>2, ReceptionTyped DEF TypeOK, Tally
  <2> QED BY <1>1, <2>1 DEF TypeOK
<1>4. SenderStands' /\ PacketsStand' /\ ExpiryExact'
  BY DEF SenderStands, PacketsStand, ExpiryExact
<1>5. RepliesStand'
  BY <1>1, <1>2 DEF RepliesStand, TypeOK, ReceiverState
<1>6. CountsStand'
  <2>1. Cardinality(wire') = Cardinality(wire) - 1 /\ Cardinality(wire) \in Nat
    BY <1>1, WireCounted DEF TypeOK
  <2>2. receiver.pc # "classify" /\ receiver'.pc # "classify"
    BY <1>2 DEF TypeOK, ReceiverState
  <2>3. Goodput' = Goodput /\ UNCHANGED left
    BY DEF Goodput
  <2>4. /\ counters'.sent = counters.sent /\ counters'.valid = counters.valid
        /\ counters'.late = counters.late /\ counters'.duplicates = counters.duplicates
        /\ counters'.corrupt = counters.corrupt + 1
    BY <1>2 DEF TypeOK, Tally
  <2> QED BY <2>1, <2>2, <2>3, <2>4 DEF CountsStand, TypeOK, Tally
<1>7. WindowExact'
  <2>1. Freeing(receiver) = 0 /\ Freeing(receiver') = 0
    BY <1>2 DEF Freeing, TypeOK, ReceiverState
  <2> QED BY <2>1, WindowSummed DEF WindowSum
<1> QED BY <1>3, <1>4, <1>5, <1>6, <1>7

LEMMA TallyUpdated ==
  ASSUME NEW c \in Tally, NEW valid \in Nat, NEW late \in Nat, NEW reordered \in Nat,
         NEW maximum \in -1..Count
  PROVE  [c EXCEPT !.valid = valid, !.late = late, !.reordered = reordered,
                   !.maximum = maximum] \in Tally
BY DEF Tally

\* What the classification of a packet that left does to the totals.
LEMMA CountedRight ==
  ASSUME TypeOK, NEW p \in Packets
  PROVE  /\ Counted(counters, p) \in Tally
         /\ Counted(counters, p).sent = counters.sent
         /\ Counted(counters, p).corrupt = counters.corrupt
         /\ state[p] = "replied" =>
              /\ Counted(counters, p).valid = counters.valid
              /\ Counted(counters, p).late = counters.late
              /\ Counted(counters, p).duplicates = counters.duplicates + 1
         /\ state[p] # "replied" =>
              /\ Counted(counters, p).valid = counters.valid + 1
              /\ Counted(counters, p).late \in {counters.late, counters.late + 1}
              /\ Counted(counters, p).duplicates = counters.duplicates
<1>1. p \in -1..Count
  BY Numbers
<1>2. CASE state[p] = "replied"
  BY <1>1, <1>2 DEF Counted, TypeOK, Tally
<1>3. CASE state[p] # "replied"
  <2> DEFINE late == IF Late(p) THEN counters.late + 1 ELSE counters.late
             reordered == IF p < counters.maximum THEN counters.reordered + 1
                          ELSE counters.reordered
             maximum == IF p > counters.maximum THEN p ELSE counters.maximum
             c == [counters EXCEPT !.valid = @ + 1, !.late = late, !.reordered = reordered,
                                   !.maximum = maximum]
  <2>1. Counted(counters, p) = c
    BY <1>3 DEF Counted, TypeOK, Tally
  <2>2. c \in Tally
    <3>1. late \in Nat /\ reordered \in Nat /\ maximum \in -1..Count
      BY <1>1 DEF TypeOK, Tally
    <3>2. counters.valid + 1 \in Nat /\ counters \in Tally
      BY DEF TypeOK, Tally
    <3> HIDE DEF late, reordered, maximum
    <3> QED BY <3>1, <3>2, TallyUpdated
  <2>3. /\ c.sent = counters.sent /\ c.corrupt = counters.corrupt /\ c.valid = counters.valid + 1
        /\ c.late \in {counters.late, counters.late + 1} /\ c.duplicates = counters.duplicates
    BY DEF TypeOK, Tally
  <2> QED BY <1>3, <2>1, <2>2, <2>3
<1> QED BY <1>2, <1>3

LEMMA ClassifyKeeps == ASSUME IInv, Classify PROVE IInv'
<1> DEFINE p == receiver.packet
<1> USE DEF IInv, Classify
<1>1. /\ p \in Packets /\ left[p] >= 0 /\ receiver.pc = "classify"
      /\ p < sender.sequence /\ state[p] \in {"outstanding", "replied", "expired"}
  BY DEF RepliesStand, PacketsStand, TypeOK, States
<1>2. /\ counters' = Counted(counters, p) /\ state' = [state EXCEPT ![p] = "replied"]
      /\ receiver' = [receiver EXCEPT !.pc = IF Frees(p) THEN "release" ELSE NextReception]
      /\ NextReception \in {"recv", "done"}
  BY DEF NextReception
<1>3. TypeOK'
  <2>1. counters' \in Tally
    BY <1>1, <1>2, CountedRight
  <2>2. receiver' \in ReceiverState
    BY <1>2, ReceptionTyped DEF TypeOK
  <2>3. state' \in [Packets -> States]
    BY <1>2 DEF TypeOK, States
  <2> QED BY <2>1, <2>2, <2>3 DEF TypeOK
<1>4. SenderStands'
  <2>1. sender.pc = "send" => sender.sequence # p
    BY <1>1 DEF TypeOK, SenderState
  <2>2. \A q \in Packets : state'[q] = IF q = p THEN "replied" ELSE state[q]
    BY <1>1, <1>2 DEF TypeOK
  <2>3. sender.pc = "release" => sender.cursor \in Packets
    BY Numbers DEF TypeOK, SenderState, SenderStands
  <2>4. sender.pc = "send" => sender.sequence \in Packets
    BY Numbers DEF TypeOK, SenderState, SenderStands
  <2> QED BY <2>1, <2>2, <2>3, <2>4 DEF SenderStands
<1>5. PacketsStand' /\ RepliesStand'
  BY <1>1, <1>2 DEF TypeOK, SenderState, ReceiverState, PacketsStand, RepliesStand
<1>6. CountsStand'
  <2>1. /\ state[p] = "replied" => Goodput' = Goodput
        /\ state[p] # "replied" => Cardinality(Goodput') = Cardinality(Goodput) + 1
    <3>1. state \in [Packets -> States] /\ "replied" \in States
      BY DEF TypeOK, States
    <3>2. CASE state[p] = "replied"
      BY <1>1, <1>2, <3>1, <3>2 DEF Goodput
    <3>3. CASE state[p] # "replied"
      BY <1>1, <1>2, <3>1, <3>3, Recount DEF Goodput, InState
    <3> QED BY <3>2, <3>3
  <2>2. receiver.pc = "classify" /\ receiver'.pc # "classify"
    BY <1>1, <1>2 DEF TypeOK, ReceiverState
  <2>3. UNCHANGED <<left, wire>> /\ Cardinality(wire) \in Nat
    BY WireCounted DEF TypeOK
  <2> QED BY <1>1, <1>2, <2>1, <2>2, <2>3, CountedRight DEF CountsStand, TypeOK, Tally
<1>7. WindowExact'
  <2>1. UNCHANGED <<outstanding, sender>> /\ Freeing(receiver) = 0
    BY <1>1 DEF Freeing
  <2>2. CASE state[p] = "outstanding"
    <3>1. "replied" \in States \ {"outstanding"}
      BY DEF States
    <3>2. Places(state') = Places(state) - 1
      <4>1. state \in [Packets -> States]
        BY DEF TypeOK
      <4>2. Places([state EXCEPT ![p] = "replied"]) = Places(state) - 1
        BY <1>1, <2>2, <3>1, <4>1, PlaceLeft
      <4> QED BY <1>2, <4>2
    <3>3. Freeing(receiver') = 1
      BY <1>2, <2>2 DEF Freeing, Frees, TypeOK, ReceiverState
    <3> QED BY <2>1, <3>2, <3>3, WindowSummed, SumTyped DEF WindowSum
  <2>3. CASE state[p] # "outstanding"
    <3>1. Freeing(receiver') = 0
      BY <1>2, <2>3 DEF Freeing, Frees, TypeOK, ReceiverState
    <3>2. InState(state', "outstanding") = InState(state, "outstanding")
      BY <1>1, <1>2, <2>3 DEF InState, TypeOK
    <3> QED BY <2>1, <3>1, <3>2, WindowSummed DEF WindowSum, Places
  <2> QED BY <2>2, <2>3
<1>8. ExpiryExact'
  BY <1>1, <1>2 DEF ExpiryExact, TypeOK
<1> QED BY <1>3, <1>4, <1>5, <1>6, <1>7, <1>8

LEMMA ReceiverReleasesKeeps == ASSUME IInv, ReceiverReleases PROVE IInv'
<1> USE DEF IInv, ReceiverReleases
<1>1. /\ receiver.pc = "release" /\ receiver' = [receiver EXCEPT !.pc = NextReception]
      /\ outstanding' = outstanding - 1 /\ NextReception \in {"recv", "done"}
  BY DEF NextReception
<1>2. Freeing(receiver) = 1 /\ Freeing(receiver') = 0
  BY <1>1 DEF Freeing, TypeOK, ReceiverState
<1>3. WindowExact' /\ outstanding' >= 0
  BY <1>1, <1>2, WindowSummed, SumTyped, Numbers DEF WindowSum
<1>4. TypeOK'
  <2>1. receiver' \in ReceiverState
    BY <1>1, ReceptionTyped DEF TypeOK
  <2> QED BY <1>1, <1>3, <2>1, Numbers DEF TypeOK, WindowExact
<1>5. SenderStands' /\ PacketsStand' /\ ExpiryExact'
  BY <1>1, Numbers DEF TypeOK, SenderStands, PacketsStand, ExpiryExact
<1>6. RepliesStand' /\ CountsStand'
  BY <1>1 DEF TypeOK, ReceiverState, RepliesStand, CountsStand, Goodput
<1> QED BY <1>3, <1>4, <1>5, <1>6

LEMMA ReceiverStopsKeeps == ASSUME IInv, ReceiverEnds \/ ReceiverFails PROVE IInv'
<1> USE DEF IInv, ReceiverEnds, ReceiverFails, shared
<1>1. receiver.pc = "recv" /\ \E pc \in {"done", "failed"} : receiver' = [receiver EXCEPT !.pc = pc]
  OBVIOUS
<1>2. receiver' \in ReceiverState /\ receiver'.pc \in {"done", "failed"}
  BY <1>1, ReceptionTyped DEF TypeOK, ReceiverState
<1>3. UNCHANGED <<now, state, sent_times, outstanding, sender, counters, wire, left>>
  OBVIOUS
<1>4. TypeOK' /\ SenderStands' /\ PacketsStand' /\ ExpiryExact'
  BY <1>2, <1>3 DEF TypeOK, SenderStands, PacketsStand, ExpiryExact
<1>5. RepliesStand' /\ CountsStand' /\ WindowExact'
  BY <1>1, <1>2, <1>3 DEF RepliesStand, CountsStand, Goodput, WindowExact
<1> QED BY <1>4, <1>5

LEMMA LoseKeeps == ASSUME IInv, Lose PROVE IInv'
<1> USE DEF IInv, Lose, shared
<1>1. PICK r \in wire : wire' = wire \ {r}
  OBVIOUS
<1>2. Cardinality(wire') = Cardinality(wire) - 1 /\ Cardinality(wire) \in Nat
  BY <1>1, WireCounted DEF TypeOK
<1>3. TypeOK' /\ SenderStands' /\ PacketsStand' /\ RepliesStand' /\ WindowExact' /\ ExpiryExact'
  BY <1>1 DEF TypeOK, SenderStands, PacketsStand, RepliesStand, WindowExact, ExpiryExact
<1>4. CountsStand'
  BY <1>2 DEF CountsStand, Goodput, TypeOK, Tally
<1> QED BY <1>3, <1>4

LEMMA ElapseKeeps == ASSUME IInv, Elapse PROVE IInv'
<1> USE DEF IInv, Elapse, shared
<1>1. now' = now + 1 /\ now' \in 0..MaxTime
  BY Numbers DEF TypeOK
<1>2. TypeOK' /\ RepliesStand' /\ CountsStand' /\ WindowExact'
  BY <1>1 DEF TypeOK, RepliesStand, CountsStand, Goodput, WindowExact
<1>3. SenderStands' /\ PacketsStand'
  BY <1>1, Numbers DEF TypeOK, SenderState, SenderStands, PacketsStand
<1>4. ExpiryExact'
  BY <1>1, Numbers DEF TypeOK, ExpiryExact
<1> QED BY <1>2, <1>3, <1>4
-----------------------------------------------------------------------------
LEMMA StepKeeps == ASSUME IInv, [Next]_vars PROVE IInv'
<1>1. CASE Send_Next
  BY <1>1, PaceKeeps, AdmitKeeps, ScanKeeps, ExpireKeeps, ReleaseKeeps, PublishKeeps, SendKeeps,
     SendFailsKeeps DEF Send_Next
<1>2. CASE Receive_Next
  BY <1>2, ReceiveKeeps, ReceiveCorruptKeeps, ClassifyKeeps, ReceiverReleasesKeeps,
     ReceiverStopsKeeps DEF Receive_Next
<1>3. CASE Lose \/ Elapse
  BY <1>3, LoseKeeps, ElapseKeeps
<1>4. CASE UNCHANGED vars
  BY <1>4 DEF vars, shared, IInv, TypeOK, SenderStands, PacketsStand, RepliesStand, CountsStand,
     Goodput, WindowExact, ExpiryExact
<1> QED BY <1>1, <1>2, <1>3, <1>4 DEF Next

LEMMA Invariance == Spec => []IInv
BY Initially, StepKeeps, PTL DEF Spec

\* Packet states, times, counters and both threads keep their type; the shared window
\* count never leaves 0..Window, so that its unsigned atomic never wraps.
THEOREM TypeCorrect == Spec => []TypeOK
<1>1. IInv => TypeOK
  BY DEF IInv
<1> QED BY <1>1, Invariance, PTL

\* However expiry and replies race, every outstanding packet holds exactly one place of the
\* window and frees it once.
THEOREM WindowCorrect == Spec => []WindowExact
<1>1. IInv => WindowExact
  BY DEF IInv
<1> QED BY <1>1, Invariance, PTL

\* No packet expires before its time-out, and expire_old passes over none that is
\* outstanding.
THEOREM ExpiryCorrect == Spec => []ExpiryExact
<1>1. IInv => ExpiryExact
  BY DEF IInv
<1> QED BY <1>1, Invariance, PTL

\* The totals a finished trial reports agree with one another and with the states of its
\* packets.
THEOREM CountsCorrect == Spec => []CountsAgree
<1>1. ASSUME IInv PROVE CountsAgree
  <2> DEFINE departed == {p \in Packets : left[p] >= 0}
  <2>1. Cardinality(Goodput) <= Cardinality(departed) /\ Cardinality(departed) \in Nat
        /\ Cardinality(wire) \in Nat /\ Cardinality(Goodput) \in Nat
    <3>1. Goodput \subseteq departed
      <4> SUFFICES ASSUME NEW p \in Packets, state[p] = "replied" PROVE left[p] >= 0
        BY DEF Goodput
      <4>1. sender.sequence \in Int /\ p \in Int
        BY <1>1, Numbers DEF IInv, TypeOK, SenderState
      <4>2. p < sender.sequence
        BY <1>1, <4>1 DEF IInv, PacketsStand, SenderStands
      <4> QED BY <1>1, <4>2 DEF IInv, PacketsStand
    <3>2. IsFiniteSet(departed)
      BY PacketsFinite
    <3>3. Cardinality(Goodput) <= Cardinality(departed)
      BY <3>1, <3>2, FS_Subset
    <3> QED BY <1>1, <3>3, PacketsFinite, WireCounted DEF IInv, TypeOK, Goodput
  <2>2. counters.sent = Cardinality(departed) /\ counters.valid = Cardinality(Goodput)
    BY <1>1 DEF IInv, CountsStand
  <2>3. counters.valid + Missing = counters.sent
    BY <2>1, <2>2 DEF Missing
  <2>4. counters.valid + counters.duplicates + counters.corrupt <= 2 * counters.sent
    BY <1>1, <2>1 DEF IInv, CountsStand, TypeOK, Tally
  <2> QED BY <1>1, <2>2, <2>3, <2>4 DEF CountsAgree, IInv, CountsStand
<1> QED BY <1>1, Invariance, PTL
=================================================================================
